----------------------------- MODULE ZzConsole -----------------------------
(***************************************************************************)
(* The console of a program ZZRun runs (ZZRun.c).  What the program prints *)
(* and what the launcher has to say go out through one asynchronous write  *)
(* packet, what is typed or piped in comes back through one asynchronous   *)
(* read packet, and every pass of run_loop serves both.  Another launcher  *)
(* may take the window over at any time.  Positions in the rings count     *)
(* bytes since the start.                                                  *)
(***************************************************************************)
EXTENDS Naturals, Sequences

CONSTANTS
  OutCap,     \* ZZAPP_CONSOLE_OUT_CAP
  InCap,      \* ZZAPP_CONSOLE_IN_CAP
  MsgCap,     \* ZZRUN_LAUNCHER_OUTPUT_BYTES
  MsgReserve, \* ZZRUN_LAUNCHER_STATUS_RESERVE_BYTES
  MaxOut,     \* bound: bytes the program prints
  MaxIn,      \* bound: bytes that can be read
  MaxMsgs     \* bound: messages of the launcher and records of the log

ASSUME ConsoleAssumption ==
  /\ OutCap \in Nat \ {0} /\ InCap \in Nat \ {0} /\ MsgCap \in Nat /\ MsgReserve \in Nat
  /\ MaxOut \in Nat /\ MaxIn \in Nat /\ MaxMsgs \in Nat

VARIABLES
  cAt,       \* where the launcher is
  cWin,      \* window is still set
  cOwn,      \* the window holds the owned generation
  cApp,      \* "running" or "ended"
  cStop,     \* stop_asked: "no", "self" or "user"
  cKeyboard, \* IsInteractive(console_input())
  cHead, cTail,   \* output ring of the window
  cMsgs, cSaid,   \* launcher_output; history: how many messages there were
  wState,    \* con_write_packet: "idle", "sent" or "done"
  wSource, wTail, wBytes, \* what it carries, from where in the ring
  wResult,   \* what was written
  cFailed,   \* console_output_failed
  iHead, iTail, iEof, iWant, \* input ring of the window
  iState, iGot, \* con_packet and what it came back with
  cHave,     \* con_have
  cEof,      \* con_eof
  cOut,      \* history: bytes of the own program the output has received
  cRead,     \* history: bytes taken from the input
  cClean     \* history: the loop ended after the program, by itself

readVars == <<iState, iGot>>
writeVars == <<wState, wSource, wTail, wBytes, wResult>>
inVars == <<iHead, iTail, iEof, iWant, readVars, cHave, cEof, cRead>>
outVars == <<cHead, cTail, cMsgs, cSaid, writeVars, cFailed, cOut>>
consoleVars == <<cAt, cWin, cOwn, cApp, cStop, cKeyboard, outVars, inVars, cClean>>

Lesser(a, b) == IF a < b THEN a ELSE b

-----------------------------------------------------------------------------
(* The program, the handlers and other launchers                           *)

AppPrints ==
  /\ cApp = "running" /\ (cOwn \/ cWin) /\ cHead < MaxOut /\ cHead - cTail < OutCap
  /\ cHead' = cHead + 1
  /\ UNCHANGED <<cAt, cWin, cOwn, cApp, cStop, cKeyboard, cTail, cMsgs, cSaid, writeVars, cFailed,
                 cOut, inVars, cClean>>

\* WANT is looked at for a keyboard only.  (What another launcher's program
\* reads changes nothing here.)
AppReads ==
  /\ cApp = "running" /\ cOwn
  /\ \/ iTail < iHead /\ iTail' = iTail + 1 /\ iWant' = FALSE
     \/ iTail = iHead /\ iWant' = cKeyboard /\ UNCHANGED iTail
  /\ UNCHANGED <<cAt, cWin, cOwn, cApp, cStop, cKeyboard, outVars, iHead, iEof, readVars, cHave,
                 cEof, cRead, cClean>>

AppEnds ==
  /\ cApp = "running" /\ cOwn /\ cApp' = "ended"
  /\ UNCHANGED <<cAt, cWin, cOwn, cStop, cKeyboard, outVars, inVars, cClean>>

\* Another launcher starts a program: the window's rings are that program's.
TakeOver ==
  /\ cApp = "ended" /\ cOwn /\ cOwn' = FALSE /\ cApp' = "running"
  /\ cHead' = 0 /\ cTail' = 0 /\ iHead' = 0 /\ iTail' = 0 /\ iEof' = FALSE /\ iWant' = FALSE
  /\ UNCHANGED <<cAt, cWin, cStop, cKeyboard, cMsgs, cSaid, writeVars, cFailed, cOut, readVars,
                 cHave, cEof, cRead, cClean>>

\* A write ends in full, short or with an error.
WriteDone ==
  /\ wState = "sent" /\ wState' = "done"
  /\ \E n \in 0..wBytes :
       wResult' = n /\ cOut' = IF wSource = "app" THEN cOut + n ELSE cOut
  /\ UNCHANGED <<cAt, cWin, cOwn, cApp, cStop, cKeyboard, cHead, cTail, cMsgs, cSaid, wSource,
                 wTail, wBytes, cFailed, inVars, cClean>>

\* A line, a chunk of the pipe, or nothing more.
ReadDone ==
  /\ iState = "sent" /\ iState' = "done"
  /\ \E n \in 0..(MaxIn - cRead) : iGot' = n /\ cRead' = cRead + n
  /\ UNCHANGED <<cAt, cWin, cOwn, cApp, cStop, cKeyboard, outVars, iHead, iTail, iEof, iWant,
                 cHave, cEof, cClean>>

-----------------------------------------------------------------------------
(* Messages of the launcher                                                *)

\* zzrun_launcher_output_accept: room is kept for status messages.
Accept(q, kind) == Len(q) < IF kind = "log" THEN MsgCap - MsgReserve ELSE MsgCap

Said(q, kind) == IF Accept(q, kind) THEN Append(q, kind) ELSE q

\* console_output_error: the launcher says so once and stops the program.
OutputError ==
  /\ cFailed' = TRUE /\ cStop' = IF cStop = "no" THEN "self" ELSE cStop
  /\ cMsgs' = IF cFailed THEN cMsgs ELSE Said(cMsgs, "status")

-----------------------------------------------------------------------------
(* console_reap_packets: before every service, all that came back          *)

PacketBack == wState = "done" \/ iState = "done"

\* The bytes asked for, however many were written.
AdvanceAll == wBytes

\* zzrun_console_write_advance
Advance == wResult

\* launcher_output_consume
Unsaid == IF wSource = "launcher" THEN SubSeq(cMsgs, Advance + 1, Len(cMsgs)) ELSE cMsgs

\* console_write_complete: the window's position moves only in the owned
\* generation and from where the write began; else, and after a short write, the
\* output has failed.
WriteFree == wState' = "idle" /\ wSource' = "" /\ wTail' = 0 /\ wBytes' = 0 /\ wResult' = 0

MovesTail == wSource \in {"app", "other app"} /\ Advance > 0 /\ cWin /\ cOwn

ReapWrite ==
  /\ wState = "done" /\ WriteFree
  /\ cTail' = IF MovesTail /\ cTail = wTail THEN wTail + Advance ELSE cTail
  /\ \/ /\ wResult = wBytes /\ (MovesTail => cTail = wTail) /\ UNCHANGED <<cFailed, cStop>>
        /\ cMsgs' = Unsaid
     \/ /\ wResult # wBytes \/ (MovesTail /\ cTail # wTail)
        /\ cMsgs' = IF cFailed THEN Unsaid ELSE Said(Unsaid, "status")
        /\ cFailed' = TRUE /\ cStop' = IF cStop = "no" THEN "self" ELSE cStop
  /\ UNCHANGED <<cAt, cWin, cOwn, cApp, cKeyboard, cHead, cSaid, cOut, inVars, cClean>>

ReapRead ==
  /\ iState = "done" /\ iState' = "idle" /\ iGot' = 0
  /\ IF iGot = 0 THEN cEof' = TRUE /\ UNCHANGED cHave ELSE cHave' = iGot /\ UNCHANGED cEof
  /\ UNCHANGED <<cAt, cWin, cOwn, cApp, cStop, cKeyboard, outVars, iHead, iTail, iEof, iWant,
                 cRead, cClean>>

\* Each service takes what has come back first.
Reap == cAt \in {"drain", "fill", "finish drain"} /\ (ReapWrite \/ ReapRead)

-----------------------------------------------------------------------------
(* console_drain_output                                                    *)

Send(source, tail, n) ==
  wState' = "sent" /\ wSource' = source /\ wTail' = tail /\ wBytes' = n /\ wResult' = 0

Available == IF cWin THEN cHead - cTail ELSE 0

\* The ring is not checked for its owner: another program's output can be
\* printed too, over and over.  Messages first.  A chunk ends where its ring
\* wraps or the packet is full.
\* No memory, no port or no console: the output has failed.
DrainSome ==
  \/ /\ (cFailed \/ wState # "idle" \/ (cMsgs = <<>> /\ Available = 0))
     /\ UNCHANGED <<writeVars, cMsgs, cFailed, cStop>>
  \/ /\ ~cFailed /\ wState = "idle" /\ cMsgs # <<>>
     /\ \E n \in 1..Len(cMsgs) : Send("launcher", 0, n)
     /\ UNCHANGED <<cMsgs, cFailed, cStop>>
  \/ /\ ~cFailed /\ wState = "idle" /\ cMsgs = <<>> /\ Available > 0
     /\ Send(IF cOwn THEN "app" ELSE "other app", cTail,
             Lesser(Available, OutCap - (cTail % OutCap)))
     /\ UNCHANGED <<cMsgs, cFailed, cStop>>
  \/ /\ ~cFailed /\ wState = "idle" /\ (cMsgs # <<>> \/ Available > 0)
     /\ OutputError /\ UNCHANGED writeVars

Drain ==
  /\ \/ cAt = "drain" /\ cAt' = "fill"
     \/ cAt = "finish drain" /\ cAt' = "finish wait"
  /\ ~PacketBack /\ DrainSome
  /\ UNCHANGED <<cWin, cOwn, cApp, cKeyboard, cHead, cTail, cSaid, cOut, inVars, cClean>>

-----------------------------------------------------------------------------
(* console_fill_input                                                      *)

\* console_push
Room == InCap - (iHead - iTail)
Pushed == Lesser(cHave, Room)

\* What a read may be started for, with the ring's positions read before WANT.
MayRead(head) ==
  /\ cApp = "running" /\ cOwn /\ cStop = "no"
  /\ IF cKeyboard THEN head = iTail /\ iWant ELSE head - iTail < InCap

Fill ==
  /\ cAt = "fill" /\ ~PacketBack /\ cAt' = "log"
  /\ IF iEof \/ iState = "sent"
       THEN UNCHANGED <<iHead, iEof, cHave, readVars>>
       ELSE /\ iHead' = iHead + Pushed /\ cHave' = cHave - Pushed
            /\ \/ (cHave' > 0 \/ (~cEof /\ ~MayRead(iHead'))) /\ UNCHANGED <<iEof, readVars>>
               \/ cHave' = 0 /\ cEof /\ iEof' = TRUE /\ UNCHANGED readVars
               \/ /\ cHave' = 0 /\ ~cEof /\ MayRead(iHead')
                  /\ \/ iState' = "sent" /\ iGot' = 0 /\ UNCHANGED iEof
                     \/ iEof' = TRUE /\ UNCHANGED readVars \* cannot be started
  /\ UNCHANGED <<cWin, cOwn, cApp, cStop, cKeyboard, outVars, iTail, iWant, cEof, cRead, cClean>>

-----------------------------------------------------------------------------
(* run_loop and cleanup                                                    *)

BeginPass ==
  /\ cAt = "wait"
  /\ IF cOwn THEN cAt' = "drain" /\ UNCHANGED <<cWin, cMsgs, cSaid>>
             ELSE /\ cAt' = "finish" /\ cWin' = FALSE
                  /\ cMsgs' = Said(cMsgs, "status") /\ UNCHANGED cSaid
  /\ \/ UNCHANGED cStop
     \/ cOwn /\ cStop' = "user"
  /\ UNCHANGED <<cOwn, cApp, cKeyboard, cHead, cTail, writeVars, cFailed, cOut, inVars, cClean>>

\* print_log, and whatever else has something to say in this pass.
LogPass ==
  /\ cAt = "log" /\ cAt' = "decide"
  /\ \/ UNCHANGED <<cMsgs, cSaid>>
     \/ /\ cSaid < MaxMsgs /\ cSaid' = cSaid + 1
        /\ \E kind \in {"log", "status"} : cMsgs' = Said(cMsgs, kind)
  /\ UNCHANGED <<cWin, cOwn, cApp, cStop, cKeyboard, cHead, cTail, writeVars, cFailed, cOut,
                 inVars, cClean>>

\* console_output_pending
OutputPending == wState # "idle" \/ cMsgs # <<>> \/ Available > 0

\* zzrun_output_blocks_exit
BlocksExit == OutputPending /\ ~cFailed

\* zzrun_run_should_exit, then the exit message.
DecideExit ==
  /\ cAt = "decide"
  /\ \/ ~cOwn /\ cAt' = "finish" /\ cWin' = FALSE /\ UNCHANGED cClean
     \/ /\ cOwn /\ UNCHANGED cWin
        /\ \/ cAt' = "wait" /\ UNCHANGED cClean
           \/ cStop = "user" /\ cAt' = "finish" /\ UNCHANGED cClean
           \/ /\ ~BlocksExit /\ (cApp = "ended" \/ cStop # "no")
              /\ cAt' = "finish" /\ cClean' = (cApp = "ended")
  /\ cMsgs' = IF cAt' = "finish" THEN Said(cMsgs, "status") ELSE cMsgs
  /\ UNCHANGED <<cOwn, cApp, cStop, cKeyboard, cHead, cTail, cSaid, writeVars, cFailed, cOut,
                 inVars>>

Unfinished == iState # "idle" \/ wState # "idle" \/ (~cFailed /\ cMsgs # <<>>)

\* console_read_finish: while packets or messages are left, serve the output
\* and wait at the port; then packets, buffers and port are freed.
FinishConsole ==
  /\ \/ cAt = "finish" /\ cAt' = IF Unfinished THEN "finish drain" ELSE "done"
     \/ cAt = "finish wait" /\ (~Unfinished \/ PacketBack)
          /\ cAt' = IF Unfinished THEN "finish drain" ELSE "done"
  /\ cHave' = IF cAt' = "done" THEN 0 ELSE cHave
  /\ UNCHANGED <<cWin, cOwn, cApp, cStop, cKeyboard, outVars, iHead, iTail, iEof, iWant, readVars,
                 cEof, cRead, cClean>>

-----------------------------------------------------------------------------
ConsoleInit ==
  /\ cAt = "wait" /\ cWin = TRUE /\ cOwn = TRUE /\ cApp = "running" /\ cStop = "no"
  /\ cKeyboard \in BOOLEAN /\ cHead = 0 /\ cTail = 0 /\ cMsgs = <<>> /\ cSaid = 0
  /\ wState = "idle" /\ wSource = "" /\ wTail = 0 /\ wBytes = 0 /\ wResult = 0
  /\ cFailed = FALSE /\ iHead = 0 /\ iTail = 0 /\ iEof = FALSE /\ iWant = FALSE
  /\ iState = "idle" /\ iGot = 0 /\ cHave = 0 /\ cEof = FALSE /\ cOut = 0 /\ cRead = 0
  /\ cClean = FALSE

ConsoleNext ==
  \/ AppPrints \/ AppReads \/ AppEnds \/ TakeOver \/ WriteDone \/ ReadDone
  \/ BeginPass \/ Reap \/ Drain \/ Fill \/ LogPass \/ DecideExit \/ FinishConsole

ConsoleSpec == ConsoleInit /\ [][ConsoleNext]_consoleVars

-----------------------------------------------------------------------------
\* The consumer position of the program's output is what was really written:
\* a short or failed write loses nothing and nothing is printed twice.
OutputExact == cOwn => cOut = cTail + IF wState = "done" /\ wSource = "app" THEN wResult ELSE 0

\* Input is neither lost nor repeated on its way from the handler, through the
\* buffer of a read that did not fit, to the program.
InputExact == cOwn /\ cAt # "done" => cRead = iHead + cHave + iGot

\* After an orderly end everything the program printed is out, unless the
\* output itself failed.
OutputComplete == cAt = "done" /\ cClean /\ cOwn /\ ~cFailed => cTail = cHead

\* No log record is in the room kept for status messages.
ReserveKept == \A i \in DOMAIN cMsgs : cMsgs[i] = "log" => i <= MsgCap - MsgReserve

\* Packets, buffers and port are freed only when no handler has a packet.
NoPacketOut == cAt = "done" => wState = "idle" /\ iState = "idle"

\* The console of a program is served exactly and released safely.
ConsoleSafe == OutputExact /\ InputExact /\ OutputComplete /\ ReserveKept /\ NoPacketOut
=============================================================================
