------------------------------- MODULE NetRx -------------------------------
(***************************************************************************)
(* The receive path of ZZ9000Net.device: the framer process (frame_proc)   *)
(* with its slot classification (net/rx.c), the interrupt server, and the  *)
(* card's backlog of received frames.  Every register access of the framer *)
(* is a step of its own, so frames, restarts and interrupts land between   *)
(* any two of them.  The card is external: its three firmware generations  *)
(* behave as net/tests/rx_test.c and the contract in rx.h describe.        *)
(***************************************************************************)
EXTENDS Naturals, FiniteSets

CONSTANTS Slots,        \* slots of the backlog (128 on the card)
          Starts,       \* <<firmware, Zorro II, last serial handed out>> at open
          Budget,       \* ZZNET_RX_DRAIN_BUDGET
          MaxFrames,    \* bound: frames received in one behaviour
          MaxDrops,     \* bound: frames the card drops
          MaxRestarts   \* bound: RX DMA restarts

FW_LEGACY == 512        \* 2.0: no ready count, slots never cleared
FW_21 == 513            \* 2.1: ready count, cleared slots, restarts
FW_28 == 520            \* 2.8: serials skip 0 and 1, acks are matched
SERIALS == 65536
FRAME == 60             \* a size within the bounds, and one below them
RUNT == 9

ASSUME SlotsAssumption  == Slots \in Nat \ {0}
ASSUME BudgetAssumption == Budget \in Nat \ {0}
ASSUME BoundsAssumption == MaxFrames \in Nat /\ MaxDrops \in Nat /\ MaxRestarts \in Nat
ASSUME StartsAssumption ==
  Starts \subseteq {FW_LEGACY, FW_21, FW_28} \X BOOLEAN \X (0..(SERIALS - 1))

EmptySlot == [size |-> 0, serial |-> 0, id |-> 0, gap |-> 0]

VARIABLES
  gen, z2,      \* firmware version; whether the bus splits a longword read
  buf,          \* the backlog: slot -> size, serial, and which frame it is
  rd, wr, backlog,
  fserial,      \* the card's last serial
  gap,          \* serials the card skipped since the last frame it queued
  frames, drops, restarts,
  irqEn,        \* bit 0 of the interrupt register
  sigF,         \* CTRL_F pending at the framer
  pc,           \* where the framer is
  again,        \* the header read in progress is the re-read
  hdr,          \* header of the first read
  word,         \* first half of a split read
  old, base,    \* rx_state.old_serial and have_baseline
  left, lowered, pri,   \* the drain budget and the framer's priority
  hid,          \* history: the frame whose serial was read
  fresh,        \* history: no restart since that read
  steady,       \* history: no restart since the baseline
  delivered,    \* history: frames copied to a reader or looked at
  counted       \* history: the last decision's overruns and the true gap

fwVars == <<gen, z2, buf, rd, wr, backlog, fserial, gap, frames, drops, restarts>>
drainVars == <<left, lowered, pri>>
rxVars == <<old, base>>
vars == <<gen, z2, buf, rd, wr, backlog, fserial, gap, frames, drops, restarts,
          irqEn, sigF, pc, again, hdr, word, old, base, left, lowered, pri,
          hid, fresh, steady, delivered, counted>>

-----------------------------------------------------------------------------
(* The card.                                                               *)

\* The next serial: from 2.8 on, 0 and 1 are never handed out.
NextSerial(s) ==
  LET n == (s + 1) % SERIALS
  IN  IF gen = FW_28 /\ n < 2 THEN 2 ELSE n

\* A frame enters the backlog, intact or as a corrupt slot.
FwReceive ==
  /\ frames < MaxFrames /\ backlog < Slots
  /\ gen = FW_LEGACY => rd + backlog < Slots
  /\ frames' = frames + 1
  /\ fserial' = NextSerial(fserial)
  /\ \E size \in {FRAME, RUNT} :
       buf' = [buf EXCEPT ![wr] = [size |-> size, serial |-> fserial',
                                   id |-> frames', gap |-> gap]]
  /\ wr' = (wr + 1) % Slots
  /\ backlog' = backlog + 1
  /\ gap' = 0
  /\ UNCHANGED <<gen, z2, rd, drops, restarts, irqEn, sigF, pc, again, hdr,
                 word, rxVars, drainVars, hid, fresh, steady, delivered, counted>>

\* A frame the card took but could not queue: only the serial advances.
FwDrop ==
  /\ drops < MaxDrops
  /\ drops' = drops + 1
  /\ fserial' = NextSerial(fserial)
  /\ gap' = gap + 1
  /\ UNCHANGED <<gen, z2, buf, rd, wr, backlog, frames, restarts, irqEn, sigF,
                 pc, again, hdr, word, rxVars, drainVars, hid, fresh, steady,
                 delivered, counted>>

\* An RX DMA restart (MAC update, TX-timeout recovery) empties the backlog
\* and starts the serials over.
FwRestart ==
  /\ gen # FW_LEGACY /\ restarts < MaxRestarts
  /\ restarts' = restarts + 1
  /\ buf' = [s \in 0..(Slots - 1) |-> EmptySlot]
  /\ rd' = 0 /\ wr' = 0 /\ backlog' = 0 /\ fserial' = 0 /\ gap' = 0
  /\ fresh' = FALSE /\ steady' = FALSE
  /\ UNCHANGED <<gen, z2, frames, drops, irqEn, sigF, pc, again, hdr, word,
                 rxVars, drainVars, hid, delivered, counted>>

\* The write to RX accept: what the card does with an acked serial.
FwAck(serial) ==
  IF \/ backlog = 0
     \/ gen = FW_28 /\ (serial = 0 \/ (serial # 1 /\ serial # buf[rd].serial))
  THEN UNCHANGED <<buf, rd, wr, backlog>>
  ELSE /\ backlog' = backlog - 1
       /\ IF gen = FW_LEGACY
          THEN /\ UNCHANGED buf
               /\ IF backlog' = 0 THEN rd' = 0 /\ wr' = 0
                                  ELSE rd' = rd + 1 /\ UNCHANGED wr
          ELSE LET next == (rd + 1) % Slots
               IN  /\ rd' = next /\ UNCHANGED wr
                   /\ buf' = [s \in DOMAIN buf |->
                                IF s = rd \/ (backlog' = 0 /\ s = next)
                                THEN EmptySlot ELSE buf[s]]

\* Bit 0 of the status register: the card asks for service while frames wait.
IrqPending == irqEn /\ backlog > 0

-----------------------------------------------------------------------------
(* The interrupt server.                                                   *)

\* dev_isr masks the ethernet interrupt and wakes the framer.
dev_isr ==
  /\ IrqPending
  /\ irqEn' = FALSE
  /\ sigF' = TRUE
  /\ UNCHANGED <<fwVars, pc, again, hdr, word, rxVars, drainVars, hid, fresh,
                 steady, delivered, counted>>

-----------------------------------------------------------------------------
(* The framer.                                                             *)

ready_valid == gen >= FW_21
SerialFirstAlways == z2
zznet_rx_serial_first == z2 /\ gen >= FW_28

\* A header read is over: the first one, or the re-read.
HeaderRead(h) ==
  /\ hdr' = IF again THEN hdr ELSE h
  /\ pc' = IF again THEN (IF h = hdr THEN "classify" ELSE "rearm")
                    ELSE "decide"
  /\ again' = FALSE

\* What the history variables note when the serial of a slot is read.
NoteSerial == hid' = buf[rd].id /\ fresh' = TRUE

\* Wait returned with CTRL_F.
Wake ==
  /\ pc = "sleep" /\ sigF
  /\ sigF' = FALSE
  /\ pc' = "header"
  /\ UNCHANGED <<fwVars, irqEn, again, hdr, word, rxVars, drainVars, hid,
                 fresh, steady, delivered, counted>>

\* zznet_rx_hw_header on Zorro III: one longword.
ReadLong ==
  /\ pc = "header" /\ ~z2
  /\ HeaderRead([size |-> buf[rd].size, serial |-> buf[rd].serial])
  /\ NoteSerial
  /\ UNCHANGED <<fwVars, irqEn, sigF, word, rxVars, drainVars, steady,
                 delivered, counted>>

\* zznet_rx_header_split: the serial, then the size unless the slot is empty.
ReadSerialFirst ==
  /\ pc = "header" /\ zznet_rx_serial_first
  /\ NoteSerial
  /\ IF buf[rd].serial = 0
     THEN HeaderRead([size |-> 0, serial |-> 0]) /\ UNCHANGED word
     ELSE /\ word' = buf[rd].serial /\ pc' = "second"
          /\ UNCHANGED <<hdr, again>>
  /\ UNCHANGED <<fwVars, irqEn, sigF, rxVars, drainVars, steady, delivered,
                 counted>>

\* The longword read of older firmware, split by the bus, size first.
ReadSizeFirst ==
  /\ pc = "header" /\ z2 /\ ~zznet_rx_serial_first
  /\ word' = buf[rd].size /\ pc' = "second"
  /\ UNCHANGED <<fwVars, irqEn, sigF, again, hdr, rxVars, drainVars, hid,
                 fresh, steady, delivered, counted>>

ReadSecondWord ==
  /\ pc = "second"
  /\ IF zznet_rx_serial_first
     THEN /\ HeaderRead([size |-> buf[rd].size, serial |-> word])
          /\ UNCHANGED <<hid, fresh>>
     ELSE /\ HeaderRead([size |-> word, serial |-> buf[rd].serial])
          /\ NoteSerial
  /\ UNCHANGED <<fwVars, irqEn, sigF, word, rxVars, drainVars, steady,
                 delivered, counted>>

\* A repeated serial is taken for the old frame whatever the ready count says.
DecideNoReadyCount ==
  /\ pc = "decide"
  /\ pc' = IF hdr = [size |-> 0, serial |-> 0] \/ hdr.serial = old
           THEN "rearm" ELSE "classify"
  /\ UNCHANGED <<fwVars, irqEn, sigF, again, hdr, word, rxVars, drainVars, hid,
                 fresh, steady, delivered, counted>>

\* Takes an empty slot for a frame and acks it (issue 29).
DecideEmptyAcked ==
  /\ pc = "decide"
  /\ pc' = IF hdr = [size |-> 0, serial |-> 0] THEN "ack"
           ELSE IF hdr.serial # old THEN "classify"
           ELSE IF hdr.serial = 0 \/ ~ready_valid THEN "rearm"
           ELSE "status"
  /\ UNCHANGED <<fwVars, irqEn, sigF, again, hdr, word, rxVars, drainVars, hid,
                 fresh, steady, delivered, counted>>

\* zznet_rx_next up to the ready count: an empty slot and a serial that can
\* only be the old one wait; a repeated serial needs the ready count.
Decide ==
  /\ pc = "decide"
  /\ pc' = IF hdr = [size |-> 0, serial |-> 0] THEN "rearm"
           ELSE IF hdr.serial # old THEN "classify"
           ELSE IF hdr.serial = 0 \/ ~ready_valid THEN "rearm"
           ELSE "status"
  /\ UNCHANGED <<fwVars, irqEn, sigF, again, hdr, word, rxVars, drainVars, hid,
                 fresh, steady, delivered, counted>>

\* ETH_RX_STATUS: no frame is waiting, or read the header again.
ReadStatus ==
  /\ pc = "status"
  /\ IF backlog = 0 THEN pc' = "rearm" /\ UNCHANGED again
                    ELSE pc' = "header" /\ again' = TRUE
  /\ UNCHANGED <<fwVars, irqEn, sigF, hdr, word, rxVars, drainVars, hid, fresh,
                 steady, delivered, counted>>

\* Counts the two serials the card skips at its wrap as lost frames.
OverrunsRaw(serial) ==
  LET delta == (serial + SERIALS - old) % SERIALS
  IN  IF ~base THEN [lost |-> 0, bad |-> 0]
      ELSE IF delta > 1 /\ delta <= 128 THEN [lost |-> delta - 1, bad |-> 0]
      ELSE [lost |-> 0, bad |-> IF delta > 128 THEN 1 ELSE 0]

\* The frames a serial says were missed: the step less one, and less the two
\* serials skipped when it wrapped.
Overruns(serial) ==
  LET delta == (serial + SERIALS - old) % SERIALS
      d     == IF serial < old THEN (delta + SERIALS - 2) % SERIALS ELSE delta
  IN  IF ~base THEN [lost |-> 0, bad |-> 0]
      ELSE IF d > 1 /\ d <= 128 THEN [lost |-> d - 1, bad |-> 0]
      ELSE [lost |-> 0, bad |-> IF d > 128 THEN 1 ELSE 0]

\* zznet_rx_drain_frame and the SetTaskPri after it
DrainFrame ==
  LET n == left - 1
  IN  IF n # 0 THEN left' = n /\ UNCHANGED <<lowered, pri>>
      ELSE /\ left' = Budget /\ lowered' = ~lowered
           /\ pri' = IF lowered' THEN "yield" ELSE "framer"

\* The rest of zznet_rx_next: a new frame or a bad one.
Classify ==
  /\ pc = "classify"
  /\ pc' = IF hdr.size = FRAME THEN "copy" ELSE "ack"
  /\ counted' = IF hdr.size = FRAME /\ base /\ steady
                THEN [lost |-> Overruns(hdr.serial).lost,
                      bad |-> Overruns(hdr.serial).bad, of |-> hid]
                ELSE [lost |-> 0, bad |-> 0, of |-> 0]
  /\ old' = hdr.serial /\ base' = TRUE
  /\ steady' = fresh
  /\ DrainFrame
  /\ UNCHANGED <<fwVars, irqEn, sigF, again, hdr, word, hid, fresh, delivered>>

\* The Ethernet header and the payload are read from the window; the reader,
\* if one matches, is replied to (NetDevice).
Copy ==
  /\ pc = "copy"
  /\ delivered' = [delivered EXCEPT ![buf[rd].id] = @ + 1]
  /\ pc' = "ack"
  /\ UNCHANGED <<fwVars, irqEn, sigF, again, hdr, word, rxVars, drainVars, hid,
                 fresh, steady, counted>>

\* Acks with the size word of the header.
AckSize ==
  /\ pc = "ack"
  /\ FwAck(hdr.size)
  /\ pc' = "header"
  /\ UNCHANGED <<gen, z2, fserial, gap, frames, drops, restarts, irqEn, sigF,
                 again, hdr, word, rxVars, drainVars, hid, fresh, steady,
                 delivered, counted>>

\* The write of the serial to RX accept, then straight to the next header.
Ack ==
  /\ pc = "ack"
  /\ FwAck(hdr.serial)
  /\ pc' = "header"
  /\ UNCHANGED <<gen, z2, fserial, gap, frames, drops, restarts, irqEn, sigF,
                 again, hdr, word, rxVars, drainVars, hid, fresh, steady,
                 delivered, counted>>

\* Sleeps with the interrupt still masked.
RearmForgotten ==
  /\ pc = "rearm"
  /\ left' = Budget /\ lowered' = FALSE
  /\ pri' = IF lowered THEN "framer" ELSE pri
  /\ pc' = "sleep"
  /\ UNCHANGED <<fwVars, irqEn, sigF, again, hdr, word, rxVars, hid, fresh,
                 steady, delivered, counted>>

\* ZZNET_RX_WAIT: zznet_rx_drain_reset, enable the interrupt, then Wait.
Rearm ==
  /\ pc = "rearm"
  /\ left' = Budget /\ lowered' = FALSE
  /\ pri' = IF lowered THEN "framer" ELSE pri
  /\ irqEn' = TRUE
  /\ pc' = "sleep"
  /\ UNCHANGED <<fwVars, sigF, again, hdr, word, rxVars, hid, fresh, steady,
                 delivered, counted>>

-----------------------------------------------------------------------------
\* DevOpen and the start of frame_proc: zznet_rx_reset, the interrupt enabled.
Init ==
  /\ \E s \in Starts : gen = s[1] /\ z2 = s[2] /\ fserial = s[3]
  /\ buf = [s \in 0..(Slots - 1) |-> EmptySlot]
  /\ rd = 0 /\ wr = 0 /\ backlog = 0 /\ gap = 0
  /\ frames = 0 /\ drops = 0 /\ restarts = 0
  /\ irqEn = TRUE /\ sigF = FALSE
  /\ pc = "sleep" /\ again = FALSE /\ hdr = [size |-> 0, serial |-> 0] /\ word = 0
  /\ old = 0 /\ base = FALSE
  /\ left = Budget /\ lowered = FALSE /\ pri = "framer"
  /\ hid = 0 /\ fresh = TRUE /\ steady = FALSE
  /\ delivered = [i \in 0..MaxFrames |-> 0]
  /\ counted = [lost |-> 0, bad |-> 0, of |-> 0]

FramerStep ==
  \/ Wake \/ ReadLong \/ ReadSerialFirst \/ ReadSizeFirst \/ ReadSecondWord
  \/ Decide \/ ReadStatus \/ Classify \/ Copy \/ Ack \/ Rearm

Next ==
  \/ FwReceive \/ FwDrop \/ FwRestart
  \/ dev_isr
  \/ FramerStep

Spec == Init /\ [][Next]_vars

\* Interrupts are served and the framer, at priority 10 or sharing time at
\* 0, is scheduled; nothing is assumed of the network.
Fairness == WF_vars(dev_isr) /\ WF_vars(FramerStep)

FairSpec == Spec /\ Fairness

-----------------------------------------------------------------------------
Serial == 0..(SERIALS - 1)
SlotType == [size : {0, FRAME, RUNT}, serial : Serial, id : 0..frames, gap : 0..drops]
HeaderType == [size : Serial, serial : Serial]

CardTypeOK ==
  /\ gen \in {FW_LEGACY, FW_21, FW_28} /\ z2 \in BOOLEAN
  /\ buf \in [0..(Slots - 1) -> SlotType]
  /\ rd \in 0..(Slots - 1) /\ wr \in 0..(Slots - 1) /\ backlog \in 0..Slots
  /\ fserial \in Serial /\ gap \in 0..drops
  /\ frames \in 0..MaxFrames /\ drops \in 0..MaxDrops /\ restarts \in 0..MaxRestarts

FramerTypeOK ==
  /\ pc \in {"sleep", "header", "second", "decide", "status", "classify",
             "copy", "ack", "rearm"}
  /\ irqEn \in BOOLEAN /\ sigF \in BOOLEAN /\ again \in BOOLEAN
  /\ hdr \in HeaderType /\ word \in Serial /\ old \in Serial /\ base \in BOOLEAN
  /\ left \in 1..Budget /\ lowered \in BOOLEAN /\ pri \in {"framer", "yield"}

HistoryTypeOK ==
  /\ hid \in 0..frames /\ fresh \in BOOLEAN /\ steady \in BOOLEAN
  /\ delivered \in [0..MaxFrames -> Nat]
  /\ counted \in [lost : Nat, bad : {0, 1}, of : 0..frames]

\* The card, the interrupt register, the framer and the history have their types;
\* neither the backlog nor the drain budget leaves its bounds.
TypeOK == CardTypeOK /\ FramerTypeOK /\ HistoryTypeOK

\* The torn header of a split read, size first, is a documented race of
\* firmware before 2.8; a stale slot can be acked on firmware before 2.1.
SoundRead == gen >= FW_28 \/ (gen >= FW_21 /\ ~z2)

\* An ack consumes the frame whose header was read.  The one exception is
\* the "Known limit" of rx.h: a restart while the frame was being copied,
\* and on firmware that matches serials the new frame has the same serial.
AckTakesFrameRead ==
  [][SoundRead /\ pc = "ack" /\ pc' = "header" /\ backlog' < backlog =>
       \/ buf[rd].id = hid
       \/ ~fresh /\ (gen >= FW_28 => buf[rd].serial = hdr.serial)]_vars

\* No frame reaches the readers twice unless the card was restarted.
DeliveredOnce ==
  SoundRead /\ restarts = 0 => \A i \in 1..MaxFrames : delivered[i] <= 1

\* Overruns counts exactly the serials the card skipped before the frame,
\* across empty slots and the 16-bit wrap, as long as no restart reset them and
\* the gap is within the 128 that zznet_rx_next takes for lost frames.
\* (It discounts the serials 0 and 1 on every wrap, which is right for the
\* firmware that skips them.)
GapExact ==
  \A s \in DOMAIN buf :
    counted.of # 0 /\ gen >= FW_28 /\ buf[s].id = counted.of /\ buf[s].gap < 128 =>
      counted.bad = 0 /\ counted.lost = buf[s].gap

\* No lost wakeup and no frame left unacked: as long as the traffic pauses,
\* the framer empties the backlog.
BacklogDrains == backlog > 0 ~> backlog = 0
=============================================================================
