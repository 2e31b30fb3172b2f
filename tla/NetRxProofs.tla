----------------------------- MODULE NetRxProofs -----------------------------
(***************************************************************************)
(* The receive path of ZZ9000Net.device acks the frames it read, delivers  *)
(* each once and counts overruns exactly, for any backlog, any number of   *)
(* frames, drops and restarts, and any serial at open.                     *)
(***************************************************************************)
EXTENDS NetRx, TLAPS

-----------------------------------------------------------------------------
(* The inductive invariant.                                                *)

\* How far behind the head of the backlog slot s is.
Off(s) == IF s >= rd THEN s - rd ELSE s + Slots - rd

InUse(s) == Off(s) < backlog

\* The frames that wait are in the slots from rd on, each with an id of its own;
\* the other slots are clear.  Firmware 2.8 hands out neither 0 nor 1.
Ring ==
  /\ wr = IF rd + backlog < Slots THEN rd + backlog ELSE rd + backlog - Slots
  /\ \A s \in 0..(Slots - 1) :
       IF InUse(s)
       THEN buf[s].size # 0 /\ buf[s].id # 0 /\ (gen = FW_28 => buf[s].serial > 1)
       ELSE buf[s] = EmptySlot
  /\ \A s, t \in 0..(Slots - 1) :
       InUse(s) /\ InUse(t) /\ buf[s].id = buf[t].id => s = t

Empty == [size |-> 0, serial |-> 0]

\* The head of the backlog is the frame whose serial was read.
AtHead == backlog > 0 /\ hid = buf[rd].id

\* What the framer knows of the head, unless the card was restarted since it
\* read the serial.
Header ==
  /\ pc \in {"status", "classify", "copy", "ack"} \/ again => hdr # Empty
  /\ pc \in {"decide", "status", "classify", "copy", "ack"} /\ hdr # Empty /\ fresh =>
       AtHead /\ hdr = [size |-> buf[rd].size, serial |-> buf[rd].serial]
  /\ pc = "second" => /\ z2 /\ gen = FW_28 /\ word > 1
                      /\ fresh => AtHead /\ word = buf[rd].serial
  /\ gen = FW_28 => hdr.serial # 1
  /\ steady => fresh

\* The serial n frames after a, on firmware that skips 0 and 1.
Adv(a, n) == IF a + n < SERIALS THEN a + n ELSE a + n + 2 - SERIALS

Follows(a, b, g) == g < 128 => b = Adv(a, g + 1)
Reached(a) == gap < 128 => fserial = Adv(a, gap)

\* The gap noted with a frame is what its serial says; the last serial the framer
\* saw continues the sequence, unless the card was restarted since.
Chain ==
  gen = FW_28 =>
    /\ \A s, t \in 0..(Slots - 1) :
         InUse(t) /\ Off(t) = Off(s) + 1 =>
           Follows(buf[s].serial, buf[t].serial, buf[t].gap)
    /\ \A s \in 0..(Slots - 1) : Off(s) + 1 = backlog => Reached(buf[s].serial)
    /\ base /\ steady =>
         /\ old > 1
         /\ IF pc \in {"copy", "ack"} THEN old = hdr.serial
            ELSE IF backlog = 0 THEN Reached(old)
            ELSE Follows(old, buf[rd].serial, buf[rd].gap)

\* Without a restart no frame was delivered twice, and none that still waits was
\* delivered, but the head that is about to be acked.
Once ==
  restarts = 0 =>
    /\ fresh
    /\ \A i \in 0..MaxFrames : delivered[i] <= 1 /\ (i > frames => delivered[i] = 0)
    /\ \A s \in 0..(Slots - 1) :
         InUse(s) => delivered[buf[s].id] = 0 \/ (pc = "ack" /\ s = rd)

\* The first firmware never wraps within a backlog.
Linear == gen = FW_LEGACY => rd + backlog <= Slots

Sound == Ring /\ Header /\ Chain /\ Once /\ GapExact

IInv == TypeOK /\ Linear /\ (SoundRead => Sound)

-----------------------------------------------------------------------------
(* Arithmetic of slots and serials.                                        *)

\* The next slot of the ring.
LEMMA NextSlot ==
  ASSUME NEW x \in 0..(Slots - 1)
  PROVE  (x + 1) % Slots = IF x + 1 < Slots THEN x + 1 ELSE 0
<1>1. Slots \in Nat \ {0}
  BY SlotsAssumption
<1>2. CASE x + 1 < Slots
  <2>1. \A n \in Nat, m \in Nat \ {0} : n < m => n % m = n
    OBVIOUS
  <2> QED  BY <1>1, <1>2, <2>1
<1>3. CASE x + 1 = Slots
  <2>1. \A m \in Nat \ {0} : m % m = 0
    OBVIOUS
  <2> QED  BY <1>1, <1>3, <2>1
<1> QED  BY <1>1, <1>2, <1>3

\* Serials are uint16_t; what the proofs need of their number.
LEMMA SerialsNat == SERIALS \in Nat /\ SERIALS > 1000
BY DEF SERIALS

\* One more, one less another, and less the two that are skipped, modulo 2^16.
LEMMA Plus1 ==
  \A s \in Nat : s < SERIALS => (s + 1) % SERIALS = IF s + 1 = SERIALS THEN 0 ELSE s + 1
BY DEF SERIALS

\* The difference of two serials, across the wrap.
LEMMA Minus ==
  \A a, b \in Nat : a < SERIALS /\ b < SERIALS =>
    (a + SERIALS - b) % SERIALS = IF a >= b THEN a - b ELSE a + SERIALS - b
BY DEF SERIALS

\* Two serials back, across the wrap.
LEMMA Minus2 ==
  \A a \in Nat : a < SERIALS =>
    (a + SERIALS - 2) % SERIALS = IF a >= 2 THEN a - 2 ELSE a + SERIALS - 2
BY DEF SERIALS

\* The card's next serial.
LEMMA NextSerialType ==
  ASSUME NEW s \in Serial
  PROVE  /\ NextSerial(s) \in Serial
         /\ gen = FW_28 => NextSerial(s) > 1
         /\ gen = FW_28 /\ s > 0 => NextSerial(s) = IF s + 1 = SERIALS THEN 2 ELSE s + 1
BY Plus1, SerialsNat DEF NextSerial, Serial

-----------------------------------------------------------------------------
(* Types.                                                                  *)

\* The fields of the slot at the head, and of a header.
LEMMA SlotRead ==
  ASSUME TypeOK
  PROVE  /\ buf[rd].size \in Serial /\ buf[rd].serial \in Serial
         /\ buf[rd].id \in 0..frames /\ hdr.size \in Serial /\ hdr.serial \in Serial
<1>1. buf[rd] \in SlotType /\ hdr \in HeaderType
  BY DEF TypeOK, CardTypeOK, FramerTypeOK
<1>2. buf[rd].size \in {0, FRAME, RUNT} /\ buf[rd].serial \in Serial /\ buf[rd].id \in 0..frames
  BY <1>1 DEF SlotType
<1>3. hdr.size \in Serial /\ hdr.serial \in Serial
  BY <1>1 DEF HeaderType
<1> QED  BY <1>2, <1>3, SerialsNat DEF FRAME, RUNT, Serial

\* The empty slot is a slot.
LEMMA EmptyIsSlot == frames \in Nat /\ drops \in Nat => EmptySlot \in SlotType
BY SerialsNat DEF EmptySlot, SlotType, Serial

\* Slots keep their type when more frames and drops are counted.
LEMMA SlotTypeGrows ==
  ASSUME frames \in Nat, drops \in Nat, frames' \in Nat, drops' \in Nat,
         frames <= frames', drops <= drops', NEW r \in SlotType
  PROVE  r \in SlotType'
BY DEF SlotType, Serial

\* A header read from the window is a header.
LEMMA HeaderReadType ==
  ASSUME hdr \in HeaderType, NEW h \in HeaderType, HeaderRead(h)
  PROVE  hdr' \in HeaderType /\ pc' \in {"decide", "classify", "rearm"} /\ again' = FALSE
BY DEF HeaderRead

\* What the card does to its backlog on an ack.
LEMMA AckType ==
  ASSUME CardTypeOK, Linear, NEW n, FwAck(n)
  PROVE  /\ buf' \in [0..(Slots - 1) -> SlotType]
         /\ rd' \in 0..(Slots - 1) /\ wr' \in 0..(Slots - 1) /\ backlog' \in 0..Slots
         /\ gen = FW_LEGACY => rd' + backlog' <= Slots
<1>1. buf \in [0..(Slots - 1) -> SlotType] /\ EmptySlot \in SlotType
  BY EmptyIsSlot, BoundsAssumption DEF CardTypeOK
<1>2. Slots \in Nat \ {0} /\ rd \in 0..(Slots - 1) /\ wr \in 0..(Slots - 1) /\ backlog \in 0..Slots
  BY SlotsAssumption DEF CardTypeOK
<1>3. CASE UNCHANGED <<buf, rd, wr, backlog>>
  BY <1>1, <1>2, <1>3 DEF Linear
<1>4. CASE backlog # 0 /\ gen = FW_LEGACY /\ ~UNCHANGED <<buf, rd, wr, backlog>>
  BY <1>1, <1>2, <1>4 DEF FwAck, Linear, FW_LEGACY, FW_28
<1>5. CASE backlog # 0 /\ gen # FW_LEGACY /\ ~UNCHANGED <<buf, rd, wr, backlog>>
  <2>1. PICK next : next = (rd + 1) % Slots
    OBVIOUS
  <2>2. /\ backlog' = backlog - 1 /\ rd' = next /\ wr' = wr
        /\ buf' = [s \in DOMAIN buf |-> IF s = rd \/ (backlog' = 0 /\ s = next)
                                        THEN EmptySlot ELSE buf[s]]
    BY <1>5, <2>1 DEF FwAck
  <2>3. next \in 0..(Slots - 1)
    BY <1>2, <2>1, NextSlot
  <2> QED  BY <1>1, <1>2, <1>5, <2>2, <2>3
<1> QED  BY <1>3, <1>4, <1>5 DEF FwAck

\* Types are kept by the card's own steps.
LEMMA CardTypes ==
  ASSUME TypeOK, Linear, FwReceive \/ FwDrop \/ FwRestart
  PROVE  TypeOK' /\ Linear'
<1>1. frames \in Nat /\ drops \in Nat /\ Slots \in Nat \ {0}
  BY BoundsAssumption, SlotsAssumption DEF TypeOK, CardTypeOK
<1>2. FramerTypeOK'
  BY DEF FwReceive, FwDrop, FwRestart, TypeOK, FramerTypeOK, rxVars, drainVars, HeaderType, Serial
<1>3. CASE FwReceive
  <2>1. frames' = frames + 1 /\ drops' = drops /\ gap' = 0 /\ backlog' = backlog + 1
    BY <1>3 DEF FwReceive
  <2>2. frames' \in 0..MaxFrames /\ gap' \in 0..drops' /\ backlog' \in 0..Slots
    BY <1>1, <1>3, <2>1, BoundsAssumption DEF FwReceive, TypeOK, CardTypeOK
  <2>3. fserial' \in Serial
    BY <1>3, NextSerialType DEF FwReceive, TypeOK, CardTypeOK
  <2>4. wr' \in 0..(Slots - 1)
    BY <1>1, <1>3, NextSlot DEF FwReceive, TypeOK, CardTypeOK
  <2>5. PICK size \in {FRAME, RUNT} :
          buf' = [buf EXCEPT ![wr] = [size |-> size, serial |-> fserial', id |-> frames',
                                      gap |-> gap]]
    BY <1>3 DEF FwReceive
  <2>6. PICK r : r = [size |-> size, serial |-> fserial', id |-> frames', gap |-> gap]
    OBVIOUS
  <2>7. r \in SlotType'
    <3>1. size \in {0, FRAME, RUNT} /\ frames' \in 0..frames' /\ gap \in 0..drops'
      BY <1>1, <2>1 DEF TypeOK, CardTypeOK
    <3> QED  BY <2>3, <2>6, <3>1 DEF SlotType, Serial
  <2>8. \A s \in 0..(Slots - 1) : buf[s] \in SlotType'
    <3>1. \A s \in 0..(Slots - 1) : buf[s] \in SlotType
      BY DEF TypeOK, CardTypeOK
    <3>2. frames' \in Nat /\ drops' \in Nat /\ frames <= frames' /\ drops <= drops'
      BY <1>1, <2>1
    <3> QED  BY <1>1, <3>1, <3>2, SlotTypeGrows
  <2>9. buf' \in [0..(Slots - 1) -> SlotType']
    BY <2>5, <2>6, <2>7, <2>8 DEF TypeOK, CardTypeOK
  <2>10. CardTypeOK'
    BY <1>3, <2>1, <2>2, <2>3, <2>4, <2>9 DEF FwReceive, TypeOK, CardTypeOK, Serial
  <2>11. Linear'
    BY <1>1, <1>3, <2>1 DEF FwReceive, Linear, TypeOK, CardTypeOK
  <2>12. HistoryTypeOK'
    BY <1>1, <1>3, <2>1 DEF FwReceive, TypeOK, HistoryTypeOK
  <2> QED  BY <1>2, <2>10, <2>11, <2>12 DEF TypeOK
<1>4. CASE FwDrop
  <2>1. drops' = drops + 1 /\ frames' = frames
    BY <1>4 DEF FwDrop
  <2>2. drops' \in 0..MaxDrops /\ gap' \in 0..drops'
    BY <1>1, <1>4, BoundsAssumption DEF FwDrop, TypeOK, CardTypeOK
  <2>3. fserial' \in Serial
    BY <1>4, NextSerialType DEF FwDrop, TypeOK, CardTypeOK
  <2>4. \A s \in 0..(Slots - 1) : buf[s] \in SlotType'
    <3>1. \A s \in 0..(Slots - 1) : buf[s] \in SlotType
      BY DEF TypeOK, CardTypeOK
    <3>2. frames' \in Nat /\ drops' \in Nat /\ frames <= frames' /\ drops <= drops'
      BY <1>1, <2>1
    <3> QED  BY <1>1, <3>1, <3>2, SlotTypeGrows
  <2>5. buf' \in [0..(Slots - 1) -> SlotType']
    BY <1>4, <2>4 DEF FwDrop, TypeOK, CardTypeOK
  <2>6. CardTypeOK'
    BY <1>4, <2>1, <2>2, <2>3, <2>5 DEF FwDrop, TypeOK, CardTypeOK, Serial
  <2> QED  BY <1>2, <1>4, <2>6 DEF FwDrop, TypeOK, HistoryTypeOK, Linear
<1>5. CASE FwRestart
  <2>1. restarts' \in 0..MaxRestarts
    BY <1>5, BoundsAssumption DEF FwRestart, TypeOK, CardTypeOK
  <2>2. buf' \in [0..(Slots - 1) -> SlotType]
    BY <1>1, <1>5, EmptyIsSlot DEF FwRestart
  <2>3. SlotType' = SlotType
    BY <1>5 DEF FwRestart, SlotType, Serial
  <2>4. /\ rd' \in 0..(Slots - 1) /\ wr' \in 0..(Slots - 1) /\ backlog' \in 0..Slots
        /\ fserial' \in Serial /\ gap' \in 0..drops
    BY <1>1, <1>5, SerialsNat DEF FwRestart, Serial
  <2>5. CardTypeOK' /\ Linear'
    BY <1>5, <2>1, <2>2, <2>3, <2>4 DEF FwRestart, TypeOK, CardTypeOK, Serial, Linear
  <2>6. HistoryTypeOK'
    BY <1>5 DEF FwRestart, TypeOK, HistoryTypeOK
  <2> QED  BY <1>2, <2>5, <2>6 DEF TypeOK
<1> QED  BY <1>3, <1>4, <1>5

\* A step of the framer or the interrupt that leaves the card alone.
LEMMA CardTypesSame ==
  ASSUME TypeOK, Linear, UNCHANGED fwVars
  PROVE  CardTypeOK' /\ Linear' /\ frames' = frames
BY DEF fwVars, TypeOK, CardTypeOK, Linear, SlotType, Serial

\* Types are kept by the reads of a header.
LEMMA ReadTypes ==
  ASSUME TypeOK, Linear, ReadLong \/ ReadSerialFirst \/ ReadSizeFirst \/ ReadSecondWord
  PROVE  TypeOK' /\ Linear'
<1>1. CardTypeOK' /\ Linear' /\ frames' = frames
  BY CardTypesSame DEF ReadLong, ReadSerialFirst, ReadSizeFirst, ReadSecondWord
<1>2. HistoryTypeOK'
  <2>1. hid' \in 0..frames /\ fresh' \in BOOLEAN
    BY SlotRead DEF ReadLong, ReadSerialFirst, ReadSizeFirst, ReadSecondWord, NoteSerial, TypeOK,
                    HistoryTypeOK
  <2> QED  BY <1>1, <2>1 DEF ReadLong, ReadSerialFirst, ReadSizeFirst, ReadSecondWord, TypeOK,
                             HistoryTypeOK
<1>3. hdr' \in HeaderType /\ again' \in BOOLEAN /\ word' \in Serial
      /\ pc' \in {"second", "decide", "classify", "rearm"}
  <2>1. hdr \in HeaderType /\ again \in BOOLEAN /\ word \in Serial
    BY DEF TypeOK, FramerTypeOK
  <2>2. ASSUME NEW h \in HeaderType, HeaderRead(h), word' = word
        PROVE  hdr' \in HeaderType /\ again' \in BOOLEAN /\ word' \in Serial
               /\ pc' \in {"second", "decide", "classify", "rearm"}
    BY <2>1, <2>2, HeaderReadType
  <2>3. CASE ReadLong
    <3>1. PICK h : h = [size |-> buf[rd].size, serial |-> buf[rd].serial]
      OBVIOUS
    <3>2. h \in HeaderType
      BY <3>1, SlotRead DEF HeaderType
    <3> QED  BY <2>2, <2>3, <3>1, <3>2 DEF ReadLong
  <2>4. CASE ReadSecondWord
    <3>1. PICK h : h = IF zznet_rx_serial_first THEN [size |-> buf[rd].size, serial |-> word]
                       ELSE [size |-> word, serial |-> buf[rd].serial]
      OBVIOUS
    <3>2. h \in HeaderType
      BY <2>1, <3>1, SlotRead DEF HeaderType
    <3>3. HeaderRead(h)
      BY <2>4, <3>1 DEF ReadSecondWord
    <3> QED  BY <2>2, <2>4, <3>2, <3>3 DEF ReadSecondWord
  <2>5. CASE ReadSerialFirst /\ buf[rd].serial = 0
    <3>1. PICK h : h = [size |-> 0, serial |-> 0]
      OBVIOUS
    <3>2. h \in HeaderType
      BY <3>1, SerialsNat DEF HeaderType, Serial
    <3> QED  BY <2>2, <2>5, <3>1, <3>2 DEF ReadSerialFirst
  <2>6. CASE (ReadSerialFirst /\ buf[rd].serial # 0) \/ ReadSizeFirst
    BY <2>1, <2>6, SlotRead DEF ReadSerialFirst, ReadSizeFirst
  <2> QED  BY <2>3, <2>4, <2>5, <2>6
<1>4. UNCHANGED <<irqEn, sigF, rxVars, drainVars>>
  BY DEF ReadLong, ReadSerialFirst, ReadSizeFirst, ReadSecondWord
<1>5. FramerTypeOK'
  BY <1>3, <1>4 DEF TypeOK, FramerTypeOK, rxVars, drainVars, Serial, HeaderType
<1> QED  BY <1>1, <1>2, <1>5 DEF TypeOK

\* Types are kept by the interrupt server and the framer's other steps.
LEMMA FramerTypes ==
  ASSUME TypeOK, Linear,
         \/ dev_isr \/ Wake \/ Decide \/ ReadStatus \/ Classify \/ Copy \/ Ack \/ Rearm
         \/ UNCHANGED vars
  PROVE  TypeOK' /\ Linear'
<1>1. CASE UNCHANGED vars
  BY <1>1 DEF vars, TypeOK, CardTypeOK, FramerTypeOK, HistoryTypeOK, Linear, SlotType, HeaderType,
              Serial
<1>2. CASE dev_isr \/ Wake \/ Decide \/ ReadStatus
  <2>1. CardTypeOK' /\ Linear' /\ frames' = frames
    BY <1>2, CardTypesSame DEF dev_isr, Wake, Decide, ReadStatus
  <2>2. irqEn' \in BOOLEAN /\ sigF' \in BOOLEAN /\ again' \in BOOLEAN
    BY <1>2 DEF dev_isr, Wake, Decide, ReadStatus, TypeOK, FramerTypeOK
  <2>3. pc' \in {"sleep", "header", "second", "decide", "status", "classify", "copy", "ack",
                 "rearm"}
    BY <1>2 DEF dev_isr, Wake, Decide, ReadStatus, TypeOK, FramerTypeOK
  <2>4. UNCHANGED <<hdr, word, old, base, left, lowered, pri, hid, fresh, steady, delivered, counted>>
    BY <1>2 DEF dev_isr, Wake, Decide, ReadStatus, rxVars, drainVars
  <2> QED  BY <2>1, <2>2, <2>3, <2>4
           DEF TypeOK, FramerTypeOK, HistoryTypeOK, HeaderType, Serial
<1>3. CASE Classify
  <2>1. CardTypeOK' /\ Linear' /\ frames' = frames
    BY <1>3, CardTypesSame DEF Classify
  <2>2. pc' \in {"copy", "ack"} /\ base' = TRUE /\ steady' = fresh
    BY <1>3 DEF Classify
  <2>3. old' \in Serial
    BY <1>3, SlotRead DEF Classify
  <2>4. DrainFrame /\ Budget \in Nat \ {0} /\ left \in 1..Budget
    BY <1>3, BudgetAssumption DEF Classify, TypeOK, FramerTypeOK
  <2>5. left' \in 1..Budget
    BY <2>4 DEF DrainFrame
  <2>6. lowered' \in BOOLEAN /\ pri' \in {"framer", "yield"}
    BY <2>4 DEF DrainFrame, TypeOK, FramerTypeOK
  <2>7. counted' \in [lost : Nat, bad : {0, 1}, of : 0..frames]
    <3>1. hdr.serial \in Serial /\ old \in Serial
      BY SlotRead DEF TypeOK, FramerTypeOK
    <3>2. Overruns(hdr.serial).lost \in Nat /\ Overruns(hdr.serial).bad \in {0, 1}
      BY <3>1, SerialsNat, Minus, Minus2 DEF Overruns, Serial
    <3>3. hid \in 0..frames /\ 0 \in 0..frames
      BY BoundsAssumption DEF TypeOK, CardTypeOK, HistoryTypeOK
    <3> QED  BY <1>3, <3>2, <3>3 DEF Classify
  <2>8. UNCHANGED <<irqEn, sigF, again, hdr, word, hid, fresh, delivered>>
    BY <1>3 DEF Classify
  <2>9. FramerTypeOK'
    BY <2>2, <2>3, <2>5, <2>6, <2>8 DEF TypeOK, FramerTypeOK, HeaderType, Serial
  <2>10. HistoryTypeOK'
    BY <2>1, <2>2, <2>7, <2>8 DEF TypeOK, HistoryTypeOK
  <2> QED  BY <2>1, <2>9, <2>10 DEF TypeOK
<1>4. CASE Copy
  <2>1. CardTypeOK' /\ Linear' /\ frames' = frames
    BY <1>4, CardTypesSame DEF Copy
  <2>2. PICK i \in 0..MaxFrames : i = buf[rd].id
    BY SlotRead, BoundsAssumption DEF TypeOK, CardTypeOK
  <2>3. delivered' = [delivered EXCEPT ![i] = @ + 1]
    BY <1>4, <2>2 DEF Copy
  <2>4. delivered' \in [0..MaxFrames -> Nat]
    BY <2>2, <2>3 DEF TypeOK, HistoryTypeOK
  <2>5. FramerTypeOK'
    BY <1>4 DEF Copy, TypeOK, FramerTypeOK, rxVars, drainVars, HeaderType, Serial
  <2> QED  BY <1>4, <2>1, <2>4, <2>5 DEF Copy, TypeOK, HistoryTypeOK
<1>5. CASE Ack
  <2>1. /\ buf' \in [0..(Slots - 1) -> SlotType]
        /\ rd' \in 0..(Slots - 1) /\ wr' \in 0..(Slots - 1) /\ backlog' \in 0..Slots
        /\ gen = FW_LEGACY => rd' + backlog' <= Slots
    BY <1>5, AckType DEF Ack, TypeOK
  <2>2. SlotType' = SlotType
    BY <1>5 DEF Ack, SlotType, Serial
  <2>3. CardTypeOK' /\ Linear'
    BY <1>5, <2>1, <2>2 DEF Ack, TypeOK, CardTypeOK, Serial, Linear
  <2>4. FramerTypeOK' /\ HistoryTypeOK'
    BY <1>5 DEF Ack, TypeOK, FramerTypeOK, HistoryTypeOK, rxVars, drainVars, HeaderType, Serial
  <2> QED  BY <2>3, <2>4 DEF TypeOK
<1>6. CASE Rearm
  <2>1. CardTypeOK' /\ Linear' /\ frames' = frames
    BY <1>6, CardTypesSame DEF Rearm
  <2>2. left' \in 1..Budget
    BY <1>6, BudgetAssumption DEF Rearm
  <2>3. lowered' \in BOOLEAN /\ pri' \in {"framer", "yield"} /\ irqEn' \in BOOLEAN /\ pc' = "sleep"
    BY <1>6 DEF Rearm, TypeOK, FramerTypeOK
  <2>4. UNCHANGED <<sigF, again, hdr, word, old, base, hid, fresh, steady, delivered, counted>>
    BY <1>6 DEF Rearm, rxVars
  <2> QED  BY <2>1, <2>2, <2>3, <2>4 DEF TypeOK, FramerTypeOK, HistoryTypeOK, HeaderType, Serial
<1> QED  BY <1>1, <1>2, <1>3, <1>4, <1>5, <1>6

-----------------------------------------------------------------------------
(* The framer's steps.                                                     *)

\* The firmware whose headers are never torn or stale.
LEMMA SoundGen ==
  ASSUME TypeOK, SoundRead
  PROVE  gen = FW_28 \/ (gen = FW_21 /\ ~z2)
BY DEF TypeOK, CardTypeOK, SoundRead, FW_LEGACY, FW_21, FW_28

\* A step that only moves the framer, outside the copy and the ack.
LEMMA Elsewhere ==
  ASSUME Sound, UNCHANGED <<fwVars, old, base, steady, delivered, counted>>,
         pc \notin {"copy", "ack"}, pc' \notin {"copy", "ack"}, fresh => fresh'
  PROVE  Ring' /\ Chain' /\ Once' /\ GapExact'
<1>1. Ring' /\ GapExact'
  BY DEF Sound, fwVars, Ring, InUse, Off, GapExact
<1>2. Chain'
  BY DEF Sound, fwVars, Chain, InUse, Off, Follows, Reached, Adv
<1>3. Once'
  BY DEF Sound, fwVars, Once, InUse, Off
<1> QED  BY <1>1, <1>2, <1>3

\* The interrupt server, and a stuttering step.
LEMMA IsrKeeps ==
  ASSUME Sound, dev_isr \/ UNCHANGED vars
  PROVE  Sound'
<1>1. UNCHANGED <<fwVars, pc, again, hdr, word, old, base, hid, fresh, steady, delivered, counted>>
  BY DEF dev_isr, vars, fwVars, rxVars
<1>2. Ring' /\ GapExact'
  BY <1>1 DEF Sound, fwVars, Ring, InUse, Off, GapExact
<1>3. Chain'
  BY <1>1 DEF Sound, fwVars, Chain, InUse, Off, Follows, Reached, Adv
<1>4. Once'
  BY <1>1 DEF Sound, fwVars, Once, InUse, Off
<1>5. Header'
  BY <1>1 DEF Sound, fwVars, Header, AtHead
<1> QED  BY <1>2, <1>3, <1>4, <1>5 DEF Sound

\* Wait returns, the drain ends, and what comes before the header is judged.
LEMMA WakeKeeps ==
  ASSUME TypeOK, Sound, Wake \/ Decide \/ ReadStatus \/ Rearm
  PROVE  Sound'
<1>1. Ring' /\ Chain' /\ Once' /\ GapExact'
  <2>1. UNCHANGED <<fwVars, old, base, steady, delivered, counted, fresh>>
    BY DEF Wake, Decide, ReadStatus, Rearm, rxVars
  <2>2. pc \notin {"copy", "ack"} /\ pc' \notin {"copy", "ack"}
    BY DEF Wake, Decide, ReadStatus, Rearm
  <2> QED  BY <2>1, <2>2, Elsewhere
<1>2. UNCHANGED <<fwVars, hdr, word, hid, fresh, steady>>
  BY DEF Wake, Decide, ReadStatus, Rearm
<1>3. CASE Wake \/ Rearm
  BY <1>1, <1>2, <1>3 DEF Wake, Rearm, Sound, Header, AtHead, fwVars
<1>4. CASE Decide
  <2>1. pc = "decide" /\ again' = again
        /\ pc' = IF hdr = Empty THEN "rearm"
                 ELSE IF hdr.serial # old THEN "classify"
                 ELSE IF hdr.serial = 0 \/ ~ready_valid THEN "rearm"
                 ELSE "status"
    BY <1>4 DEF Decide, Empty
  <2>2. pc' = "rearm" \/ (pc' \in {"classify", "status"} /\ hdr # Empty)
    BY <2>1
  <2> QED  BY <1>1, <1>2, <2>1, <2>2 DEF Sound, Header, AtHead, fwVars
<1>5. CASE ReadStatus
  <2>1. pc = "status" /\ pc' \in {"header", "rearm"}
    BY <1>5 DEF ReadStatus
  <2> QED  BY <1>1, <1>2, <2>1 DEF Sound, Header, AtHead, fwVars
<1> QED  BY <1>1, <1>3, <1>4, <1>5 DEF Sound

\* A slot that is not clear holds the frame at the head.
LEMMA HeadRead ==
  ASSUME TypeOK, Ring, buf[rd].serial # 0 \/ buf[rd].size # 0
  PROVE  /\ backlog > 0 /\ buf[rd].id # 0 /\ buf[rd].size # 0
         /\ gen = FW_28 => buf[rd].serial > 1
<1>1. rd \in 0..(Slots - 1) /\ Slots \in Nat /\ backlog \in Nat
  BY SlotsAssumption DEF TypeOK, CardTypeOK
<1>2. InUse(rd) <=> backlog > 0
  BY <1>1 DEF InUse, Off
<1>3. buf[rd] # EmptySlot
  BY DEF EmptySlot
<1> QED  BY <1>1, <1>2, <1>3 DEF Ring

\* A header was read: the first time it is judged next, the second time it is a
\* frame if it was the same.  In both cases it is the head's, unless the card was
\* restarted between the two words.
LEMMA HeaderKeeps ==
  ASSUME TypeOK, Sound, pc \in {"header", "second"}, NEW h, HeaderRead(h),
         fresh' /\ h # Empty =>
           hid' = buf[rd].id /\ h = [size |-> buf[rd].size, serial |-> buf[rd].serial],
         gen = FW_28 => h.serial # 1, fresh => fresh',
         UNCHANGED <<fwVars, rxVars, steady, delivered, counted>>
  PROVE  Sound'
<1>1. pc' \in {"decide", "classify", "rearm"} /\ again' = FALSE
  BY DEF HeaderRead
<1>2. Ring' /\ Chain' /\ Once' /\ GapExact'
  BY <1>1, Elsewhere DEF rxVars
<1>3. pc' = "classify" => hdr' # Empty
  BY DEF HeaderRead, Sound, Header
<1>4. pc' \in {"decide", "classify"} => hdr' = h
  BY DEF HeaderRead
<1>5. gen = FW_28 => hdr'.serial # 1
  BY DEF HeaderRead, Sound, Header
<1>6. pc' \in {"decide", "classify"} /\ hdr' # Empty /\ fresh' =>
        backlog > 0 /\ hid' = buf[rd].id /\ hdr' = [size |-> buf[rd].size, serial |-> buf[rd].serial]
  <2> SUFFICES ASSUME pc' \in {"decide", "classify"}, hdr' # Empty, fresh'
               PROVE  /\ backlog > 0 /\ hid' = buf[rd].id
                      /\ hdr' = [size |-> buf[rd].size, serial |-> buf[rd].serial]
    OBVIOUS
  <2>1. hid' = buf[rd].id /\ hdr' = [size |-> buf[rd].size, serial |-> buf[rd].serial]
    BY <1>4
  <2>2. buf[rd].serial # 0 \/ buf[rd].size # 0
    BY <2>1 DEF Empty
  <2> QED  BY <2>1, <2>2, HeadRead DEF Sound
<1>7. steady' => fresh'
  BY DEF Sound, Header
<1>8. Header'
  BY <1>1, <1>3, <1>5, <1>6, <1>7 DEF Header, AtHead, fwVars
<1> QED  BY <1>2, <1>8 DEF Sound

\* On sound firmware a serial is never 1, in any slot.
LEMMA SerialNot1 ==
  ASSUME TypeOK, Ring, gen = FW_28
  PROVE  buf[rd].serial # 1
BY HeadRead

\* Every read of a header keeps the invariant.
LEMMA ReadKeeps ==
  ASSUME TypeOK, SoundRead, Sound,
         ReadLong \/ ReadSerialFirst \/ ReadSizeFirst \/ ReadSecondWord
  PROVE  Sound'
<1>1. CASE ReadLong
  <2>1. PICK h : h = [size |-> buf[rd].size, serial |-> buf[rd].serial]
    OBVIOUS
  <2>2. gen = FW_28 => h.serial # 1
    BY <2>1, SerialNot1 DEF Sound
  <2> QED  BY <1>1, <2>1, <2>2, HeaderKeeps DEF ReadLong, NoteSerial
<1>2. CASE ReadSerialFirst /\ buf[rd].serial = 0
  <2>1. HeaderRead(Empty) /\ fresh' = TRUE /\ Empty.serial # 1
    BY <1>2 DEF ReadSerialFirst, NoteSerial, Empty
  <2> QED  BY <1>2, <2>1, HeaderKeeps DEF ReadSerialFirst
<1>3. CASE ReadSerialFirst /\ buf[rd].serial # 0
  <2>1. /\ pc = "header" /\ pc' = "second" /\ word' = buf[rd].serial /\ z2 /\ gen = FW_28
        /\ hid' = buf[rd].id /\ fresh' = TRUE
        /\ UNCHANGED <<fwVars, hdr, again, old, base, steady, delivered, counted>>
    BY <1>3, SoundGen DEF ReadSerialFirst, NoteSerial, zznet_rx_serial_first, rxVars
  <2>2. Ring' /\ Chain' /\ Once' /\ GapExact'
    BY <2>1, Elsewhere
  <2>3. backlog > 0 /\ buf[rd].serial > 1
    BY <1>3, <2>1, HeadRead DEF Sound
  <2>4. Header'
    BY <2>1, <2>3 DEF Sound, Header, AtHead, fwVars
  <2> QED  BY <2>2, <2>4 DEF Sound
<1>4. CASE ReadSizeFirst
  BY <1>4, SoundGen DEF ReadSizeFirst, zznet_rx_serial_first, FW_21, FW_28
<1>5. CASE ReadSecondWord
  <2>1. pc = "second" /\ z2 /\ gen = FW_28 /\ word > 1
        /\ (fresh => AtHead /\ word = buf[rd].serial)
    BY <1>5 DEF ReadSecondWord, Sound, Header
  <2>2. PICK h : h = [size |-> buf[rd].size, serial |-> word]
    OBVIOUS
  <2>3. HeaderRead(h) /\ UNCHANGED <<hid, fresh>>
    BY <1>5, <2>1, <2>2 DEF ReadSecondWord, zznet_rx_serial_first, FW_28
  <2>4. h.serial # 1
    BY <2>1, <2>2
  <2> QED  BY <1>5, <2>1, <2>2, <2>3, <2>4, HeaderKeeps DEF ReadSecondWord, AtHead
<1> QED  BY <1>1, <1>2, <1>3, <1>4, <1>5

\* The serial after a gap that is not too large says how large it is.
LEMMA OverrunsExact ==
  ASSUME base, old \in Serial, old > 1, NEW g \in Nat, g < 128, NEW n \in Serial, n = Adv(old, g + 1)
  PROVE  Overruns(n).lost = g /\ Overruns(n).bad = 0
BY SerialsNat, Minus, Minus2 DEF Overruns, Adv, Serial

\* A frame is taken: its serial becomes the last one seen.
LEMMA ClassifyKeeps ==
  ASSUME TypeOK, SoundRead, Sound, Classify
  PROVE  Sound'
<1>1. /\ pc = "classify" /\ pc' \in {"copy", "ack"} /\ old' = hdr.serial /\ base' = TRUE
      /\ steady' = fresh /\ UNCHANGED <<fwVars, again, hdr, word, hid, fresh, delivered>>
  BY DEF Classify
<1>2. hdr # Empty
      /\ (fresh => AtHead /\ hdr = [size |-> buf[rd].size, serial |-> buf[rd].serial])
  BY <1>1 DEF Sound, Header
<1>3. Ring'
  BY <1>1 DEF Sound, fwVars, Ring, InUse, Off
<1>4. Header'
  BY <1>1, <1>2 DEF Sound, Header, AtHead, fwVars
<1>5. Chain'
  <2>1. ASSUME gen = FW_28, fresh PROVE hdr.serial > 1
    <3>1. buf[rd].serial # 0 \/ buf[rd].size # 0
      BY <1>2, <2>1 DEF Empty
    <3> QED  BY <1>2, <2>1, <3>1, HeadRead DEF Sound
  <2> QED  BY <1>1, <2>1 DEF Sound, Chain, fwVars, InUse, Off, Follows, Reached, Adv
<1>6. Once'
  BY <1>1 DEF Sound, Once, fwVars, InUse, Off
<1>7. GapExact'
  <2> SUFFICES ASSUME NEW s \in 0..(Slots - 1), counted'.of # 0, gen >= FW_28,
                      buf[s].id = counted'.of, buf[s].gap < 128
               PROVE  counted'.bad = 0 /\ counted'.lost = buf[s].gap
    BY <1>1 DEF GapExact, fwVars, TypeOK, CardTypeOK
  <2>1. /\ base /\ steady
        /\ counted' = [lost |-> Overruns(hdr.serial).lost, bad |-> Overruns(hdr.serial).bad,
                       of |-> hid]
    BY DEF Classify
  <2>2. fresh /\ AtHead /\ hdr.serial = buf[rd].serial
    BY <1>2, <2>1 DEF Sound, Header
  <2>3. rd \in 0..(Slots - 1) /\ Slots \in Nat /\ backlog \in Nat
    BY SlotsAssumption DEF TypeOK, CardTypeOK
  <2>4. InUse(rd)
    BY <2>2, <2>3 DEF InUse, Off, AtHead
  <2>5. InUse(s)
    <3>1. EmptySlot.id = 0
      BY DEF EmptySlot
    <3> QED  BY <2>1, <3>1 DEF Sound, Ring
  <2>6. s = rd
    BY <2>1, <2>2, <2>3, <2>4, <2>5 DEF Sound, Ring, AtHead
  <2>7. gen = FW_28
    BY SoundGen DEF FW_21, FW_28
  <2>8. old > 1 /\ Follows(old, buf[rd].serial, buf[rd].gap)
    BY <1>1, <2>1, <2>2, <2>7 DEF Sound, Chain, AtHead
  <2>9. PICK g \in Nat : g = buf[rd].gap
    <3>1. buf[rd] \in SlotType /\ drops \in Nat
      BY BoundsAssumption DEF TypeOK, CardTypeOK
    <3> QED  BY <3>1 DEF SlotType
  <2>10. PICK n \in Serial : n = hdr.serial
    BY SlotRead
  <2>11. g < 128 /\ n = Adv(old, g + 1)
    BY <2>2, <2>6, <2>8, <2>9, <2>10 DEF Follows
  <2>12. old \in Serial
    BY DEF TypeOK, FramerTypeOK
  <2>13. Overruns(n).lost = g /\ Overruns(n).bad = 0
    BY <2>1, <2>8, <2>11, <2>12, OverrunsExact
  <2> QED  BY <2>1, <2>6, <2>9, <2>10, <2>13
<1> QED  BY <1>3, <1>4, <1>5, <1>6, <1>7 DEF Sound

\* What is known before the copy and before the ack, if the card was not restarted.
LEMMA Loaded ==
  ASSUME TypeOK, Sound, pc \in {"copy", "ack"}, fresh
  PROVE  /\ AtHead /\ InUse(rd) /\ hdr.serial = buf[rd].serial /\ buf[rd].id # 0
         /\ gen = FW_28 => hdr.serial > 1
<1>1. AtHead /\ hdr # Empty /\ hdr = [size |-> buf[rd].size, serial |-> buf[rd].serial]
  BY DEF Sound, Header
<1>2. buf[rd].serial # 0 \/ buf[rd].size # 0
  BY <1>1 DEF Empty
<1>3. buf[rd].id # 0 /\ (gen = FW_28 => buf[rd].serial > 1)
  BY <1>2, HeadRead DEF Sound
<1>4. rd \in 0..(Slots - 1) /\ Slots \in Nat /\ backlog \in Nat
  BY SlotsAssumption DEF TypeOK, CardTypeOK
<1>5. InUse(rd)
  BY <1>1, <1>4 DEF AtHead, InUse, Off
<1> QED  BY <1>1, <1>3, <1>5

\* The frame at the head is copied to its reader.
LEMMA CopyKeeps ==
  ASSUME TypeOK, Sound, Copy
  PROVE  Sound'
<1>1. /\ pc = "copy" /\ pc' = "ack"
      /\ UNCHANGED <<fwVars, again, hdr, word, old, base, hid, fresh, steady, counted>>
  BY DEF Copy, rxVars
<1>2. Ring' /\ GapExact'
  BY <1>1 DEF Sound, fwVars, Ring, InUse, Off, GapExact
<1>3. Header'
  BY <1>1 DEF Sound, Header, AtHead, fwVars
<1>4. Chain'
  BY <1>1 DEF Sound, Chain, fwVars, InUse, Off, Follows, Reached, Adv
<1>5. Once'
  <2> SUFFICES ASSUME restarts = 0 PROVE Once'
    BY <1>1 DEF Once, fwVars
  <2>1. fresh
    BY DEF Sound, Once
  <2>2. InUse(rd) /\ buf[rd].id # 0
    BY <1>1, <2>1, Loaded
  <2>3. PICK i \in 0..MaxFrames : i = buf[rd].id /\ i <= frames
    BY SlotRead, BoundsAssumption DEF TypeOK, CardTypeOK
  <2>4. delivered' = [delivered EXCEPT ![i] = @ + 1] /\ delivered \in [0..MaxFrames -> Nat]
    BY <2>3 DEF Copy, TypeOK, HistoryTypeOK
  <2>5. rd \in 0..(Slots - 1)
    BY DEF TypeOK, CardTypeOK
  <2>6. delivered[i] = 0
    BY <1>1, <2>2, <2>3, <2>5 DEF Sound, Once
  <2>7. \A j \in 0..MaxFrames : delivered'[j] = IF j = i THEN 1 ELSE delivered[j]
    BY <2>4, <2>6
  <2>8. \A j \in 0..MaxFrames : delivered'[j] <= 1 /\ (j > frames => delivered'[j] = 0)
    BY <2>3, <2>7, BoundsAssumption DEF Sound, Once, TypeOK, CardTypeOK
  <2>9. ASSUME NEW s \in 0..(Slots - 1), InUse(s), s # rd
        PROVE  delivered'[buf[s].id] = 0
    <3>1. buf[s].id # i
      BY <2>2, <2>3, <2>5, <2>9 DEF Sound, Ring
    <3>2. delivered[buf[s].id] = 0
      BY <1>1, <2>9 DEF Sound, Once
    <3>3. buf[s] \in SlotType
      BY DEF TypeOK, CardTypeOK
    <3>4. buf[s].id \in 0..MaxFrames
      BY <3>3, BoundsAssumption DEF SlotType, TypeOK, CardTypeOK
    <3> QED  BY <2>7, <3>1, <3>2, <3>4
  <2> QED  BY <1>1, <2>1, <2>8, <2>9 DEF Once, fwVars, InUse, Off
<1> QED  BY <1>2, <1>3, <1>4, <1>5 DEF Sound

\* The ack takes the head.
LEMMA AckTakes ==
  ASSUME TypeOK, SoundRead, Sound, Ack, backlog' # backlog
  PROVE  Sound'
<1>1. /\ pc = "ack" /\ pc' = "header" /\ FwAck(hdr.serial)
      /\ UNCHANGED <<gen, z2, fserial, gap, frames, drops, restarts, again, hdr, word, old, base,
                     hid, fresh, steady, delivered, counted>>
  BY DEF Ack, rxVars
<1>2. gen # FW_LEGACY /\ gen' = gen
  BY <1>1, SoundGen DEF FW_LEGACY, FW_21, FW_28
<1>3. PICK n : n = (rd + 1) % Slots
  OBVIOUS
<1>4. /\ backlog # 0 /\ backlog' = backlog - 1 /\ rd' = n /\ wr' = wr
      /\ buf' = [s \in DOMAIN buf |-> IF s = rd \/ (backlog' = 0 /\ s = n)
                                      THEN EmptySlot ELSE buf[s]]
  BY <1>1, <1>2, <1>3 DEF FwAck
<1>5. /\ rd \in 0..(Slots - 1) /\ Slots \in Nat \ {0} /\ backlog \in 0..Slots
      /\ DOMAIN buf = 0..(Slots - 1)
  BY SlotsAssumption DEF TypeOK, CardTypeOK
<1>6. n = (IF rd + 1 < Slots THEN rd + 1 ELSE 0) /\ n \in 0..(Slots - 1)
  BY <1>3, <1>5, NextSlot
<1>8. \A s \in 0..(Slots - 1) : Off(s) \in 0..(Slots - 1) /\ (Off(s) = 0 <=> s = rd)
  BY <1>5 DEF Off
<1>9. \A s \in 0..(Slots - 1) : InUse(s)' <=> InUse(s) /\ s # rd
  BY <1>4, <1>5, <1>6 DEF InUse, Off
<1>10. \A s \in 0..(Slots - 1) : InUse(s) /\ s # rd => buf'[s] = buf[s] /\ backlog' # 0
  BY <1>4, <1>5, <1>8 DEF InUse
<1>11. \A s \in 0..(Slots - 1) : ~(InUse(s) /\ s # rd) => buf'[s] = EmptySlot
  <2>1. \A s \in 0..(Slots - 1) : ~InUse(s) => buf[s] = EmptySlot
    BY DEF Sound, Ring
  <2> QED  BY <1>4, <1>5, <2>1
<1>12. Ring'
  <2>1. wr' = IF rd' + backlog' < Slots THEN rd' + backlog' ELSE rd' + backlog' - Slots
    BY <1>4, <1>5, <1>6 DEF Sound, Ring
  <2>2. \A s \in 0..(Slots - 1) :
          IF InUse(s)' THEN buf'[s].size # 0 /\ buf'[s].id # 0 /\ (gen' = FW_28 => buf'[s].serial > 1)
          ELSE buf'[s] = EmptySlot
    BY <1>2, <1>9, <1>10, <1>11 DEF Sound, Ring
  <2>3. \A s, t \in 0..(Slots - 1) : InUse(s)' /\ InUse(t)' /\ buf'[s].id = buf'[t].id => s = t
    BY <1>9, <1>10 DEF Sound, Ring
  <2> QED  BY <2>1, <2>2, <2>3 DEF Ring
<1>13. Header'
  BY <1>1 DEF Sound, Header
<1>14. Chain'
  <2> SUFFICES ASSUME gen = FW_28 PROVE Chain'
    BY <1>2 DEF Chain
  <2>1. ASSUME NEW s \in 0..(Slots - 1), NEW t \in 0..(Slots - 1), InUse(t)',
               Off(t)' = Off(s)' + 1
        PROVE  Follows(buf[s].serial, buf[t].serial, buf[t].gap)'
    <3>1. t # rd /\ InUse(t)
      BY <1>9, <2>1
    <3>2. s # rd /\ Off(t) = Off(s) + 1 /\ InUse(s)
      BY <1>4, <1>5, <1>6, <2>1, <3>1 DEF InUse, Off
    <3>3. Follows(buf[s].serial, buf[t].serial, buf[t].gap)
      BY <3>1, <3>2 DEF Sound, Chain
    <3> QED  BY <1>10, <3>1, <3>2, <3>3 DEF Follows, Adv
  <2>2. ASSUME NEW s \in 0..(Slots - 1), Off(s)' + 1 = backlog'
        PROVE  Reached(buf[s].serial)'
    <3>1. s # rd /\ Off(s) + 1 = backlog /\ InUse(s)
      BY <1>4, <1>5, <1>6, <2>2 DEF InUse, Off
    <3>2. Reached(buf[s].serial)
      BY <3>1 DEF Sound, Chain
    <3> QED  BY <1>1, <1>10, <3>1, <3>2 DEF Reached, Adv
  <2>3. ASSUME base, steady
        PROVE  old > 1 /\ IF backlog' = 0 THEN Reached(old)'
                          ELSE Follows(old, buf[rd].serial, buf[rd].gap)'
    <3>1. fresh /\ old > 1 /\ old = hdr.serial
      BY <1>1, <2>3 DEF Sound, Header, Chain
    <3>2. old = buf[rd].serial
      BY <1>1, <3>1, Loaded
    <3>3. CASE backlog' = 0
      <4>1. Off(rd) + 1 = backlog
        BY <1>4, <1>5, <1>8, <3>3
      <4>2. Reached(old)
        BY <1>5, <3>2, <4>1 DEF Sound, Chain
      <4> QED  BY <1>1, <3>1, <3>3, <4>2 DEF Reached, Adv
    <3>4. CASE backlog' # 0
      <4>1. n # rd /\ Off(n) = Off(rd) + 1 /\ InUse(n)
        BY <1>4, <1>5, <1>6, <3>4 DEF Off, InUse
      <4>2. Follows(old, buf[n].serial, buf[n].gap)
        BY <1>5, <1>6, <3>2, <4>1 DEF Sound, Chain
      <4>3. buf'[rd'] = buf[n] /\ old' = old
        BY <1>1, <1>4, <1>6, <1>10, <4>1
      <4> QED  BY <3>1, <3>4, <4>2, <4>3 DEF Follows, Adv
    <3> QED  BY <3>3, <3>4
  <2> QED  BY <1>1, <2>1, <2>2, <2>3 DEF Chain
<1>15. Once'
  BY <1>1, <1>9, <1>10 DEF Sound, Once
<1>16. GapExact'
  <2>1. EmptySlot.id = 0 /\ DOMAIN buf' = 0..(Slots - 1)
    BY <1>4, <1>5 DEF EmptySlot
  <2> QED  BY <1>1, <1>5, <1>10, <1>11, <2>1 DEF Sound, GapExact
<1> QED  BY <1>12, <1>13, <1>14, <1>15, <1>16 DEF Sound

\* The ack is refused, which it is only after a restart.
LEMMA AckRefused ==
  ASSUME TypeOK, SoundRead, Sound, Ack, backlog' = backlog
  PROVE  Sound' /\ ~fresh
<1>1. /\ pc = "ack" /\ pc' = "header" /\ FwAck(hdr.serial)
      /\ UNCHANGED <<gen, z2, fserial, gap, frames, drops, restarts, again, hdr, word, old, base,
                     hid, fresh, steady, delivered, counted>>
  BY DEF Ack, rxVars
<1>2. backlog \in Nat
  BY SlotsAssumption DEF TypeOK, CardTypeOK
<1>3. /\ UNCHANGED <<buf, rd, wr, backlog>>
      /\ backlog = 0 \/ hdr.serial = 0 \/ (hdr.serial # 1 /\ hdr.serial # buf[rd].serial)
      /\ backlog = 0 \/ gen = FW_28
  BY <1>1, <1>2 DEF FwAck
<1>4. ~fresh
  <2> SUFFICES ASSUME fresh PROVE FALSE
    OBVIOUS
  <2> QED  BY <1>1, <1>2, <1>3, Loaded DEF AtHead
<1>5. ~steady /\ restarts # 0
  BY <1>4 DEF Sound, Header, Once
<1>6. UNCHANGED fwVars
  BY <1>1, <1>3 DEF fwVars
<1>7. Ring' /\ GapExact'
  BY <1>1, <1>6 DEF Sound, fwVars, Ring, InUse, Off, GapExact
<1>8. Header' /\ Once'
  BY <1>1, <1>5 DEF Sound, Header, Once
<1>9. Chain'
  BY <1>1, <1>5, <1>6 DEF Sound, Chain, fwVars, InUse, Off, Follows, Reached, Adv
<1> QED  BY <1>4, <1>7, <1>8, <1>9 DEF Sound

-----------------------------------------------------------------------------
(* The card's steps.                                                       *)

\* One more serial handed out after g others.
LEMMA AdvStep ==
  ASSUME NEW a \in Serial, a > 1, NEW g \in Nat, g < 128, gen = FW_28, fserial = Adv(a, g),
         fserial \in Serial
  PROVE  NextSerial(fserial) = Adv(a, g + 1)
<1>1. fserial > 0 /\ fserial = (IF a + g < SERIALS THEN a + g ELSE a + g + 2 - SERIALS)
  BY SerialsNat DEF Adv, Serial
<1>2. NextSerial(fserial) = IF fserial + 1 = SERIALS THEN 2 ELSE fserial + 1
  BY <1>1, NextSerialType
<1> QED  BY <1>1, <1>2, SerialsNat DEF Adv, Serial

\* A frame enters the backlog behind the others.
LEMMA ReceiveKeeps ==
  ASSUME TypeOK, SoundRead, Sound, FwReceive
  PROVE  Sound'
<1>1. /\ backlog < Slots /\ frames < MaxFrames /\ frames' = frames + 1
      /\ fserial' = NextSerial(fserial)
      /\ wr' = (wr + 1) % Slots /\ backlog' = backlog + 1 /\ gap' = 0
      /\ UNCHANGED <<gen, z2, rd, drops, restarts, pc, again, hdr, word, old, base, hid, fresh,
                     steady, delivered, counted>>
  BY DEF FwReceive, rxVars
<1>2. PICK r : /\ buf' = [buf EXCEPT ![wr] = r] /\ r.size # 0
               /\ r.serial = fserial' /\ r.id = frames' /\ r.gap = gap
  <2>1. PICK size \in {FRAME, RUNT} :
          buf' = [buf EXCEPT ![wr] = [size |-> size, serial |-> fserial', id |-> frames',
                                      gap |-> gap]]
    BY DEF FwReceive
  <2>2. size # 0
    BY DEF FRAME, RUNT
  <2>3. PICK r : r = [size |-> size, serial |-> fserial', id |-> frames', gap |-> gap]
    OBVIOUS
  <2>4. r.size # 0 /\ r.serial = fserial' /\ r.id = frames' /\ r.gap = gap
    BY <2>2, <2>3
  <2> QED  BY <2>1, <2>3, <2>4
<1>3. /\ rd \in 0..(Slots - 1) /\ wr \in 0..(Slots - 1) /\ Slots \in Nat \ {0}
      /\ backlog \in 0..Slots /\ DOMAIN buf = 0..(Slots - 1) /\ frames \in Nat
      /\ fserial \in Serial
  BY SlotsAssumption, BoundsAssumption DEF TypeOK, CardTypeOK
<1>4. wr = IF rd + backlog < Slots THEN rd + backlog ELSE rd + backlog - Slots
  BY DEF Sound, Ring
<1>5. wr' = IF wr + 1 < Slots THEN wr + 1 ELSE 0
  BY <1>1, <1>3, NextSlot
<1>6. \A s \in 0..(Slots - 1) : Off(s)' = Off(s) /\ (InUse(s)' <=> InUse(s) \/ s = wr)
  BY <1>1, <1>3, <1>4 DEF InUse, Off
<1>7. Off(wr) = backlog /\ ~InUse(wr) /\ \A s \in 0..(Slots - 1) : Off(s) = backlog => s = wr
  BY <1>1, <1>3, <1>4 DEF InUse, Off
<1>8. buf'[wr] = r /\ \A s \in 0..(Slots - 1) : s # wr => buf'[s] = buf[s]
  BY <1>2, <1>3
<1>9. \A s \in 0..(Slots - 1) : buf[s].id \in 0..frames /\ buf[s].serial \in Serial
  <2>1. \A s \in 0..(Slots - 1) : buf[s] \in SlotType
    BY DEF TypeOK, CardTypeOK
  <2> QED  BY <2>1 DEF SlotType
<1>10. fserial' \in Serial /\ (gen = FW_28 => fserial' > 1)
  BY <1>1, <1>3, NextSerialType
<1>11. Ring'
  <2>1. wr' = IF rd' + backlog' < Slots THEN rd' + backlog' ELSE rd' + backlog' - Slots
    BY <1>1, <1>3, <1>4, <1>5
  <2>2. \A s \in 0..(Slots - 1) :
          IF InUse(s)' THEN buf'[s].size # 0 /\ buf'[s].id # 0 /\ (gen' = FW_28 => buf'[s].serial > 1)
          ELSE buf'[s] = EmptySlot
    <3>1. frames' # 0
      BY <1>1, <1>3
    <3> QED  BY <1>1, <1>2, <1>6, <1>8, <1>10, <3>1 DEF Sound, Ring
  <2>3. \A s \in 0..(Slots - 1) : s # wr => buf'[s].id # frames'
    BY <1>1, <1>3, <1>8, <1>9
  <2>4. \A s, t \in 0..(Slots - 1) : InUse(s)' /\ InUse(t)' /\ buf'[s].id = buf'[t].id => s = t
    BY <1>2, <1>6, <1>8, <2>3 DEF Sound, Ring
  <2> QED  BY <2>1, <2>2, <2>4 DEF Ring
<1>12. backlog > 0 => rd # wr /\ buf'[rd] = buf[rd]
  <2>1. backlog > 0 => rd # wr
    BY <1>1, <1>3, <1>4
  <2> QED  BY <1>3, <1>8, <2>1
<1>13. Header'
  <2>1. AtHead => AtHead' /\ buf'[rd'] = buf[rd]
    BY <1>1, <1>3, <1>12 DEF AtHead
  <2> QED  BY <1>1, <2>1 DEF Sound, Header
<1>14. Chain'
  <2> SUFFICES ASSUME gen = FW_28 PROVE Chain'
    BY <1>1 DEF Chain
  <2>1. ASSUME NEW a \in Serial, a > 1, Reached(a)
        PROVE  Follows(a, fserial', gap)
    <3> SUFFICES ASSUME gap < 128 PROVE fserial' = Adv(a, gap + 1)
      BY DEF Follows
    <3>1. gap \in Nat
      BY BoundsAssumption DEF TypeOK, CardTypeOK
    <3> QED  BY <1>1, <1>3, <2>1, <3>1, AdvStep DEF Reached
  <2>2. ASSUME NEW s \in 0..(Slots - 1), NEW t \in 0..(Slots - 1), InUse(t)',
               Off(t)' = Off(s)' + 1
        PROVE  Follows(buf[s].serial, buf[t].serial, buf[t].gap)'
    <3>1. Off(t) = Off(s) + 1 /\ Off(s) \in Nat
      BY <1>3, <1>6, <2>2 DEF Off
    <3>2. InUse(s) /\ s # wr /\ buf'[s] = buf[s]
      <4>1. InUse(t) \/ t = wr
        BY <1>6, <2>2
      <4>2. Off(s) < backlog
        BY <1>3, <1>7, <3>1, <4>1 DEF InUse
      <4> QED  BY <1>7, <1>8, <4>2 DEF InUse
    <3>3. CASE t # wr
      <4>1. InUse(t) /\ buf'[t] = buf[t]
        BY <1>6, <1>8, <2>2, <3>3
      <4>2. Follows(buf[s].serial, buf[t].serial, buf[t].gap)
        BY <3>1, <4>1 DEF Sound, Chain
      <4> QED  BY <3>2, <4>1, <4>2 DEF Follows, Adv
    <3>4. CASE t = wr
      <4>1. Off(s) + 1 = backlog
        BY <1>7, <3>1, <3>4
      <4>2. Reached(buf[s].serial)
        BY <4>1 DEF Sound, Chain
      <4>3. buf[s].serial > 1 /\ buf[s].serial \in Serial
        BY <1>9, <3>2 DEF Sound, Ring
      <4>4. Follows(buf[s].serial, fserial', gap)
        BY <2>1, <4>2, <4>3
      <4> QED  BY <1>2, <1>8, <3>2, <3>4, <4>4 DEF Follows, Adv
    <3> QED  BY <3>3, <3>4
  <2>3. ASSUME NEW s \in 0..(Slots - 1), Off(s)' + 1 = backlog'
        PROVE  Reached(buf[s].serial)'
    <3>1. s = wr
      BY <1>1, <1>3, <1>4, <2>3 DEF Off
    <3>2. fserial' = Adv(fserial', 0)
      <4>1. \A v \in Serial : v + 0 = v /\ v < SERIALS
        BY SerialsNat DEF Serial
      <4> QED  BY <1>10, <4>1 DEF Adv
    <3> QED  BY <1>1, <1>2, <1>8, <3>1, <3>2 DEF Reached, Adv
  <2>4. ASSUME base, steady, pc \notin {"copy", "ack"}
        PROVE  Follows(old, buf[rd].serial, buf[rd].gap)'
    <3>1. CASE backlog = 0
      <4>1. Reached(old) /\ old > 1 /\ old \in Serial
        BY <2>4, <3>1 DEF Sound, Chain, TypeOK, FramerTypeOK
      <4>2. rd = wr
        BY <1>3, <1>4, <3>1
      <4> QED  BY <1>1, <1>2, <1>8, <2>1, <4>1, <4>2 DEF Follows, Adv
    <3>2. CASE backlog # 0
      <4>1. Follows(old, buf[rd].serial, buf[rd].gap) /\ buf'[rd] = buf[rd]
        BY <1>3, <1>12, <2>4, <3>2 DEF Sound, Chain
      <4> QED  BY <1>1, <4>1 DEF Follows, Adv
    <3> QED  BY <3>1, <3>2
  <2>5. backlog' # 0
    BY <1>1, <1>3
  <2>6. base /\ steady => old > 1 /\ (pc \in {"copy", "ack"} => old = hdr.serial)
    BY DEF Sound, Chain
  <2> QED  BY <1>1, <2>2, <2>3, <2>4, <2>5, <2>6 DEF Chain
<1>15. Once'
  <2> SUFFICES ASSUME restarts = 0 PROVE Once'
    BY <1>1 DEF Once
  <2>1. fresh' /\ \A i \in 0..MaxFrames : delivered'[i] <= 1 /\ (i > frames' => delivered'[i] = 0)
    BY <1>1, <1>3, BoundsAssumption DEF Sound, Once
  <2>2. delivered[frames'] = 0
    BY <1>1, <1>3, BoundsAssumption DEF Sound, Once
  <2>3. \A s \in 0..(Slots - 1) : InUse(s)' => delivered'[buf'[s].id] = 0 \/ (pc' = "ack" /\ s = rd')
    BY <1>1, <1>2, <1>6, <1>8, <2>2 DEF Sound, Once
  <2> QED  BY <2>1, <2>3 DEF Once
<1>16. GapExact'
  <2>1. counted.of \in 0..frames
    BY DEF TypeOK, HistoryTypeOK
  <2>2. r.id # counted.of
    BY <1>1, <1>2, <1>3, <2>1
  <2>3. DOMAIN buf' = 0..(Slots - 1)
    BY <1>2, <1>3
  <2> QED  BY <1>1, <1>3, <1>8, <2>2, <2>3 DEF Sound, GapExact
<1> QED  BY <1>11, <1>13, <1>14, <1>15, <1>16 DEF Sound

\* A frame is dropped: the gap before the next one grows.
LEMMA DropKeeps ==
  ASSUME TypeOK, SoundRead, Sound, FwDrop
  PROVE  Sound'
<1>1. /\ fserial' = NextSerial(fserial) /\ gap' = gap + 1
      /\ UNCHANGED <<gen, z2, buf, rd, wr, backlog, frames, restarts, pc, again, hdr, word, old, base,
                     hid, fresh, steady, delivered, counted>>
  BY DEF FwDrop, rxVars
<1>2. Ring' /\ GapExact' /\ Header'
  BY <1>1 DEF Sound, Ring, InUse, Off, GapExact, Header, AtHead
<1>3. Once'
  BY <1>1 DEF Sound, Once, InUse, Off
<1>4. ASSUME NEW a \in Serial, a > 1, gen = FW_28, Reached(a)
      PROVE  gap' < 128 => fserial' = Adv(a, gap')
  <2> SUFFICES ASSUME gap' < 128 PROVE fserial' = Adv(a, gap')
    OBVIOUS
  <2>1. gap \in Nat /\ fserial \in Serial
    BY BoundsAssumption DEF TypeOK, CardTypeOK
  <2>2. gap < 128
    BY <1>1, <2>1
  <2> QED  BY <1>1, <1>4, <2>1, <2>2, AdvStep DEF Reached
<1>5. Chain'
  <2> SUFFICES ASSUME gen = FW_28 PROVE Chain'
    BY <1>1 DEF Chain
  <2>1. \A s, t \in 0..(Slots - 1) :
          InUse(t)' /\ Off(t)' = Off(s)' + 1 => Follows(buf[s].serial, buf[t].serial, buf[t].gap)'
    BY <1>1 DEF Sound, Chain, InUse, Off, Follows, Adv
  <2>2. ASSUME NEW s \in 0..(Slots - 1), Off(s)' + 1 = backlog'
        PROVE  Reached(buf[s].serial)'
    <3>1. Off(s) + 1 = backlog /\ InUse(s)
      <4>1. rd \in 0..(Slots - 1) /\ Slots \in Nat /\ backlog \in Nat
        BY SlotsAssumption DEF TypeOK, CardTypeOK
      <4> QED  BY <1>1, <2>2, <4>1 DEF Off, InUse
    <3>2. PICK a \in Serial : a = buf[s].serial
      <4>1. buf[s] \in SlotType
        BY DEF TypeOK, CardTypeOK
      <4> QED  BY <4>1 DEF SlotType
    <3>3. a > 1 /\ Reached(a)
      BY <3>1, <3>2 DEF Sound, Chain, Ring
    <3>4. gap' < 128 => fserial' = Adv(a, gap')
      BY <1>4, <3>3
    <3> QED  BY <1>1, <3>2, <3>4 DEF Reached, Adv
  <2>3. ASSUME base, steady, Reached(old), old > 1
        PROVE  Reached(old)'
    <3>1. old \in Serial
      BY DEF TypeOK, FramerTypeOK
    <3>2. gap' < 128 => fserial' = Adv(old, gap')
      BY <1>4, <2>3, <3>1
    <3> QED  BY <1>1, <3>2 DEF Reached, Adv
  <2>4. base /\ steady =>
         /\ old > 1
         /\ IF pc \in {"copy", "ack"} THEN old = hdr.serial
            ELSE IF backlog = 0 THEN Reached(old)
            ELSE Follows(old, buf[rd].serial, buf[rd].gap)
    BY DEF Sound, Chain
  <2>5. Follows(old, buf[rd].serial, buf[rd].gap) => Follows(old, buf[rd].serial, buf[rd].gap)'
    BY <1>1 DEF Follows, Adv
  <2> QED  BY <1>1, <2>1, <2>2, <2>3, <2>4, <2>5 DEF Chain
<1> QED  BY <1>2, <1>3, <1>5 DEF Sound

\* A restart empties the backlog; what the framer read is stale from here on.
LEMMA RestartKeeps ==
  ASSUME TypeOK, SoundRead, Sound, FwRestart
  PROVE  Sound'
<1>1. /\ restarts' = restarts + 1 /\ buf' = [s \in 0..(Slots - 1) |-> EmptySlot]
      /\ rd' = 0 /\ wr' = 0 /\ backlog' = 0 /\ fresh' = FALSE /\ steady' = FALSE
      /\ UNCHANGED <<gen, z2, pc, again, hdr, word, counted>>
  BY DEF FwRestart
<1>2. Slots \in Nat \ {0} /\ restarts \in Nat
  BY SlotsAssumption, BoundsAssumption DEF TypeOK, CardTypeOK
<1>3. \A s \in 0..(Slots - 1) : ~InUse(s)' /\ Off(s)' + 1 # backlog'
  BY <1>1, <1>2 DEF InUse, Off
<1>4. Ring'
  BY <1>1, <1>2, <1>3 DEF Ring
<1>5. Header'
  BY <1>1 DEF Sound, Header
<1>6. Chain'
  BY <1>1, <1>3 DEF Chain
<1>7. Once'
  BY <1>1, <1>2 DEF Once
<1>8. GapExact'
  <2>1. DOMAIN buf' = 0..(Slots - 1) /\ \A s \in 0..(Slots - 1) : buf'[s].id = 0
    BY <1>1 DEF EmptySlot
  <2> QED  BY <2>1 DEF GapExact
<1> QED  BY <1>4, <1>5, <1>6, <1>7, <1>8 DEF Sound

-----------------------------------------------------------------------------
(* The invariant holds, and what it gives.                                 *)

\* DevOpen and the start of frame_proc.
LEMMA InitIInv == Init => IInv
<1> SUFFICES ASSUME Init PROVE IInv
  OBVIOUS
<1>1. Slots \in Nat \ {0} /\ Budget \in Nat \ {0} /\ MaxFrames \in Nat /\ MaxDrops \in Nat
      /\ MaxRestarts \in Nat
  BY SlotsAssumption, BudgetAssumption, BoundsAssumption
<1>2. 0 \in Serial /\ 0 \in 0..(Slots - 1) /\ frames = 0 /\ drops = 0
  BY <1>1, SerialsNat DEF Serial, Init
<1>3. gen \in {FW_LEGACY, FW_21, FW_28} /\ z2 \in BOOLEAN /\ fserial \in Serial
  <2>1. PICK s \in Starts : gen = s[1] /\ z2 = s[2] /\ fserial = s[3]
    BY DEF Init
  <2>2. s \in {FW_LEGACY, FW_21, FW_28} \X BOOLEAN \X Serial
    BY <2>1, StartsAssumption DEF Serial
  <2> QED  BY <2>1, <2>2
<1>4. EmptySlot \in SlotType
  BY <1>2, EmptyIsSlot
<1>5. CardTypeOK
  BY <1>1, <1>2, <1>3, <1>4 DEF Init, CardTypeOK
<1>6. FramerTypeOK
  <2>1. hdr \in HeaderType
    BY <1>2 DEF Init, HeaderType
  <2>2. left \in 1..Budget /\ old \in Serial /\ word \in Serial
    BY <1>1, <1>2 DEF Init
  <2> QED  BY <2>1, <2>2 DEF Init, FramerTypeOK
<1>7. HistoryTypeOK
  <2>1. hid \in 0..frames /\ delivered \in [0..MaxFrames -> Nat]
    BY <1>1, <1>2 DEF Init
  <2>2. counted \in [lost : Nat, bad : {0, 1}, of : 0..frames]
    BY <1>1, <1>2 DEF Init
  <2>3. fresh \in BOOLEAN /\ steady \in BOOLEAN
    BY DEF Init
  <2> QED  BY <2>1, <2>2, <2>3 DEF HistoryTypeOK
<1>8. Linear
  BY <1>1 DEF Init, Linear
<1>9. \A s \in 0..(Slots - 1) : ~InUse(s) /\ Off(s) + 1 # backlog
  BY <1>1 DEF Init, InUse, Off
<1>10. Ring
  BY <1>1, <1>9 DEF Init, Ring
<1>11. Header
  BY DEF Init, Header
<1>12. Chain
  BY <1>9 DEF Init, Chain
<1>13. Once
  BY <1>1, <1>9 DEF Init, Once
<1>14. GapExact
  BY DEF Init, GapExact
<1> QED  BY <1>5, <1>6, <1>7, <1>8, <1>10, <1>11, <1>12, <1>13, <1>14 DEF IInv, TypeOK, Sound

\* The firmware and the bus do not change.
LEMMA SameGen == [Next]_vars => (SoundRead' <=> SoundRead)
<1> SUFFICES ASSUME [Next]_vars PROVE UNCHANGED <<gen, z2>>
  BY DEF SoundRead
<1>1. CASE FwReceive \/ FwDrop \/ FwRestart \/ UNCHANGED vars
  BY <1>1 DEF FwReceive, FwDrop, FwRestart, vars
<1>2. CASE dev_isr \/ FramerStep
  BY <1>2 DEF dev_isr, FramerStep, Wake, ReadLong, ReadSerialFirst, ReadSizeFirst, ReadSecondWord,
              Decide, ReadStatus, Classify, Copy, Ack, Rearm, fwVars
<1> QED  BY <1>1, <1>2 DEF Next

\* Every step of the card, the interrupt server and the framer keeps it.
LEMMA NextIInv == IInv /\ [Next]_vars => IInv'
<1> SUFFICES ASSUME IInv, [Next]_vars PROVE IInv'
  OBVIOUS
<1>1. TypeOK /\ Linear
  BY DEF IInv
<1>2. TypeOK' /\ Linear'
  BY <1>1, CardTypes, ReadTypes, FramerTypes DEF Next, FramerStep
<1>3. ASSUME SoundRead PROVE Sound'
  <2>1. Sound
    BY <1>3 DEF IInv
  <2>2. CASE FwReceive \/ FwDrop \/ FwRestart
    BY <1>1, <1>3, <2>1, <2>2, ReceiveKeeps, DropKeeps, RestartKeeps
  <2>3. CASE dev_isr \/ UNCHANGED vars
    BY <2>1, <2>3, IsrKeeps
  <2>4. CASE Wake \/ Decide \/ ReadStatus \/ Rearm
    BY <1>1, <2>1, <2>4, WakeKeeps
  <2>5. CASE ReadLong \/ ReadSerialFirst \/ ReadSizeFirst \/ ReadSecondWord
    BY <1>1, <1>3, <2>1, <2>5, ReadKeeps
  <2>6. CASE Classify \/ Copy
    BY <1>1, <1>3, <2>1, <2>6, ClassifyKeeps, CopyKeeps
  <2>7. CASE Ack
    BY <1>1, <1>3, <2>1, <2>7, AckTakes, AckRefused
  <2> QED  BY <2>2, <2>3, <2>4, <2>5, <2>6, <2>7 DEF Next, FramerStep
<1> QED  BY <1>2, <1>3, SameGen DEF IInv

\* The invariant at every moment.
LEMMA Invariant == Spec => []IInv
BY InitIInv, NextIInv, PTL DEF Spec

\* Type correctness; neither the backlog of the card nor the drain budget of
\* frame_proc leaves its bounds.
THEOREM TypeCorrect == Spec => []TypeOK
<1>1. IInv => TypeOK
  BY DEF IInv
<1> QED  BY <1>1, Invariant, PTL

\* frame_proc copies no frame twice, unless the card restarted its receiver:
\* every ack takes the head, so the next header is the next frame's.
THEOREM FramesDeliveredOnce == Spec => []DeliveredOnce
<1>1. IInv => DeliveredOnce
  BY BoundsAssumption DEF IInv, Sound, Once, DeliveredOnce
<1> QED  BY <1>1, Invariant, PTL

\* The overruns zznet_rx_next reports are the frames the card dropped.
THEOREM OverrunsCountDrops == Spec => []GapExact
<1>1. IInv => GapExact
  <2> SUFFICES ASSUME IInv, ~SoundRead PROVE GapExact
    BY DEF IInv, Sound
  <2>1. ~(gen >= FW_28)
    BY DEF SoundRead
  <2> QED  BY <2>1 DEF GapExact
<1> QED  BY <1>1, Invariant, PTL

\* The serial frame_proc writes to RX accept takes the frame whose header it
\* read, but after a restart within the copy (the "Known limit" of rx.h).
THEOREM AcksTakeFrameRead == Spec => AckTakesFrameRead
<1> DEFINE Taken ==
      SoundRead /\ pc = "ack" /\ pc' = "header" /\ backlog' < backlog =>
        \/ buf[rd].id = hid
        \/ ~fresh /\ (gen >= FW_28 => buf[rd].serial = hdr.serial)
<1>1. IInv /\ [Next]_vars => [Taken]_vars
  <2> SUFFICES ASSUME IInv, Next, SoundRead, pc = "ack", pc' = "header", backlog' < backlog
               PROVE  \/ buf[rd].id = hid
                      \/ ~fresh /\ (gen >= FW_28 => buf[rd].serial = hdr.serial)
    OBVIOUS
  <2>1. TypeOK /\ Sound
    BY DEF IInv
  <2>2. Ack
    <3>1. CASE FwReceive \/ FwDrop \/ FwRestart
      BY <3>1 DEF FwReceive, FwDrop, FwRestart
    <3>2. CASE dev_isr
      BY <3>2 DEF dev_isr
    <3>3. CASE FramerStep
      BY <3>3 DEF FramerStep, Wake, ReadLong, ReadSerialFirst, ReadSizeFirst, ReadSecondWord,
                  Decide, ReadStatus, Classify, Copy, Rearm
    <3> QED  BY <3>1, <3>2, <3>3 DEF Next
  <2>3. CASE fresh
    BY <2>1, <2>3, Loaded DEF AtHead
  <2>4. CASE ~fresh
    <3>1. gen >= FW_28 => gen = FW_28
      BY <2>1 DEF TypeOK, CardTypeOK, FW_LEGACY, FW_21, FW_28
    <3>2. backlog' # backlog
      BY <2>1, SlotsAssumption DEF TypeOK, CardTypeOK
    <3>3. gen = FW_28 => hdr.serial = 1 \/ buf[rd].serial = hdr.serial
      BY <2>2, <3>2 DEF Ack, FwAck
    <3>4. gen = FW_28 => hdr.serial # 1
      BY <2>1 DEF Sound, Header
    <3> QED  BY <2>4, <3>1, <3>3, <3>4
  <2> QED  BY <2>3, <2>4
<1>2. Spec => [][Taken]_vars
  BY <1>1, Invariant, PTL DEF Spec
<1> QED  BY <1>2 DEF AckTakesFrameRead
=============================================================================
