------------------------------ MODULE RtgDraw ------------------------------
(***************************************************************************)
(* How the Picasso96 driver hands operations to the card.  On Zorro II an  *)
(* operation's operands go to registers that keep their value, so the      *)
(* driver skips a write it believes repeats the last one; on Zorro III     *)
(* they go to a descriptor in card memory, of which four bytes are cached  *)
(* the same way.  A skipped write that was needed draws with the operands  *)
(* of another operation.  Picasso96 serialises the calls for a board, so a *)
(* call is one step.  Each call's operands are abstracted to one value.    *)
(***************************************************************************)
EXTENDS Integers

\* The statically remembered Zorro II registers that are followed: any of SRC,
\* DST, RGB, DPITCH, MODE, X1, Y1, X2, Y2, X3, Y3.  Each is remembered on its own.
CONSTANT StaticRegs

VARIABLES gBus,    \* "z2" or "z3"
          gCard,   \* what the registers and the descriptor hold
          gKnown,  \* what the driver believes the cached ones hold
          gPalette,\* the secondary palette is selected
          gWrong,  \* operands the last operation was executed with by mistake
          gOther   \* registers another program wrote since the driver did

drawVars == <<gBus, gCard, gKnown, gPalette, gWrong, gOther>>

Values == {0, 1}
Alien == 2      \* a value that is nobody's operand
Unknown == -1   \* the cache's valid bit is clear

\* Zorro II registers remembered under a valid bit, and the descriptor's
\* remembered bytes.  The operands a call always writes (source pitch, USER3,
\* the descriptor's words, the line and overlay bytes) carry no state between
\* calls.
KeyedRegs == {"USER1", "USER2", "RGB2"}
CachedBytes == {"COLOR", "DRAW", "MASK", "MINTERM"}

Places == StaticRegs \cup KeyedRegs \cup CachedBytes

\* After InitCard.  The card's static registers are taken to hold the values
\* the driver's statics start with.
Init ==
  /\ gBus \in {"z2", "z3"}
  /\ gCard = [p \in Places |-> IF p \in StaticRegs THEN 0 ELSE Alien]
  /\ gKnown = [p \in Places |-> IF p \in StaticRegs THEN 0 ELSE Unknown]
  /\ gPalette = FALSE /\ gWrong = {} /\ gOther = {}

-----------------------------------------------------------------------------
\* Only what differs from the remembered value is written.
Needed(S, v) == {p \in S \cap Places : gKnown[p] # v}

Write(S, v) ==
  /\ gCard' = [p \in Places |-> IF p \in Needed(S, v) THEN v ELSE gCard[p]]
  /\ gKnown' = [p \in Places |-> IF p \in S THEN v ELSE gKnown[p]]
  /\ gOther' = gOther \ Needed(S, v)
  /\ UNCHANGED <<gBus, gPalette>>

\* Write the operands, kick the operation: the card takes what is there.
Run(S, v) == Write(S, v) /\ gWrong' = {p \in (S \cap Places) \ Needed(S, v) : gCard[p] # v}

Draw(z2, z3, v) == Run(IF gBus = "z2" THEN z2 ELSE z3, v)

\* A call that sets registers on Zorro II and then leaves the work to the CPU.
LeftToCpu(S, v) == gBus = "z2" /\ Write(S, v) /\ gWrong' = {}

Target == {"DST", "DPITCH", "MODE", "X1", "Y1", "X2", "Y2"}

FillRect(v) == Draw(Target \cup {"RGB"}, {"COLOR", "MASK"}, v)

InvertRect(v) == Draw(Target, {"COLOR", "MASK"}, v)

BlitRect(v) == Draw(Target \cup {"SRC", "X3", "Y3"}, {"COLOR", "MASK"}, v)

BlitRectNoMaskComplete(v) ==
  Draw(Target \cup {"SRC", "X3", "Y3"}, {"COLOR", "MINTERM"}, v)

BlitTemplate(v) ==
  \/ Draw(Target \cup {"SRC", "RGB", "RGB2", "X3"}, {"COLOR", "DRAW", "MASK"}, v)
  \/ LeftToCpu({"DST"}, v)

BlitPattern(v) ==
  \/ Draw(Target \cup {"SRC", "RGB", "RGB2", "USER1", "X3", "Y3"}, {"COLOR", "DRAW", "MASK"}, v)
  \/ LeftToCpu({"DST"}, v)

\* A solid line leaves out the background pen and the pattern shift; a
\* horizontal or vertical one is a filled rectangle on Zorro III.
DrawLine(v) ==
  \/ \E pattern \in {{}, {"RGB2", "Y3"}} :
       Draw(Target \cup {"RGB", "USER1", "X3"} \cup pattern,
            {"COLOR", "DRAW", "MASK"}, v)
  \/ gBus = "z3" /\ FillRect(v)

PlanarTarget == {"DST", "DPITCH", "MODE", "SRC", "X1", "X2", "Y2", "X3", "Y3", "USER2"}

BlitPlanar2Chunky(v) == Draw(PlanarTarget, {"MASK", "MINTERM"}, v)

BlitPlanar2Direct(v) == Draw(PlanarTarget \cup {"RGB"}, {"COLOR", "MASK", "MINTERM"}, v)

SetSpritePosition(v) == Draw({"X1", "Y1"}, {}, v)

SetSpriteImage(v) == Draw({"SRC", "X1", "X2", "Y1", "Y2"}, {}, v)

SetSpriteColor(v) == Draw({"USER1", "USER2"}, {}, v)

SetSplitPosition(v) == Draw({"SRC"}, {}, v)

SetPanning(v) == Draw({"X1", "Y1", "X2", "MODE"}, {"COLOR"}, v)

\* The surface calls use one of the cached bytes as a flag: 1 to allocate, 0
\* to free.
AllocSurface == gBus = "z3" /\ Run({"DRAW"}, 1)
FreeSurface == gBus = "z3" /\ Run({"COLOR"}, 0)

-----------------------------------------------------------------------------
\* The selector stays recorded as the old operand of USER1.
KeepsOperand(v) ==
  /\ gCard' = [gCard EXCEPT !["USER1"] = v]
  /\ gOther' = gOther \ {"USER1"}
  /\ UNCHANGED gKnown

\* USER1 doubles as the selector of a feature: written always, and no operand
\* afterwards.
selectCardFeature(v) ==
  /\ gCard' = [gCard EXCEPT !["USER1"] = v]
  /\ gKnown' = [gKnown EXCEPT !["USER1"] = Unknown]
  /\ gOther' = gOther \ {"USER1"}

\* Sync gating, and the features FindCard, InitCard and CreateFeature set.
SetDPMSLevel(v) ==
  selectCardFeature(v) /\ gWrong' = {} /\ UNCHANGED <<gBus, gPalette>>

\* The first secondary palette selects the feature; on Zorro III the entries
\* follow in the descriptor.
SetColorArray(v) ==
  \/ /\ v = 1 /\ ~gPalette /\ gPalette' = TRUE
     /\ selectCardFeature(v) /\ gWrong' = {}
     /\ UNCHANGED gBus
  \/ /\ v = 1 => gPalette
     /\ gBus = "z3" /\ Run({"COLOR"}, v)

\* A capture client sets its rectangle through USER1 and USER2 on firmware
\* without capture registers.
OtherProgram ==
  /\ gCard' = [gCard EXCEPT !["USER1"] = Alien, !["USER2"] = Alien]
  /\ gOther' = {"USER1", "USER2"} /\ gWrong' = {}
  /\ UNCHANGED <<gBus, gKnown, gPalette>>

Next ==
  \/ \E v \in Values :
       \/ FillRect(v) \/ InvertRect(v) \/ BlitRect(v) \/ BlitRectNoMaskComplete(v)
       \/ BlitTemplate(v) \/ BlitPattern(v) \/ DrawLine(v)
       \/ BlitPlanar2Chunky(v) \/ BlitPlanar2Direct(v)
       \/ SetSpritePosition(v) \/ SetSpriteImage(v) \/ SetSpriteColor(v)
       \/ SetSplitPosition(v) \/ SetPanning(v)
       \/ SetDPMSLevel(v) \/ SetColorArray(v)
  \/ AllocSurface \/ FreeSurface \/ OtherProgram

Spec == Init /\ [][Next]_drawVars

-----------------------------------------------------------------------------
\* Every operation is executed with its own operands, whatever was drawn, set
\* or staged before it; only a register another program wrote behind the
\* driver's back can be wrong.
OperandsRight == gWrong \subseteq gOther
=============================================================================
