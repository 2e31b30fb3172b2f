------------------------------- MODULE MCCard -------------------------------
(***************************************************************************)
(* USB periodic pipes, and the drivers and tools of the card that share no *)
(* state with them, in one run: the initial state chooses one and every    *)
(* step is a step of it.  Those that may stop may do so.  As only one runs *)
(* in a behaviour, all but USB, SD and ZZTop's settings keep their         *)
(* variables in the same pool, and what one leaves unused of it stays 0.   *)
(***************************************************************************)
EXTENDS MCUsbPeriodic, SdBoot, TopSave

VARIABLES which,  \* the component of this behaviour
          p1, p2, p3, p4, p5, p6, p7, p8, p9, p10, p11, p12, p13, p14, p15

CONSTANTS StaticRegs, MaxMajor, ScreenModes, Clocks, PllClocks, Tolerance, MinClock, MaxClock,
          PresetClock, Surfaces, Wrappers, MaxEdits, MaxCrop, Coarse, EffectiveAuto, SeqMod, MaxLines

\* A size too small for any mode, one with a preset, one without.
MCPresets == [tiny |-> 0, std |-> 4, wide |-> 0]

-----------------------------------------------------------------------------
Drawing ==
  INSTANCE RtgDraw
  WITH gBus <- p1, gCard <- p2, gKnown <- p3, gPalette <- p4, gWrong <- p5, gOther <- p6

Line ==
  INSTANCE RtgLine
  WITH lX <- p1, lY <- p2, lSkip <- p3, lAt <- p4, lErr <- p5, lMinor <- p6

Mode ==
  INSTANCE RtgMode
  WITH vCustom <- p1, vModes <- p2, vInfo <- p3, vRejected <- p4, vSwitch <- p5,
       vScan <- p6, vClock <- p7, vPan <- p8, vWanted <- p9, vRearmed <- p10, vFault <- p11

Setup ==
  INSTANCE RtgSetup
  WITH sBus <- p1, sAperture <- p2, sFw <- p3, sCaps <- p4, sAt <- p5, sMode <- p6,
       sSync <- p7, sOff <- p8, sPip <- p9, sCardMode <- p10, sCardSync <- p11,
       sSyncLast <- p12, sHooks <- p13, sAcked <- p14

Bitmap ==
  INSTANCE RtgBitmap
  WITH bmBus <- p1, bmHeap <- p2, bmList <- p3, bmPip <- p4, bmPending <- p5, bmApps <- p6,
       ovBitmap <- p7, ovLive <- p8, ovGeometry <- p9, ovMade <- p10, ovFw <- p11

Live ==
  INSTANCE CapLive
  WITH cFines <- p1, cPc <- p2, cLive <- p3, cLate <- p4, cAnchor <- p5, cTouched <- p6,
       cSure <- p7, cTarget <- p8, cStage <- p9, cBase <- p10, cExcused <- p11,
       cUnstaged <- p12, cForeign <- p13, cEdits <- p14

Align ==
  INSTANCE CapAlign
  WITH aRequest <- p1, aApplied <- p2, aStaged <- p3, aLatched <- p4, aRaw <- p5,
       aEntry <- p6, aCurrent <- p7, aWorking <- p8, aCandidate <- p9, aAction <- p10,
       aSeq <- p11, aPc <- p12, aCancel <- p13, aEnd <- p14, aMissed <- p15

Config ==
  INSTANCE CfgText
  WITH xText <- p1, xFw <- p2, xWithheld <- p3, xMeans <- p4

-----------------------------------------------------------------------------
\* The pool from its n-th variable on
From13 == <<p13, p14, p15>>
From12 == <<p12, From13>>
From7 == <<p7, p8, p9, p10, p11, From12>>
From5 == <<p5, p6, From7>>
pool == <<p1, p2, p3, p4, From5>>

\* The same, unused
Free13 == p13 = 0 /\ p14 = 0 /\ p15 = 0
Free12 == p12 = 0 /\ Free13
Free7 == p7 = 0 /\ p8 = 0 /\ p9 = 0 /\ p10 = 0 /\ p11 = 0 /\ Free12
Free5 == p5 = 0 /\ p6 = 0 /\ Free7
FreePool == p1 = 0 /\ p2 = 0 /\ p3 = 0 /\ p4 = 0 /\ Free5

\* A boot without an image, when another component runs.
NoImage == bImage = Empty /\ bRes = <<>>

PartsInit ==
  /\ Init /\ DiskInit /\ BootInit /\ TopInit
  /\ \/ which = "boot" /\ tAlone /\ FreePool
     \/ which = "save" /\ NoImage /\ FreePool
     \/ /\ NoImage /\ tAlone
        /\ \/ which \in {"usb", "disk"} /\ FreePool
           \/ which = "draw" /\ Drawing!Init /\ Free7
           \/ which = "line" /\ Line!Init /\ Free7
           \/ which = "mode" /\ Mode!Init /\ Free12
           \/ which = "setup" /\ Setup!Init /\ p15 = 0
           \/ which = "bitmap" /\ Bitmap!Init /\ Free12
           \/ which = "live" /\ Live!Init /\ p15 = 0
           \/ which = "align" /\ Align!Init
           \/ which = "config" /\ Config!Init /\ Free5

\* The components with variables of their own, one of which may run.
OwnNext ==
  /\ IF which = "usb" THEN Next ELSE UNCHANGED vars
  /\ UNCHANGED diskVars \/ (which = "disk" /\ DiskNext)
  /\ UNCHANGED bootVars \/ (which = "boot" /\ BootNext)
  /\ UNCHANGED topVars \/ (which = "save" /\ TopNext)

PartsNext ==
  /\ UNCHANGED which /\ OwnNext
  /\ \/ UNCHANGED pool
     \/ which = "draw" /\ Drawing!Next /\ UNCHANGED From7
     \/ which = "line" /\ Line!Next /\ UNCHANGED From7
     \/ which = "mode" /\ Mode!Next /\ UNCHANGED From12
     \/ which = "setup" /\ Setup!Next /\ UNCHANGED p15
     \/ which = "bitmap" /\ Bitmap!Next /\ UNCHANGED From12
     \/ which = "live" /\ Live!Next /\ UNCHANGED p15
     \/ which = "align" /\ Align!Next
     \/ which = "config" /\ Config!Next /\ UNCHANGED From5

PartsSpec == PartsInit /\ [][PartsNext]_<<which, vars, diskVars, bootVars, topVars, pool>>

-----------------------------------------------------------------------------
\* The graphics driver: operations run with their own operands, lines continue
\* their staircase, framebuffers are shown in their own mode with the promised
\* clock, settings fit the firmware, surfaces have one owner.
GraphicsSafe ==
  /\ which = "draw" => Drawing!OperandsRight
  /\ which = "line" => Line!LineExact
  /\ which = "mode" => Mode!ModeSafe
  /\ which = "setup" => Setup!SetupSafe
  /\ which = "bitmap" => Bitmap!BitmapSafe

\* The live picture: Save stores what the card shows, Revert and the alignment
\* editor's Escape give back the picture of before, Return leaves the one shown.
CaptureSafe ==
  /\ which = "live" => Live!LiveSafe
  /\ which = "align" => Align!AlignSafe

\* ZZ9000.CFG: parsed and written again, by hand and by program, in turn, the
\* text means to the firmware what was chosen.
ConfigSafe == which = "config" => Config!ConfigSafe
=============================================================================
