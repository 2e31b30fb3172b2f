------------------------------ MODULE RtgMode ------------------------------
(***************************************************************************)
(* Display modes of the Picasso96 driver: what SetGC accepts, what the     *)
(* pixel-clock calls promise, and which framebuffer the card scans out,    *)
(* through monitor switches and modes edited in place.                     *)
(***************************************************************************)
EXTENDS Integers

CONSTANTS ScreenModes,  \* the ModeInfos Picasso96 has
          Clocks,       \* pixel clocks a user can ask for
          PllClocks,    \* those the card's PLL produces, within its bounds
          Tolerance,    \* largest error it accepts
          MinClock, MaxClock  \* ZZ_CUSTOM_MIN_CLOCK_HZ, ZZ_CUSTOM_MAX_CLOCK_HZ

\* Packaged sizes and their presets' clocks: "wide" has none.
CONSTANT PresetClock

VARIABLES vCustom,   \* the firmware takes custom modelines
          vModes,    \* the ModeInfos: size, timing, clock; resolved: its clock
                     \* was set by ResolvePixelClock since it was edited
          vInfo,     \* b->ModeInfo, the accepted one
          vRejected, \* the SetPanning guard
          vSwitch,   \* the card shows RTG
          vScan,     \* the ModeInfo the card was last programmed for
          vClock,    \* and with which clock
          vPan,      \* whose framebuffer is scanned out, "native" for capture
          vWanted,   \* the ModeInfo of Picasso96's last SetGC
          vRearmed,  \* the guard was lifted by a monitor switch
          vFault     \* "clock": a mode ran with another clock than resolved;
                     \* "layout": a framebuffer was shown in another's mode

modeVars == <<vCustom, vModes, vInfo, vRejected, vSwitch, vScan, vClock, vPan, vWanted,
              vRearmed, vFault>>

NoMode == "none"
Sizes == DOMAIN PresetClock
Timings == {"preset", "valid", "invalid"}

Init ==
  /\ vCustom \in BOOLEAN
  /\ vModes = [m \in ScreenModes |->
       [size |-> "tiny", timing |-> "invalid", clock |-> 0, resolved |-> FALSE]]
  /\ vInfo = NoMode /\ vRejected = FALSE /\ vSwitch = TRUE
  /\ vScan = NoMode /\ vClock = 0 /\ vPan = NoMode
  /\ vWanted = NoMode /\ vRearmed = FALSE /\ vFault = {}

-----------------------------------------------------------------------------
Abs(n) == IF n < 0 THEN -n ELSE n

\* The nearest clock the PLL makes, 0 if none is near enough or the clock
\* asked for is out of bounds.
zz_custom_resolve_clock(c) ==
  LET near == {p \in PllClocks : \A q \in PllClocks : Abs(p - c) <= Abs(q - c)}
  IN IF c \in MinClock .. MaxClock /\ \E p \in near : Abs(p - c) <= Tolerance
     THEN CHOOSE p \in near : TRUE ELSE 0

\* "tiny" is below the smallest mode, "wide" has no preset.
preset_for_dimensions(mode) == PresetClock[mode.size] > 0

matching_preset(mode) ==
  /\ preset_for_dimensions(mode)
  /\ mode.timing = "preset" /\ mode.clock = PresetClock[mode.size]

\* A preset's timing is a valid modeline as well.
to_custom_mode(mode) == mode.size # "tiny" /\ mode.timing # "invalid"

\* [clock programmed, fixed preset or not], clock 0 for a refusal.
plan_core(mode, complete) ==
  LET preset == [clock |-> PresetClock[mode.size], fixed |-> TRUE]
      refused == [clock |-> 0, fixed |-> FALSE]
  IN IF vCustom
     THEN IF matching_preset(mode) THEN preset
          ELSE IF complete /\ ~to_custom_mode(mode) THEN refused
          ELSE [clock |-> zz_custom_resolve_clock(mode.clock), fixed |-> FALSE]
     ELSE IF preset_for_dimensions(mode) THEN preset ELSE refused

-----------------------------------------------------------------------------
\* The user edits a mode in place, while it may be shown.
Edit(m) ==
  /\ \E s \in Sizes, t \in Timings, c \in Clocks :
       vModes' = [vModes EXCEPT ![m] = [size |-> s, timing |-> t, clock |-> c,
                                        resolved |-> FALSE]]
  /\ UNCHANGED <<vCustom, vInfo, vRejected, vSwitch, vScan, vClock, vPan, vWanted,
                 vRearmed, vFault>>

\* Picasso96 stores the clock the card will use in the mode; GetPixelClock
\* answers the same without storing it.
ResolvePixelClock(m) ==
  /\ plan_core(vModes[m], FALSE).clock > 0
  /\ vModes' = [vModes EXCEPT ![m].clock = plan_core(vModes[m], FALSE).clock,
                              ![m].resolved = TRUE]
  /\ UNCHANGED <<vCustom, vInfo, vRejected, vSwitch, vScan, vClock, vPan, vWanted,
                 vRearmed, vFault>>

\* The outcome of SetGC: the guard is armed first and lifted by success only;
\* a refusal keeps the accepted ModeInfo.
Guard(m, ok) ==
  /\ vRejected' = ~ok
  /\ vInfo' = IF ok THEN m ELSE vInfo

\* Program m, or refuse it: for its size, its timing or clock, an unsupported
\* colour format, or because the firmware refuses the modeline.
Program(m) ==
  LET plan == plan_core(vModes[m], TRUE)
  IN \E ok \in BOOLEAN :
       /\ ok => vModes[m].size # "tiny" /\ plan.clock > 0
       /\ Guard(m, ok)
       /\ vScan' = IF ok THEN m ELSE vScan
       /\ vClock' = IF ok THEN plan.clock ELSE vClock
       /\ vFault' = IF ok /\ vModes[m].resolved /\ plan.clock # vModes[m].clock
                    THEN vFault \cup {"clock"} ELSE vFault

SetGC(m) ==
  /\ Program(m)
  /\ vWanted' = m /\ vRearmed' = FALSE
  /\ UNCHANGED <<vCustom, vModes, vSwitch, vPan>>

\* To the native display: the firmware sees the capture area panned to and
\* picks its own mode.
SwitchOff ==
  /\ vSwitch' = FALSE /\ vPan' = "native" /\ vScan' = "native"
  /\ UNCHANGED <<vCustom, vModes, vInfo, vRejected, vClock, vWanted, vRearmed, vFault>>

\* Back to RTG the accepted mode, if there is one, is programmed again.
SwitchOn ==
  /\ vSwitch' = TRUE
  /\ IF vInfo # NoMode
     THEN Program(vInfo) /\ vRearmed' = (vRearmed \/ (vRejected /\ ~vRejected'))
     ELSE UNCHANGED <<vInfo, vRejected, vScan, vClock, vRearmed, vFault>>
  /\ UNCHANGED <<vCustom, vModes, vPan, vWanted>>

\* Picasso96 shows the framebuffer of the screen it last set the mode for,
\* accepted or not.  It is assumed to pan only while its display is shown: the
\* driver does not look at the monitor switch.
SetPanning ==
  /\ vSwitch /\ vWanted # NoMode
  /\ ~vRejected
  /\ vPan' = vWanted
  /\ vFault' = IF vWanted # vScan /\ ~vRearmed THEN vFault \cup {"layout"} ELSE vFault
  /\ UNCHANGED <<vCustom, vModes, vInfo, vRejected, vSwitch, vScan, vClock, vWanted, vRearmed>>

Next ==
  \/ \E m \in ScreenModes : Edit(m) \/ ResolvePixelClock(m) \/ SetGC(m)
  \/ SwitchOff \/ SwitchOn \/ SetPanning

Spec == Init /\ [][Next]_modeVars

-----------------------------------------------------------------------------
\* The clock Picasso96 was told is the clock the mode runs with, and a
\* framebuffer is panned to only in the mode programmed for it: a refused mode
\* never reaches the scanout, unless a monitor switch lifted the guard.
ModeSafe == vFault = {}
=============================================================================
