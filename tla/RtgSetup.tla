------------------------------ MODULE RtgSetup ------------------------------
(***************************************************************************)
(* FindCard and InitCard of the Picasso96 driver: the Zorro II aperture,   *)
(* the settings from ENV:, from ZZ9000.CFG and from tooltypes, and the     *)
(* hooks they enable.                                                      *)
(***************************************************************************)
EXTENDS Integers

VARIABLES sBus, sAperture,       \* what the board is
          sFw,                   \* its firmware is new enough (2.9.0)
          sCaps,                 \* centred capture modes the firmware has
          sAt,                   \* "off", "found", "ready", "failed"
          sMode, sSync, sOff, sPip, \* the settings in CardData
          sCardMode, sCardSync,  \* what the card was told, and
          sSyncLast,             \* the sync setting was told last
          sHooks, sAcked         \* hooks installed; the aperture acknowledged

setupVars == <<sBus, sAperture, sFw, sCaps, sAt, sMode, sSync, sOff, sPip, sCardMode, sCardSync,
               sSyncLast, sHooks, sAcked>>

Centered == {"c60", "c50", "match"}
Modes == {"pal", "800"} \cup Centered

Init ==
  /\ sBus \in {"z2", "z3"} /\ sFw \in BOOLEAN
  /\ sAperture \in {"legacy", "valid", "nopip", "invalid", "unconfirmed"}
  /\ sCaps \in SUBSET Centered
  /\ sAt = "off" /\ sMode = "800" /\ sSync = 0 /\ sOff = TRUE /\ sPip = TRUE
  /\ sCardMode = "800" /\ sCardSync = 0 /\ sSyncLast = FALSE
  /\ sHooks = {} /\ sAcked = FALSE

-----------------------------------------------------------------------------
\* A centred mode needs its own capability bit and those of the simpler ones.
zz_vcap_mode_sanitize(mode) ==
  CASE mode = "pal" -> "pal"
    [] mode = "c60" /\ "c60" \in sCaps -> "c60"
    [] mode = "c50" /\ {"c60", "c50"} \subseteq sCaps -> "c50"
    [] mode = "match" /\ Centered \subseteq sCaps -> "match"
    [] OTHER -> "800"

\* The mode is told to the card, then the sync setting unless the mode is a
\* centred one: the firmware leaves a centred mode when it is told one.
Told(mode, sync) ==
  /\ sMode' = mode /\ sSync' = sync
  /\ sCardMode' = mode
  /\ sCardSync' = IF mode \in Centered THEN sCardSync ELSE sync
  /\ sSyncLast' = (mode \notin Centered)

\* The variable in ENV: (which can ask for 800x600 only) wins over ZZ9000.CFG,
\* which wins over the default.
FirstMode(env, cfg) == IF env \/ cfg = "none" THEN "800" ELSE zz_vcap_mode_sanitize(cfg)

\* A descriptor that is wrong, or was read differently twice.
BadAperture == sBus = "z2" /\ sAperture \in {"invalid", "unconfirmed"}

\* A sync variable in ENV: selects the 800x600 mode as well.
FindCard ==
  /\ sAt = "off"
  /\ sFw /\ ~BadAperture
  /\ \E envMode \in BOOLEAN, cfgMode \in {"none"} \cup Modes,
        envSync \in {0, 1, 2}, cfgSync \in {0, 2}, off, pip \in BOOLEAN :
       /\ Told(IF envSync > 0 THEN "800" ELSE FirstMode(envMode, cfgMode),
               IF envSync > 0 THEN envSync ELSE cfgSync)
       /\ sOff' = off /\ sPip' = pip
  /\ sAcked' = (sBus = "z2" /\ sAperture \in {"valid", "nopip"})
  /\ sAt' = "found"
  /\ UNCHANGED <<sBus, sAperture, sFw, sCaps, sHooks>>

\* A bad aperture descriptor is not acknowledged and the board not used, nor
\* is one with old firmware.
FindCardFails ==
  /\ sAt = "off" /\ (~sFw \/ BadAperture)
  /\ sAt' = "failed"
  /\ UNCHANGED <<sBus, sAperture, sFw, sCaps, sMode, sSync, sOff, sPip, sCardMode, sCardSync,
                 sSyncLast, sHooks, sAcked>>

\* Bitmaps in card memory on Zorro III; a bounded overlay source on Zorro II
\* with a negotiated aperture that has room for it.
Hooks(off, pip) ==
  LET bitmaps == off /\ sBus = "z3"
      z2Ready == sBus = "z2" /\ sAperture = "valid"
      overlay == pip /\ (bitmaps \/ z2Ready)
  IN (IF bitmaps \/ (overlay /\ z2Ready) THEN {"bitmaps"} ELSE {})
     \cup (IF overlay THEN {"overlay"} ELSE {})

\* A tooltype wins over the settings found; an explicit sync tooltype turns a
\* centred mode into 800x600.
apply_card_settings(toolMode, toolSync) ==
  LET mode == zz_vcap_mode_sanitize(IF toolMode # "none" THEN toolMode ELSE sMode)
  IN Told(IF mode \in Centered /\ toolSync >= 0 THEN "800" ELSE mode,
          IF toolSync >= 0 THEN toolSync ELSE sSync)

InitCard ==
  /\ sAt = "found" /\ sAt' = "ready"
  /\ \E toolMode \in {"none"} \cup Modes, toolSync \in {-1, 0, 2} :
       apply_card_settings(toolMode, toolSync)
  /\ \E off \in {sOff, TRUE, FALSE}, pip \in {sPip, TRUE, FALSE} :
       sOff' = off /\ sPip' = pip /\ sHooks' = Hooks(off, pip)
  /\ UNCHANGED <<sBus, sAperture, sFw, sCaps, sAcked>>

Next == FindCard \/ FindCardFails \/ InitCard

Spec == Init /\ [][Next]_setupVars

-----------------------------------------------------------------------------
\* Whatever ENV:, ZZ9000.CFG and the tooltypes say, the card is never told a
\* mode its firmware would run as another, a centred mode is never undone by a
\* sync setting, the overlay has bitmaps to allocate its source from, and an
\* acknowledged aperture is one the driver uses.
SetupSafe ==
  /\ sCardMode = zz_vcap_mode_sanitize(sCardMode)
  /\ sCardMode \in Centered => ~sSyncLast
  /\ sAt = "ready" /\ sCardMode \notin Centered => sCardSync = sSync
  /\ "overlay" \in sHooks => "bitmaps" \in sHooks
  /\ sAcked => sAt \in {"found", "ready"} /\ sBus = "z2"
=============================================================================
