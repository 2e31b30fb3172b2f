------------------------------ MODULE TopSave ------------------------------
(***************************************************************************)
(* Save, Revert and Quit of ZZTop (ZZTop/Core/app.c, settings.c, audio.c). *)
(* Every setting is a key of ZZ9000.CFG on the card.  ZZTop writes the     *)
(* keys it edited over a fresh read of the file.  Audio lives in firmware  *)
(* RAM and is saved by the firmware, which rewrites the whole file from    *)
(* what it parsed at cold boot: a guard puts the other keys back.          *)
(*                                                                         *)
(* The audio scenes are one value.  A read or a write of the file is one   *)
(* step.  Mailbox requests are answered in order, so the state query that  *)
(* follows an unanswered save request tells whether the save is queued.    *)
(***************************************************************************)
EXTENDS Naturals

CONSTANTS Keys,    \* keys outside the audio block
          Edited   \* those the pages of this session change

Vals == {0, 1}     \* 0: the key is absent

VARIABLES tAlone,   \* no other program saves in this behaviour
          tFile,    \* ZZ9000.CFG: key -> value
          tFileA,   \* its audio block
          tBoot,    \* the firmware's cold-boot parse of the keys
          tFwA,     \* audio in firmware RAM
          tFwSave,  \* the firmware's save_status; "idle" also after a failed one
          tOn,      \* ZZTop runs
          tPc,      \* what it is doing
          tIntent,  \* what the audio save in hand is for
          tSaved,   \* cfg.saved
          tEdit,    \* cfg.edit
          tBefore,  \* guard.before
          tGuard,   \* guard.valid
          tRunning, \* audio_save_running
          tModel,   \* model
          tAnchor,  \* revert_anchor
          tDirtyA,  \* dirty
          tPending, \* save_pending
          tNewer,   \* edit_generation has left save_generation
          tUnconf,  \* save_unconfirmed
          tCal,     \* calibration_pending: the pair awaited, or Unset
          tWant,    \* per key, what a program last saved; Unset: open
          tAstray,  \* the firmware holds a value ZZTop does not know of
          tKept     \* the file holds another audio block than the editor's anchor

Unset == 2

fileVars == <<tFile, tFileA>>
fwVars == <<tBoot, tFwA, tFwSave>>
cfgVars == <<tSaved, tEdit>>
guardVars == <<tBefore, tGuard, tRunning>>
audioVars == <<tModel, tAnchor, tDirtyA, tPending, tNewer, tUnconf, tCal>>
ghostVars == <<tWant, tAstray, tKept>>
topVars == <<tAlone, fileVars, fwVars, tOn, tPc, tIntent, cfgVars, guardVars, audioVars, ghostVars>>

\* cfg.dirty: set and clear keep it the fields in which edit differs from saved.
Dirty == {k \in Keys : tEdit[k] # tSaved[k]}

Defaults == [k \in Keys |-> 0]

TopInit ==
  /\ tAlone \in BOOLEAN
  /\ tFile = Defaults /\ tFileA = 0
  /\ tBoot = tFile /\ tFwA = 0 /\ tFwSave = "idle"
  /\ tOn = FALSE /\ tPc = "idle" /\ tIntent = "save"
  /\ tSaved = Defaults /\ tEdit = Defaults
  /\ tBefore = Defaults /\ tGuard = FALSE /\ tRunning = FALSE
  /\ tModel = 0 /\ tAnchor = 0 /\ tDirtyA = FALSE /\ tPending = FALSE /\ tNewer = FALSE
  /\ tUnconf = FALSE /\ tCal = Unset
  /\ tWant = tFile /\ tAstray = FALSE /\ tKept = FALSE

-----------------------------------------------------------------------------
\* settings_load: a failed read leaves the defaults, every key absent.
settings_load(file, ok) ==
  /\ tSaved' = IF ok THEN file ELSE Defaults
  /\ tEdit' = tSaved'

audio_clear_edits == tDirtyA' = FALSE /\ tPending' = FALSE

\* main, audio_init: the live state wins over the file for the levels, but the
\* firmware does not tell its scenes.
Start ==
  /\ ~tOn /\ tOn' = TRUE
  /\ \E ok \in BOOLEAN : settings_load(tFile, ok)
  /\ tModel' \in {tFwA, tFileA} /\ tAnchor' = tModel' /\ audio_clear_edits
  /\ tNewer' = FALSE /\ tUnconf' = FALSE /\ tCal' = Unset
  /\ tKept' = (tFileA # tFwA) /\ tAstray' = (tModel' # tFwA)
  /\ UNCHANGED <<fileVars, fwVars, tPc, tIntent, guardVars, tWant>>

-----------------------------------------------------------------------------
\* settings_set, settings_clear
SetKey ==
  /\ tOn /\ tPc = "idle"
  /\ \E k \in Edited, x \in Vals : tEdit' = [tEdit EXCEPT ![k] = x]
  /\ UNCHANGED <<fileVars, fwVars, tOn, tPc, tIntent, tSaved, guardVars, audioVars, ghostVars>>

\* The generations matter only while a save is pending.
audio_mark_dirty == tDirtyA' = TRUE /\ tNewer' = tPending

\* A live audio write.  A timeout counts as accepted; after an error the old
\* value is sent again.
AudioAccepted(x) ==
  tFwA' = x /\ tModel' = x /\ audio_mark_dirty /\ UNCHANGED tAstray

\* audio_set_scene_value: if the old value does not arrive either, the new one
\* is recorded as an edit.
RollbackRecorded(x) == tFwA' \in {tFwA, x} /\ tModel' = x /\ audio_mark_dirty
                       /\ tAstray' = (tAstray \/ tFwA' # x)

\* audio_set_baseline, audio_rename_scene do not look whether it arrived.
RollbackIgnored(x) == tFwA' \in {tFwA, x} /\ tAstray' = (tAstray \/ tFwA' # tModel)
                      /\ UNCHANGED <<tModel, tDirtyA, tNewer>>

\* audio_set_scene_value, audio_set_baseline, audio_rename_scene,
\* audio_select_scene.  Bound: writes fail, and calibrations are started, only
\* while no other program saves.
SetAudio ==
  /\ tOn /\ tPc = "idle" /\ tCal = Unset
  /\ \E x \in Vals : AudioAccepted(x) \/ (tAlone /\ (RollbackRecorded(x) \/ RollbackIgnored(x)))
  /\ UNCHANGED <<fileVars, tBoot, tFwSave, tOn, tPc, tIntent, cfgVars, guardVars, tAnchor,
                 tPending, tUnconf, tCal, tWant, tKept>>

\* audio_set_calibration: the editor follows only when the firmware shows the pair.
SetCalibration ==
  /\ tAlone /\ tOn /\ tPc = "idle" /\ tCal = Unset
  /\ \E x \in Vals \ {tModel} : tCal' = x
  /\ audio_mark_dirty
  /\ UNCHANGED <<fileVars, fwVars, tOn, tPc, tIntent, cfgVars, guardVars, tModel, tAnchor,
                 tPending, tUnconf, ghostVars>>

Calibrates ==
  /\ tOn /\ tCal # Unset /\ tFwA # tCal /\ tFwA' = tCal
  /\ UNCHANGED <<fileVars, tBoot, tFwSave, tOn, tPc, tIntent, cfgVars, guardVars, audioVars,
                 ghostVars>>

audio_tick ==
  /\ tOn /\ tPc = "idle" /\ tCal # Unset
  /\ tModel' = tFwA
  /\ tCal' = IF tFwA = tCal THEN Unset ELSE tCal
  /\ UNCHANGED <<fileVars, fwVars, tOn, tPc, tIntent, cfgVars, guardVars, tAnchor, tDirtyA,
                 tPending, tNewer, tUnconf, ghostVars>>

-----------------------------------------------------------------------------
AudioOwed == tDirtyA \/ tPending \/ tRunning \/ tGuard

\* The snapshot of the file, dropped again when the save does not start.
settings_guard_begin(starts) ==
  tGuard' = starts /\ tBefore' = IF starts THEN tFile ELSE tBefore

\* audio_save_start: the request is queued, or no reply comes and it may be, or
\* it is refused.
save_audio_starts(intent) ==
  /\ ~tRunning /\ ~tGuard /\ tCal = Unset
  /\ tIntent' = intent
  /\ \E reply \in {"queued", "timeout", "refused"} :
       /\ settings_guard_begin(reply # "refused") /\ tRunning' = (reply # "refused")
       /\ tPending' = (tPending \/ reply # "refused")
       /\ tNewer' = (tNewer /\ reply = "refused")
       /\ tUnconf' = IF reply = "refused" THEN tUnconf ELSE reply = "timeout"
       /\ tFwSave' \in (IF reply = "queued" THEN {"queued"}
                        ELSE IF reply = "timeout" THEN {"queued", tFwSave} ELSE {tFwSave})
       /\ tPc' = IF reply = "refused" THEN "idle" ELSE "poll"
  /\ UNCHANGED <<fileVars, tBoot, tFwA, tOn, cfgVars, tModel, tAnchor, tDirtyA, tCal, ghostVars>>

\* A later Save, Revert or Quit resumes the transaction.
save_audio_resumes(intent) ==
  /\ tRunning \/ tGuard
  /\ tIntent' = intent /\ tPc' = IF tRunning THEN "poll" ELSE "repair"
  /\ UNCHANGED <<fileVars, fwVars, tOn, cfgVars, guardVars, audioVars, ghostVars>>

\* audio_save_poll settles the save: it counts as failed unless it was
\* confirmed, succeeded and nothing was edited since.
Settles ==
  /\ tPending' = FALSE /\ tRunning' = FALSE /\ tUnconf' = FALSE /\ tNewer' = FALSE
  /\ LET done == ~tUnconf /\ tFwSave = "ok" /\ ~tNewer
     IN /\ tAnchor' = IF done THEN tModel ELSE tAnchor
        /\ tDirtyA' = (tDirtyA /\ ~done)
        /\ tKept' = IF done THEN FALSE ELSE (tKept \/ tFileA # tAnchor)
        /\ tIntent' = IF done THEN tIntent ELSE "failed"
  /\ tPc' = "repair"

\* The wait ends with the save still running: Save has to be pressed again.
audio_save_poll ==
  /\ tPc = "poll"
  /\ \/ /\ tPc' = "idle" /\ tIntent' = "save" /\ UNCHANGED <<guardVars, audioVars, tKept>>
     \/ /\ tPending /\ tFwSave # "queued" /\ Settles
        /\ UNCHANGED <<tBefore, tGuard, tModel, tCal>>
  /\ UNCHANGED <<fileVars, fwVars, tOn, cfgVars, tWant, tAstray>>

\* settings_guard_end: the snapshot's keys under the audio block just written.
Repaired == tFile' = tBefore /\ UNCHANGED tFileA

\* guard_end may fail to read or to write; then the snapshot is kept.
settings_guard_end ==
  /\ tPc = "repair"
  /\ \/ tGuard' = FALSE /\ tBefore' = Defaults /\ Repaired
        /\ tPc' = IF tIntent \in {"save", "revert"} THEN tIntent ELSE "idle"
     \/ UNCHANGED <<fileVars, tGuard, tBefore>> /\ tPc' = "idle"
  /\ tIntent' = "save"
  /\ UNCHANGED <<fwVars, tOn, cfgVars, tRunning, audioVars, ghostVars>>

-----------------------------------------------------------------------------
\* app_save: audio first, then the keys.
app_save ==
  /\ tOn /\ tPc = "idle"
  /\ IF AudioOwed THEN save_audio_starts("save") \/ save_audio_resumes("save")
     ELSE /\ Dirty # {} /\ tPc' = "save"
          /\ UNCHANGED <<fileVars, fwVars, tOn, tIntent, cfgVars, guardVars, audioVars, ghostVars>>

\* Everything the editor shows is written, edited or not.
MergedAll == tEdit

\* settings_save: the edited keys over a fresh read.
Merged == [k \in Keys |-> IF k \in Dirty THEN tEdit[k] ELSE tFile[k]]

\* A failed write keeps the edits; whether the file was replaced is open.
settings_save ==
  /\ tPc = "save" /\ tPc' = "idle"
  /\ \/ /\ Dirty # {} /\ tFile' = Merged
        /\ tWant' = [k \in Keys |-> IF k \in Dirty THEN tEdit[k] ELSE tWant[k]]
        /\ (\E ok \in BOOLEAN : settings_load(Merged, ok)) \/ UNCHANGED cfgVars
     \/ Dirty = {} /\ (\E ok \in BOOLEAN : settings_load(tFile, ok)) /\ UNCHANGED <<tFile, tWant>>
     \/ Dirty # {} /\ UNCHANGED <<tFile, tWant, cfgVars>>
  /\ UNCHANGED <<tFileA, fwVars, tOn, tIntent, guardVars, audioVars, tAstray, tKept>>

\* app_revert: an outstanding save is settled first.
app_revert ==
  /\ tOn /\ tPc = "idle"
  /\ IF tRunning \/ tGuard THEN save_audio_resumes("revert")
     ELSE /\ tPc' = "revert"
          /\ UNCHANGED <<fileVars, fwVars, tOn, tIntent, cfgVars, guardVars, audioVars, ghostVars>>

\* audio_revert sends back what was edited, in several writes, and gives up at
\* the first that fails; then everything is read again.
audio_revert ==
  /\ tPc = "revert" /\ tPc' = "idle"
  /\ \/ tDirtyA /\ UNCHANGED <<tFwA, cfgVars, audioVars>>
     \/ /\ tDirtyA /\ tFwA' = tAnchor /\ tModel' = tAnchor
        /\ UNCHANGED <<cfgVars, tAnchor, tDirtyA, tPending, tNewer, tUnconf, tCal>>
     \/ /\ IF tDirtyA THEN tFwA' = tAnchor ELSE UNCHANGED tFwA
        /\ tModel' = IF tDirtyA THEN tAnchor ELSE tModel
        /\ audio_clear_edits
        /\ tCal' = IF tDirtyA THEN Unset ELSE tCal
        /\ \E ok \in BOOLEAN : settings_load(tFile, ok)
        /\ UNCHANGED <<tAnchor, tNewer, tUnconf>>
  /\ UNCHANGED <<fileVars, tBoot, tFwSave, tOn, tIntent, guardVars, ghostVars>>

\* app_quit_allowed: with a repair owed it takes "Quit anyway"; a crash asks nobody.
Quit ==
  /\ tOn /\ tOn' = FALSE /\ tPc' = "idle" /\ tIntent' = "save"
  /\ tWant' = IF tGuard THEN [k \in Keys |-> Unset] ELSE tWant
  /\ tSaved' = Defaults /\ tEdit' = Defaults
  /\ tBefore' = Defaults /\ tGuard' = FALSE /\ tRunning' = FALSE
  /\ tModel' = 0 /\ tAnchor' = 0 /\ audio_clear_edits /\ tNewer' = FALSE /\ tUnconf' = FALSE
  /\ tCal' = Unset /\ tAstray' = FALSE /\ tKept' = FALSE
  /\ UNCHANGED <<fileVars, fwVars>>

-----------------------------------------------------------------------------
\* The firmware's save: the file from its cold-boot parse and its RAM.  One that
\* fails may have replaced the file too.  One whose ZZTop has quit is unguarded.
FirmwareSaves ==
  /\ tFwSave = "queued"
  /\ \/ tFwSave' = "ok" /\ tFile' = tBoot /\ tFileA' = tFwA
     \/ tFwSave' = "idle" /\ UNCHANGED fileVars
     \/ tFwSave' = "idle" /\ tFile' = tBoot /\ tFileA' = tFwA
  /\ tWant' = IF tGuard THEN tWant ELSE [k \in Keys |-> Unset]
  /\ tKept' = (tKept \/ ~tGuard)
  /\ UNCHANGED <<tBoot, tFwA, tOn, tPc, tIntent, cfgVars, guardVars, audioVars, tAstray>>

\* Another program saves a key of its own (ZZCapture, an editor; bound: the
\* value 1).  Inside a guard it is lost to the repair.
OtherSaves ==
  /\ ~tAlone /\ tFwSave # "queued"
  /\ \E k \in Keys \ Edited :
       /\ tFile' = [tFile EXCEPT ![k] = 1]
       /\ tWant' = [tWant EXCEPT ![k] = IF tGuard THEN Unset ELSE 1]
  /\ UNCHANGED <<tFileA, fwVars, tOn, tPc, tIntent, cfgVars, guardVars, audioVars, tAstray, tKept>>

PowerCycle ==
  /\ ~tOn /\ tFwSave # "queued"
  /\ tBoot' = tFile /\ tFwA' = tFileA /\ tFwSave' = "idle" /\ tWant' = tFile
  /\ UNCHANGED <<fileVars, tOn, tPc, tIntent, cfgVars, guardVars, audioVars, tAstray, tKept>>

-----------------------------------------------------------------------------
TopStep ==
  \/ Start \/ SetKey \/ SetAudio \/ SetCalibration \/ Calibrates \/ audio_tick
  \/ audio_save_poll \/ settings_guard_end \/ app_save \/ settings_save
  \/ app_revert \/ audio_revert \/ Quit
  \/ FirmwareSaves \/ OtherSaves \/ PowerCycle

TopNext == TopStep /\ UNCHANGED tAlone

TopSpec == TopInit /\ [][TopNext]_topVars

-----------------------------------------------------------------------------
Settled == tPc = "idle" /\ ~tGuard

\* Between saves the file holds, for every key, what a program last saved,
\* whatever the firmware's audio save put back (not a key another program saved
\* inside the guard: the repair undoes that); and when the editor has no audio
\* change pending, the firmware plays what the editor shows and the file holds
\* it, unless a save that ZZTop reported as failed had reached the file.
SettingsSafe ==
  /\ Settled => \A k \in Keys : tWant[k] \in {Unset, tFile[k]}
  /\ tOn /\ Settled /\ ~tDirtyA /\ tCal = Unset /\ ~tAstray =>
       tFwA = tModel /\ (tKept \/ tFileA = tModel)
=============================================================================
