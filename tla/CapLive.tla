------------------------------ MODULE CapLive ------------------------------
(***************************************************************************)
(* ZZTop's live native-video controls (ZZTop/Core/video.c over             *)
(* common/zz_vcap_client.c and zz_vcap_geometry.c).  A control is changed  *)
(* on the running card, marked touched, and staged for Save once the card  *)
(* acknowledged it; a request that is cancelled or times out may still be  *)
(* applied later.  Save checks that what is touched is what the card runs, *)
(* Revert puts back the values of before the edits.                        *)
(*                                                                         *)
(* Three controls: "crop", whose word also carries the sample mode, and    *)
(* two fine ones a card may have, the phase and the capture window.  Value *)
(* 0 is Automatic.  The width of the running capture path is that of       *)
(* profile 0.  Bounds: sample modes and output profiles vary on a card     *)
(* without fine controls; with both of them nobody else writes a control;  *)
(* there are at most MaxEdits requests.                                    *)
(***************************************************************************)
EXTENDS Naturals, Sequences

CONSTANT MaxEdits

VARIABLES cFines,   \* the fine controls the card has
          cPc,      \* "idle", "saving" (save_check passed), "reverted"
          cLive,    \* control -> the applied word
          cLate,    \* control -> an unacknowledged request, or None
          cAnchor,  \* *_anchor, None: not valid
          cTouched, \* *_touched
          cSure,    \* *_confirmed
          cTarget,  \* *_target, None: not valid
          cStage,   \* cfg.edit: profile, sample and the controls
          cBase,    \* the word before the first touch; None: untouched
          cExcused, \* another program wrote the control, or it had no anchor when first touched
          cUnstaged,\* history: the value last acknowledged is not the staged one
          cForeign, \* history: controls another program wrote while Save writes
          cEdits   \* bound: requests so far

Fine == {"phase", "window"}
Controls == {"crop"} \cup Fine
Vals == {0, 1}
None == <<>>

Paths == IF cFines = {} THEN Vals ELSE {0}

\* zz_vcap_control_pack: sample mode and crop in one word
CropWord(sample, crop) == <<sample, crop>>

capVars == <<cFines, cPc, cLive, cLate, cAnchor, cTouched, cSure, cTarget, cStage, cBase, cExcused,
             cUnstaged, cForeign, cEdits>>

-----------------------------------------------------------------------------
Busy(c) == cLate[c] # None

\* refresh_live: a coherent snapshot; anchors not yet taken are taken now.  A
\* phase is an anchor only while its clock is qualified.
Anchors(ok) ==
  {[c \in Controls |-> IF c \in take THEN cLive[c] ELSE cAnchor[c]] :
     take \in {s \in SUBSET {d \in {"crop"} \cup cFines : cAnchor[d] = None /\ ~Busy(d)} :
                 /\ ok /\ cAnchor.crop = None => "crop" \in s
                 /\ s \subseteq IF ok THEN Controls ELSE {"phase"}}}

refresh_live(ok) == (ok => ~Busy("crop")) /\ cAnchor' \in Anchors(ok)

\* video_init: the controls start untouched, their anchors as they can be read.
video_init(anchors) ==
  /\ cAnchor' \in anchors
  /\ cTouched' = [c \in Controls |-> FALSE] /\ cSure' = [c \in Controls |-> FALSE]
  /\ cTarget' = [c \in Controls |-> None]
  /\ cBase' = [c \in Controls |-> None] /\ cExcused' = [c \in Controls |-> FALSE]
  /\ cUnstaged' = [c \in Controls |-> FALSE]

Init ==
  /\ cFines \in SUBSET Fine /\ cPc = "idle" /\ cEdits = 0
  /\ cLive = [c \in Controls |-> IF c = "crop" THEN CropWord(0, 0) ELSE <<0>>]
  /\ cLate = [c \in Controls |-> None]
  /\ \E f \in SUBSET cFines :
       cAnchor = [c \in Controls |-> IF c = "crop" \/ c \in f THEN cLive[c] ELSE None]
  /\ cTouched = [c \in Controls |-> FALSE] /\ cSure = [c \in Controls |-> FALSE]
  /\ cTarget = [c \in Controls |-> None]
  /\ cStage = [profile |-> 0, sample |-> 0, crop |-> 0, phase |-> 0, window |-> 0]
  /\ cBase = [c \in Controls |-> None] /\ cExcused = [c \in Controls |-> FALSE]
  /\ cUnstaged = [c \in Controls |-> FALSE] /\ cForeign = {}

-----------------------------------------------------------------------------
\* A request may be made: crop and phase wait for the one before, a new window
\* request supersedes it.
Free(c) == ~Busy(c) \/ c = "window"

\* apply_raw, zz_vcap_phase_apply, zz_vcap_geometry_apply: acknowledged with the
\* word asked for, or given up before or after the request was written.
\* reqs maps each control asked for to <<word, outcome>>.
Applied(reqs) ==
  /\ cEdits' = cEdits + 1 /\ cEdits' <= MaxEdits /\ UNCHANGED cForeign
  /\ \A c \in DOMAIN reqs : reqs[c][2] # "refused" => Free(c)
  /\ cLive' = [c \in Controls |->
       IF c \in DOMAIN reqs /\ reqs[c][2] = "ok" THEN reqs[c][1] ELSE cLive[c]]
  /\ cLate' = [c \in Controls |->
       CASE c \notin DOMAIN reqs -> cLate[c]
         [] reqs[c][2] = "ok" -> None
         [] reqs[c][2] = "lost" -> reqs[c][1]
         [] reqs[c][2] = "refused" -> cLate[c]]

\* touched, and confirmed when the request was acknowledged
Touch(reqs) ==
  /\ Applied(reqs)
  /\ cTouched' = [c \in Controls |-> cTouched[c] \/ c \in DOMAIN reqs]
  /\ cSure' = [c \in Controls |-> IF c \in DOMAIN reqs THEN reqs[c][2] = "ok" ELSE cSure[c]]
  /\ cTarget' = [c \in Controls |-> IF c \in DOMAIN reqs THEN reqs[c][1] ELSE cTarget[c]]
  /\ cBase' = [c \in Controls |->
       IF c \in DOMAIN reqs /\ cBase[c] = None THEN cLive[c] ELSE cBase[c]]
  /\ cExcused' = [c \in Controls |->
       cExcused[c] \/ (c \in DOMAIN reqs /\ cBase[c] = None /\ cAnchor'[c] = None)]

Outcomes == {"ok", "lost", "refused"}
Failures == Outcomes \ {"ok"}

\* The requests of one control; those of a reset, as far as it came.
Asks(c, word, r) == [d \in {c} |-> <<word, r>>]

\* An acknowledged value was staged, or left unstaged.
Staged(c) == cUnstaged' = [cUnstaged EXCEPT ![c] = FALSE]

\* path_for, video_current_path_matches
PathMatches(stage, word) == stage.profile = 0 /\ stage.sample = word[1]

video_set_crop ==
  /\ cPc = "idle" /\ refresh_live(TRUE) /\ PathMatches(cStage, cLive.crop)
  /\ \E v \in Vals, r \in Outcomes :
       /\ Touch(Asks("crop", CropWord(cLive.crop[1], v), r))
       /\ IF r = "ok" THEN Staged("crop") /\ cStage' = [cStage EXCEPT !.crop = v]
          ELSE UNCHANGED <<cUnstaged, cStage>>
  /\ UNCHANGED <<cFines, cPc>>

\* A staged output with another capture width: the sample is staged with it.
\* A request carries the crop the card has along, staged or not.
video_set_sample ==
  /\ cPc = "idle" /\ refresh_live(TRUE)
  /\ \E s \in Paths :
       \/ /\ cStage.profile # 0 /\ cStage' = [cStage EXCEPT !.sample = s]
          /\ UNCHANGED <<cLive, cLate, cTouched, cSure, cTarget, cBase, cExcused, cUnstaged>>
          /\ UNCHANGED <<cForeign, cEdits>>
       \/ /\ cStage.profile = 0
          /\ \E r \in Outcomes :
               /\ Touch(Asks("crop", CropWord(s, cLive.crop[2]), r))
               /\ IF r = "ok"
                  THEN /\ cStage' = [cStage EXCEPT !.sample = s]
                       /\ cUnstaged' = [cUnstaged EXCEPT !.crop = cLive.crop[2] # cStage.crop]
                  ELSE UNCHANGED <<cUnstaged, cStage>>
  /\ UNCHANGED <<cFines, cPc>>

\* video_set_phase, video_set_geometry: no snapshot is taken first.
SetFine(c) ==
  /\ cPc = "idle" /\ c \in cFines /\ UNCHANGED cAnchor
  /\ \E v \in Vals, r \in Outcomes :
       /\ Touch(Asks(c, <<v>>, r))
       /\ IF r = "ok" THEN Staged(c) /\ cStage' = [cStage EXCEPT ![c] = v]
          ELSE UNCHANGED <<cUnstaged, cStage>>
  /\ UNCHANGED <<cFines, cPc>>

video_set_phase == SetFine("phase")
video_set_geometry == SetFine("window")

\* A framing preview belongs to the old capture grid.
PreviewInTheWay(profile) == cTouched.crop /\ profile # cStage.profile

video_set_profile ==
  /\ cPc = "idle" /\ UNCHANGED cAnchor
  /\ \E p \in Paths :
       /\ IF PreviewInTheWay(p)
          THEN /\ cAnchor.crop # None /\ Applied(Asks("crop", cAnchor.crop, "ok"))
               /\ cTouched' = [cTouched EXCEPT !.crop = FALSE]
               /\ cSure' = [cSure EXCEPT !.crop = FALSE]
               /\ cTarget' = [cTarget EXCEPT !.crop = None]
               /\ cBase' = [cBase EXCEPT !.crop = None]
          ELSE UNCHANGED <<cLive, cLate, cTouched, cSure, cTarget, cBase, cForeign, cEdits>>
       /\ cStage' = [cStage EXCEPT !.profile = p, !.crop = IF p # cStage.profile THEN 0 ELSE @]
  /\ UNCHANGED <<cFines, cPc, cExcused, cUnstaged>>

\* The steps of a reset, in order.
ResetSteps == IF "phase" \in cFines THEN <<"crop", "phase", "window">> ELSE <<"crop", "window">>

Automatic(c) == IF c = "crop" THEN CropWord(cLive.crop[1], 0) ELSE <<0>>

\* Crop, then the phase, then the window: the first that is not acknowledged
\* ends the reset, and nothing is staged unless all are.
video_reset_automatic ==
  /\ cPc = "idle" /\ "window" \in cFines /\ refresh_live(TRUE)
  /\ \/ /\ Touch([c \in {"crop"} \cup cFines |-> <<Automatic(c), "ok">>])
        /\ cStage' = [cStage EXCEPT !.crop = 0, !.phase = 0, !.window = 0]
        /\ cUnstaged' = [c \in Controls |-> FALSE]
     \/ \E i \in DOMAIN ResetSteps, r \in Failures :
          LET done == {ResetSteps[j] : j \in 1 .. i - 1}
          IN /\ Touch([c \in done \cup {ResetSteps[i]} |->
                         <<Automatic(c), IF c \in done THEN "ok" ELSE r>>])
             /\ cUnstaged' = [c \in Controls |-> IF c \in done THEN cStage[c] # 0 ELSE cUnstaged[c]]
             /\ UNCHANGED cStage
  /\ UNCHANGED <<cFines, cPc>>

\* video_align: accepted with a framing, or left with its state unknown (the
\* cancelled editor has put the entry framing back).
video_align ==
  /\ cPc = "idle" /\ refresh_live(TRUE) /\ PathMatches(cStage, cLive.crop)
  /\ \E v \in Vals :
       \/ /\ Touch(Asks("crop", CropWord(cLive.crop[1], v), "ok"))
          /\ cStage' = [cStage EXCEPT !.crop = v] /\ Staged("crop")
       \/ /\ Touch(Asks("crop", CropWord(cLive.crop[1], v), "lost"))
          /\ UNCHANGED <<cStage, cUnstaged>>
  /\ UNCHANGED <<cFines, cPc>>

\* video_find_phase whose sweep could not restore the phase; one that succeeds
\* ends in video_set_phase.
FindPhaseLoses ==
  /\ cPc = "idle" /\ "phase" \in cFines /\ refresh_live(TRUE)
  /\ \E v \in Vals : Touch(Asks("phase", <<v>>, "lost"))
  /\ UNCHANGED <<cFines, cPc, cStage, cUnstaged>>

\* video_snapshot, video_align_ready, video_find_phase_ready: a page looks.
Look ==
  /\ cPc = "idle" /\ \E ok \in BOOLEAN : refresh_live(ok)
  /\ UNCHANGED <<cFines, cPc, cLive, cLate, cTouched, cSure, cTarget, cStage, cBase, cExcused,
                 cUnstaged, cForeign, cEdits>>

-----------------------------------------------------------------------------
\* The words are compared, but not whether they were acknowledged.
ComparesOnly(c) == ~Busy(c) /\ cLive[c] = cTarget[c]

\* Per control: confirmed, at rest, and still the word asked for.
Confirmed(c) == cSure[c] /\ cTarget[c] # None /\ ~Busy(c) /\ cLive[c] = cTarget[c]

\* app_save asks video_save_check before anything is written.
video_save_check ==
  /\ cPc = "idle" /\ \A c \in Controls : cTouched[c] => Confirmed(c)
  /\ cTouched.crop => PathMatches(cStage, cLive.crop)
  /\ cAnchor' \in {cAnchor} \union Anchors(~Busy("crop"))
  /\ cPc' = "saving"
  /\ UNCHANGED <<cFines, cLive, cLate, cTouched, cSure, cTarget, cStage, cBase, cExcused, cUnstaged,
                 cForeign, cEdits>>

\* video_saved: the controls that read back confirmed become the new anchors;
\* none does when the write failed or no key had changed.  (confirmed is not
\* read again before the control is touched again.)
video_saved ==
  /\ cPc = "saving" /\ cPc' = "idle"
  /\ \E kept \in SUBSET {c \in Controls : cTouched[c] /\ Confirmed(c)} :
       /\ cAnchor' = [c \in Controls |-> IF c \in kept THEN cLive[c] ELSE cAnchor[c]]
       /\ cTouched' = [c \in Controls |-> cTouched[c] /\ c \notin kept]
       /\ cTarget' = [c \in Controls |-> IF c \in kept THEN None ELSE cTarget[c]]
       /\ cBase' = [c \in Controls |-> IF c \in kept THEN None ELSE cBase[c]]
       /\ cExcused' = [c \in Controls |-> cExcused[c] /\ c \notin kept]
       /\ cSure' = [c \in Controls |-> cSure[c] /\ c \notin kept]
  /\ cForeign' = {} /\ UNCHANGED <<cFines, cLive, cLate, cStage, cUnstaged, cEdits>>

\* video_revert: every touched control is asked for its anchor.
video_revert ==
  /\ cPc = "idle" /\ \A c \in Controls : cTouched[c] => cAnchor[c] # None
  /\ Applied([c \in {d \in Controls : cTouched[d]} |-> <<cAnchor[c], "ok">>])
  /\ cPc' = "reverted"
  /\ cTouched' = [c \in Controls |-> FALSE] /\ cSure' = [c \in Controls |-> FALSE]
  /\ cTarget' = [c \in Controls |-> None]
  /\ UNCHANGED <<cFines, cAnchor, cStage, cBase, cExcused, cUnstaged>>

\* Crop first, then the phase, then the window, as far as it goes; touched stays.
RevertSteps == SelectSeq(<<"crop", "phase", "window">>, LAMBDA c : cTouched[c])

RevertFails ==
  /\ cPc = "idle"
  /\ \E i \in DOMAIN RevertSteps :
       LET done == {RevertSteps[j] : j \in 1 .. i - 1}
       IN /\ \A c \in done : cAnchor[c] # None
          /\ IF cAnchor[RevertSteps[i]] = None
             THEN Applied([c \in done |-> <<cAnchor[c], "ok">>])
             ELSE \E r \in Failures :
                    Applied([c \in done \cup {RevertSteps[i]} |->
                               <<cAnchor[c], IF c \in done THEN "ok" ELSE r>>])
  /\ UNCHANGED <<cFines, cPc, cAnchor, cTouched, cSure, cTarget, cStage, cBase, cExcused,
                 cUnstaged>>

\* app_revert reads the keys again, whatever the file holds by now, and starts
\* over with video_init.
ReloadAfterRevert ==
  /\ cPc = "reverted" /\ cPc' = "idle"
  /\ \E p, m \in Paths, v \in Vals, ph, win \in Vals :
       /\ (ph = 0 \/ "phase" \in cFines) /\ (win = 0 \/ "window" \in cFines)
       /\ cStage' = [profile |-> p, sample |-> m, crop |-> v, phase |-> ph, window |-> win]
  /\ video_init({[c \in Controls |-> IF c = "crop" \/ c \in f THEN cLive[c] ELSE None] :
                   f \in SUBSET cFines})
  /\ UNCHANGED <<cFines, cLive, cLate, cForeign, cEdits>>

-----------------------------------------------------------------------------
\* The card applies a request nobody waits for any more.
Lands ==
  /\ cPc # "reverted"
  /\ \E c \in Controls :
       /\ Busy(c) /\ cLive' = [cLive EXCEPT ![c] = cLate[c]]
       /\ cLate' = [cLate EXCEPT ![c] = None]
  /\ UNCHANGED <<cFines, cPc, cAnchor, cTouched, cSure, cTarget, cStage, cBase, cExcused, cUnstaged,
                 cForeign, cEdits>>

\* Another program (ZZCapture) writes a control.
OtherWrites ==
  /\ cPc # "reverted" /\ cFines # Fine
  /\ \E c \in {"crop"} \cup cFines, v \in Vals :
       /\ ~Busy(c)
       /\ cLive' = [cLive EXCEPT ![c] = IF c = "crop" THEN CropWord(@[1], v) ELSE <<v>>]
       /\ cExcused' = [cExcused EXCEPT ![c] = TRUE]
       /\ cForeign' = IF cPc = "saving" THEN cForeign \cup {c} ELSE cForeign
  /\ UNCHANGED <<cFines, cPc, cLate, cAnchor, cTouched, cSure, cTarget, cStage, cBase, cUnstaged,
                 cEdits>>

-----------------------------------------------------------------------------
Next ==
  \/ video_set_crop \/ video_set_sample \/ video_set_phase \/ video_set_geometry
  \/ video_set_profile \/ video_reset_automatic \/ video_align \/ FindPhaseLoses \/ Look
  \/ video_save_check \/ video_saved
  \/ video_revert \/ RevertFails \/ ReloadAfterRevert \/ Lands \/ OtherWrites

Spec == Init /\ [][Next]_capVars

-----------------------------------------------------------------------------
\* While Save writes, each touched control runs exactly what is written, though
\* requests were cancelled, lost or applied late - unless another program writes
\* it meanwhile, or the value acknowledged last was not staged: an earlier step of
\* a reset that failed later, or a crop other than the staged one that a sample
\* change carried along.  After a Revert
\* that reports success each control is back at its value of before the first
\* edit, unless that was made before the anchor could be read or another program
\* wrote the control.
StagedWord(c) == IF c = "crop" THEN CropWord(cStage.sample, cStage.crop) ELSE <<cStage[c]>>

LiveSafe ==
  /\ cPc = "saving" =>
       \A c \in Controls : cTouched[c] /\ ~cUnstaged[c] /\ c \notin cForeign =>
         cLive[c] = StagedWord(c) /\ ~Busy(c)
  /\ cPc = "reverted" =>
       \A c \in Controls : cBase[c] = None \/ cExcused[c] \/ cLive[c] = cBase[c]
=============================================================================
