------------------------------ MODULE CfgText ------------------------------
(***************************************************************************)
(* ZZ9000.CFG as text (common/zzcfg_amiga.c): ZZTop parses it, changes a   *)
(* field and writes the whole file again; people edit it by hand; firmware *)
(* with and without the videocap_profile key and the centered outputs      *)
(* takes turns.                                                            *)
(*                                                                         *)
(* A line is <<key, value>>.  "crop" stands for every key written only     *)
(* when present (the audio scenes too), "int2" for the ones always         *)
(* written; Bad is a value the grammar of the key refuses.                 *)
(***************************************************************************)
EXTENDS Naturals, Sequences, SequencesExt

CONSTANT MaxLines  \* of a hand-written text

VARIABLES xText,    \* the file
          xFw,      \* the firmware: profile key, supported centered outputs
          xWithheld,\* the last boot refused the Fast RAM line
          xMeans    \* what the file should mean

textVars == <<xText, xFw, xWithheld, xMeans>>

Bad == 9
Absent == 8
Profiles == 0..8
NoProfile == 10

\* The legacy keys of each profile.
zzcfg_profiles ==
  [p \in Profiles |->
     [pal |-> IF p \in 3..5 THEN 1 ELSE 0, full |-> IF p \in 2..5 THEN 0 ELSE 1,
      vsync |-> IF p \in {1, 4} THEN 1 ELSE IF p = 5 THEN 2 ELSE 0]]

\* zzcfg_profile_from_legacy: the first profile that fits, or filtered_60 (2)
FromLegacy(pal, full, vsync) ==
  LET fits == {p \in Profiles :
                 /\ zzcfg_profiles[p].full = full
                 /\ IF full = 1 THEN (zzcfg_profiles[p].vsync # 0) = (vsync # 0)
                    ELSE zzcfg_profiles[p].pal = pal /\ zzcfg_profiles[p].vsync = vsync}
  IN IF fits = {} THEN 2 ELSE CHOOSE p \in fits : \A q \in fits : p <= q

\* zzcfg_profile_supported, zzcfg_profile_sanitize: centered outputs fall back
\* to full_60
Sanitized(p, fw) == IF p \in 6..8 /\ p \notin fw.centered THEN 0 ELSE p

-----------------------------------------------------------------------------
\* values_defaults
Defaults == [profile |-> 0, chosen |-> FALSE, pal |-> 0, full |-> 1, vsync |-> 0,
             crop |-> Absent, int2 |-> 0, fast |-> Absent, poisoned |-> FALSE]

\* The legacy keys are translated as they come.
Legacy(v) == [v EXCEPT !.profile = FromLegacy(v.pal, v.full, v.vsync), !.chosen = TRUE]

\* zzcfg_fast_ram_invalidate
Poisoned(v) == [v EXCEPT !.fast = Absent, !.poisoned = TRUE]

\* The last line wins, a malformed one before it or not.
LastWins(v, x) == IF x = Bad THEN v ELSE [v EXCEPT !.fast = x]

\* fast_ram: after a malformed line no later one counts.
FastLine(v, x) ==
  IF x = Bad THEN Poisoned(v) ELSE IF v.poisoned THEN v ELSE [v EXCEPT !.fast = x]

\* A key that is written only when present; the scenes' keys are such.
PresentKey(v, x) == [v EXCEPT !.crop = x]

ParseLine(v, line) ==
  LET x == line[2]
  IN CASE line[1] = "fast_ram" -> FastLine(v, x)
       [] line[1] # "fast_ram" /\ x = Bad -> v
       [] line[1] = "profile" /\ x # Bad ->
            [v EXCEPT !.profile = x, !.chosen = TRUE, !.pal = zzcfg_profiles[x].pal,
                      !.full = zzcfg_profiles[x].full, !.vsync = zzcfg_profiles[x].vsync]
       [] line[1] = "mode" /\ x # Bad -> Legacy([v EXCEPT !.pal = x, !.full = 0])
       [] line[1] = "shres" /\ x # Bad -> Legacy([v EXCEPT !.full = x])
       [] line[1] = "vsync" /\ x # Bad -> Legacy([v EXCEPT !.vsync = x])
       [] line[1] = "crop" /\ x # Bad -> PresentKey(v, x)
       [] line[1] = "int2" /\ x # Bad -> [v EXCEPT !.int2 = x]

zzcfg_parse_text(text) == FoldLeft(ParseLine, Defaults, text)

\* zzcfg_generate: the profile by its key or by the legacy ones
ProfileLines(p, fw) ==
  IF fw.key THEN <<<<"profile", p>>>>
  ELSE <<<<"mode", zzcfg_profiles[p].pal>>, <<"shres", zzcfg_profiles[p].full>>,
         <<"vsync", zzcfg_profiles[p].vsync>>>>

PresentLines(v) == IF v.crop # Absent THEN <<<<"crop", v.crop>>>> ELSE <<>>

zzcfg_generate(v, fw) ==
  (IF v.chosen THEN ProfileLines(Sanitized(v.profile, fw), fw) ELSE <<>>)
    \o PresentLines(v) \o <<<<"int2", v.int2>>>>
    \o (IF v.fast # Absent /\ ~v.poisoned THEN <<<<"fast_ram", v.fast>>>> ELSE <<>>)

-----------------------------------------------------------------------------
\* What a text means to the firmware at cold boot, stated on its own: of each
\* key the last well-formed line counts, of the keys that choose an output the
\* last one for each aspect of it, and one malformed Fast RAM line spoils all.
LastOf(text, keys, default) ==
  LET at == {i \in DOMAIN text : text[i][1] \in keys /\ text[i][2] # Bad}
  IN IF at = {} THEN default ELSE text[CHOOSE i \in at : \A j \in at : j <= i]

Output(text) ==
  LET last == LastOf(text, {"profile", "mode", "shres", "vsync"}, <<"none", NoProfile>>)
      pal == LastOf(text, {"profile", "mode"}, <<"profile", 0>>)
      full == LastOf(text, {"profile", "mode", "shres"}, <<"profile", 0>>)
      vsync == LastOf(text, {"profile", "vsync"}, <<"profile", 0>>)
  IN IF last[1] \in {"none", "profile"} THEN last[2]
     ELSE FromLegacy(IF pal[1] = "mode" THEN pal[2] ELSE zzcfg_profiles[pal[2]].pal,
                     CASE full[1] = "mode" -> 0 [] full[1] = "shres" -> full[2]
                       [] full[1] = "profile" -> zzcfg_profiles[full[2]].full,
                     IF vsync[1] = "vsync" THEN vsync[2] ELSE zzcfg_profiles[vsync[2]].vsync)

Meaning(text) ==
  [profile |-> Output(text),
   crop |-> LastOf(text, {"crop"}, <<"", Absent>>)[2],
   int2 |-> LastOf(text, {"int2"}, <<"", 0>>)[2],
   fast |-> IF \E i \in DOMAIN text : text[i] = <<"fast_ram", Bad>> THEN Absent
            ELSE LastOf(text, {"fast_ram"}, <<"", Absent>>)[2]]

\* What ZZTop shows of it.
Shown(v) == [profile |-> IF v.chosen THEN v.profile ELSE NoProfile, crop |-> v.crop,
             int2 |-> v.int2, fast |-> v.fast]

\* Centered outputs came one after the other, all with the profile key.
Firmwares == {[key |-> FALSE, centered |-> {}], [key |-> TRUE, centered |-> {}],
              [key |-> TRUE, centered |-> {6}], [key |-> TRUE, centered |-> 6..8]}

Init ==
  /\ xText = <<>> /\ xFw \in Firmwares /\ xWithheld = FALSE /\ xMeans = Meaning(xText)

HandLines ==
  ({"fast_ram"} \X {0, 1, Bad}) \union ({"profile"} \X {1, 5, 7, Bad})
    \union ({"mode"} \X {0, 1}) \union ({"shres"} \X {0, 1}) \union ({"vsync"} \X {0, 1, 2})
    \union ({"crop"} \X {3}) \union ({"int2"} \X {1})

\* Somebody writes the file by hand.
HandEdit ==
  /\ xText = <<>>
  /\ xText' \in UNION {[1..n -> HandLines] : n \in 1..MaxLines}
  /\ xMeans' = Meaning(xText') /\ UNCHANGED <<xFw, xWithheld>>

\* Cold boot, perhaps with other firmware.  The gate refuses Fast RAM on a
\* malformed line, or on a file it could not read to the end.
ColdBoot ==
  /\ xFw' \in Firmwares
  /\ \E cut \in BOOLEAN : xWithheld' = (cut \/ \E i \in DOMAIN xText : xText[i] = <<"fast_ram", Bad>>)
  /\ UNCHANGED <<xText, xMeans>>

\* read_card with apply_boot_outcome, zzcfg_fast_ram_invalidate_withheld
read_card ==
  LET v == zzcfg_parse_text(xText) IN IF xWithheld THEN Poisoned(v) ELSE v

\* settings_set and settings_clear of one field
Edits ==
  {<<"crop", x>> : x \in {3, Absent}} \union {<<"int2", x>> : x \in {0, 1}}
    \union {<<"fast_ram", x>> : x \in {0, 1, Absent}}
    \union {<<"profile", x>> : x \in {p \in Profiles : Sanitized(p, xFw) = p}}

field_copy(v, edit) ==
  CASE edit[1] = "crop" -> [v EXCEPT !.crop = edit[2]]
    [] edit[1] = "int2" -> [v EXCEPT !.int2 = edit[2]]
    [] edit[1] = "fast_ram" -> [v EXCEPT !.fast = edit[2], !.poisoned = FALSE]
    [] edit[1] = "profile" -> [v EXCEPT !.profile = edit[2], !.chosen = TRUE]

\* What should be kept: every field but the edited one.  Fast RAM is dropped
\* while the last boot's refusal stands; an output this firmware lacks falls back.
Expected(edit) ==
  [profile |-> IF edit[1] = "profile" THEN edit[2]
               ELSE IF xMeans.profile \in Profiles THEN Sanitized(xMeans.profile, xFw)
               ELSE xMeans.profile,
   crop |-> IF edit[1] = "crop" THEN edit[2] ELSE xMeans.crop,
   int2 |-> IF edit[1] = "int2" THEN edit[2] ELSE xMeans.int2,
   fast |-> IF edit[1] = "fast_ram" THEN edit[2] ELSE IF xWithheld THEN Absent ELSE xMeans.fast]

\* settings_save, zzcfg_save (a text that does not fit is not written)
zzcfg_save ==
  /\ \E edit \in Edits :
       /\ xText' = zzcfg_generate(field_copy(read_card, edit), xFw)
       /\ xMeans' = Expected(edit)
  /\ UNCHANGED <<xFw, xWithheld>>

Next == HandEdit \/ ColdBoot \/ zzcfg_save

Spec == Init /\ [][Next]_textVars

-----------------------------------------------------------------------------
\* Whatever was written by hand, whichever firmware wrote and reads the file and
\* however often it is saved, the text means what was last chosen for each key:
\* a save changes the edited key alone, legacy keys and profile key say the same,
\* and a malformed Fast RAM line never becomes a setting again.  ZZTop's parser
\* reads every text as the firmware does.
ConfigSafe ==
  Meaning(xText) = xMeans /\ Shown(zzcfg_parse_text(xText)) = Meaning(xText)
=============================================================================
