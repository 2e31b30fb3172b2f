------------------------------ MODULE CapAlign ------------------------------
(***************************************************************************)
(* ZZTop's picture alignment editor (ZZTop/Core/align.c) over the live     *)
(* capture registers (common/zz_vcap_live.c): one nonblocking request at a *)
(* time, acknowledged at a frame boundary by its sequence number, while    *)
(* the user keeps pressing keys and another program may write the same     *)
(* registers.                                                              *)
(*                                                                         *)
(* One crop axis, 0..MaxCrop; the word Auto leaves it to the card, which   *)
(* then crops by EffectiveAuto.  A status or snapshot read is one step.    *)
(***************************************************************************)
EXTENDS Naturals

CONSTANTS MaxCrop,       \* 4095 in the code
          Coarse,        \* 16 in the code
          EffectiveAuto, \* the card's crop in Automatic
          SeqMod         \* sequence numbers are modulo this, 256 in the code

Auto == MaxCrop + 1
Crops == 0..MaxCrop

VARIABLES aRequest, aApplied, \* the card's request and applied sequence
          aStaged,            \* STAGED_RAW
          aLatched,           \* the word of the request in progress
          aRaw,               \* APPLIED_RAW
          aEntry,             \* entry.raw
          aCurrent,           \* current.raw
          aWorking,           \* working.crop
          aCandidate,         \* pending_working.crop
          aAction,            \* pending_action
          aSeq,               \* pending_sequence
          aPc,                \* "loop", "staged", "acked"
          aCancel,            \* cancel_requested
          aEnd,               \* "open", "accepted", "restored", "unknown"
          aMissed             \* another program's request since the last snapshot

alignVars == <<aRequest, aApplied, aStaged, aLatched, aRaw, aEntry, aCurrent, aWorking, aCandidate,
               aAction, aSeq, aPc, aCancel, aEnd, aMissed>>
cardVars == <<aRequest, aApplied, aStaged, aLatched, aRaw>>

Busy == aRequest # aApplied

\* zz_vcap_effective_unpack
Effective(raw) == IF raw = Auto THEN EffectiveAuto ELSE raw

\* zz_vcap_next_sequence
Following(seq) == (seq + 1) % SeqMod

Init ==
  /\ aRequest = 0 /\ aApplied = 0
  /\ aRaw \in {0, Auto} /\ aStaged = aRaw /\ aLatched = aRaw
  /\ aEntry = aRaw /\ aCurrent = aRaw /\ aWorking = Effective(aRaw) /\ aCandidate = aWorking
  /\ aAction = "none" /\ aSeq = 0 /\ aPc = "loop" /\ aCancel = FALSE /\ aEnd = "open"
  /\ aMissed = FALSE

-----------------------------------------------------------------------------
\* start_apply: a word the card already runs needs no request; the card must be
\* at rest; the word is staged and, in the next step, committed.
start_apply(current, word, crop, action) ==
  \/ /\ word = current
     /\ aEnd' = CASE action = "accept" -> "accepted" [] action = "restore" -> "restored"
                  [] OTHER -> aEnd
     /\ aWorking' = IF action = "accept" THEN crop ELSE aWorking
     /\ aPc' = "loop" /\ aAction' = "none" /\ UNCHANGED <<cardVars, aCandidate, aSeq>>
  \/ /\ word # current /\ ~Busy /\ aSeq' = Following(aRequest) /\ aStaged' = word
     /\ aAction' = action /\ aCandidate' = crop /\ aPc' = "staged"
     /\ UNCHANGED <<aRequest, aApplied, aLatched, aRaw, aWorking, aEnd>>
  \/ /\ word # current /\ aPc' = "loop" /\ aAction' = "none"
     /\ UNCHANGED <<cardVars, aWorking, aCandidate, aSeq, aEnd>>

\* The commit word: the card takes what is staged by then, unless it is busy.
CardCommits ==
  IF Busy THEN UNCHANGED <<aRequest, aLatched>>
  ELSE aRequest' = Following(aRequest) /\ aLatched' = aStaged

Commits ==
  /\ aPc = "staged" /\ aPc' = "loop" /\ CardCommits
  /\ UNCHANGED <<aApplied, aStaged, aRaw, aEntry, aCurrent, aWorking, aCandidate, aAction, aSeq,
                 aCancel, aEnd, aMissed>>

-----------------------------------------------------------------------------
Idle == aPc = "loop" /\ aEnd = "open"

\* key: an arrow moves the working crop by one step or, shifted, a coarse one,
\* within the limits; at a limit nothing is sent.
zz_vcap_adjust ==
  {c \in Crops \ {aWorking} : \E n \in {1, Coarse} :
     \/ c = IF aWorking + n > MaxCrop THEN MaxCrop ELSE aWorking + n
     \/ c = IF aWorking < n THEN 0 ELSE aWorking - n}

ArrowKeys ==
  /\ Idle /\ aAction = "none" /\ ~aCancel
  /\ \/ \E c \in zz_vcap_adjust : start_apply(aCurrent, c, c, "adjust")
     \/ start_apply(aCurrent, aWorking, aWorking, "accept")
  /\ UNCHANGED <<aEntry, aCurrent, aCancel, aMissed>>

\* cancel: the first Escape restores, once the request in hand is settled; the
\* second gives up.
Escape ==
  /\ Idle
  /\ \/ /\ aCancel /\ aEnd' = "unknown"
        /\ UNCHANGED <<cardVars, aWorking, aCandidate, aAction, aSeq, aPc, aCancel>>
     \/ /\ ~aCancel /\ aCancel' = TRUE
        /\ IF aAction # "none"
           THEN UNCHANGED <<cardVars, aWorking, aCandidate, aAction, aSeq, aPc, aEnd>>
           ELSE start_apply(aCurrent, aEntry, aCandidate, "restore")
  /\ UNCHANGED <<aEntry, aCurrent, aMissed>>

\* A snapshot, coherent because the status did not change around it.
Snapshot == ~Busy /\ aCurrent' = aRaw /\ aMissed' = FALSE

\* reconcile: another request took our place.  When the snapshot fails the old
\* one stays.
Superseded ==
  /\ Idle /\ aAction # "none" /\ ~Busy /\ aRequest # aSeq
  /\ \/ /\ aAction' = "none"
        /\ UNCHANGED <<cardVars, aWorking, aCandidate, aSeq, aPc, aEnd, aCurrent, aMissed>>
     \/ /\ Snapshot
        /\ IF aCancel THEN start_apply(aRaw, aEntry, aCandidate, "restore")
           ELSE aAction' = "none" /\ UNCHANGED <<cardVars, aWorking, aCandidate, aSeq, aPc, aEnd>>
  /\ UNCHANGED <<aEntry, aCancel>>

\* The status shows our sequence applied; the snapshot is taken after that.
Acknowledged ==
  /\ Idle /\ aAction # "none" /\ ~Busy /\ aRequest = aSeq /\ aPc' = "acked"
  /\ UNCHANGED <<cardVars, aEntry, aCurrent, aWorking, aCandidate, aAction, aSeq, aCancel, aEnd,
                 aMissed>>

\* zz_vcap_request_result: the applied word must be the one asked for too.
Won(word) == aRaw = word

Word == CASE aAction = "restore" -> aEntry [] OTHER -> aCandidate

Judged ==
  /\ aPc = "acked" /\ Snapshot
  /\ \/ /\ ~Won(Word)
        /\ IF aCancel \/ aAction = "restore"
           THEN start_apply(aRaw, aEntry, aCandidate, "restore")
           ELSE /\ aAction' = "none" /\ aPc' = "loop"
                /\ UNCHANGED <<cardVars, aWorking, aCandidate, aSeq, aEnd>>
     \/ /\ Won(Word) /\ aAction = "restore" /\ aEnd' = "restored" /\ aAction' = "none"
        /\ aPc' = "loop" /\ UNCHANGED <<cardVars, aWorking, aCandidate, aSeq>>
     \/ /\ Won(Word) /\ aAction # "restore" /\ aCancel
        /\ start_apply(aRaw, aEntry, aCandidate, "restore")
     \/ /\ Won(Word) /\ aAction # "restore" /\ ~aCancel /\ aWorking' = aCandidate
        /\ aEnd' = IF aAction = "accept" THEN "accepted" ELSE "open"
        /\ aAction' = "none" /\ aPc' = "loop" /\ UNCHANGED <<cardVars, aCandidate, aSeq>>
  /\ UNCHANGED <<aEntry, aCancel>>

\* Eight incoherent snapshots: the request stays pending.
SnapshotFails ==
  /\ aPc = "acked" /\ aPc' = "loop"
  /\ UNCHANGED <<cardVars, aEntry, aCurrent, aWorking, aCandidate, aAction, aSeq, aCancel, aEnd,
                 aMissed>>

-----------------------------------------------------------------------------
\* The card applies the latched word at the next frame.
FrameBoundary ==
  /\ aEnd = "open" /\ Busy /\ aApplied' = aRequest /\ aRaw' = aLatched
  /\ UNCHANGED <<aRequest, aStaged, aLatched, aEntry, aCurrent, aWorking, aCandidate, aAction, aSeq,
                 aPc, aCancel, aEnd, aMissed>>

\* Another program stages and commits a word of its own.
OtherCommits ==
  /\ aEnd = "open" /\ aStaged' \in {0, Auto} /\ aMissed' = TRUE
  /\ IF Busy THEN UNCHANGED <<aRequest, aLatched>>
     ELSE aRequest' = Following(aRequest) /\ aLatched' = aStaged'
  /\ UNCHANGED <<aApplied, aRaw, aEntry, aCurrent, aWorking, aCandidate, aAction, aSeq, aPc, aCancel,
                 aEnd>>

Next ==
  \/ ArrowKeys \/ Commits \/ Escape \/ Superseded \/ Acknowledged \/ Judged \/ SnapshotFails
  \/ FrameBoundary \/ OtherCommits

Spec == Init /\ [][Next]_alignVars

-----------------------------------------------------------------------------
\* When the editor closes with a framing accepted, the card runs exactly that
\* framing; when it closes restored, the card runs the word of entry; and no
\* request of the editor is still on its way to change it.  (Not when another
\* program's request came after the editor's last look: start_apply trusts that
\* look when it skips a request.)
AlignSafe ==
  /\ aEnd = "accepted" /\ ~aMissed => aRaw = aWorking /\ ~Busy
  /\ aEnd = "restored" /\ ~aMissed => aRaw = aEntry /\ ~Busy
=============================================================================
