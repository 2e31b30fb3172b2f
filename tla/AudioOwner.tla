----------------------------- MODULE AudioOwner -----------------------------
(***************************************************************************)
(* Who owns the audio hardware: allocation and release in the AHI driver   *)
(* (zz9000ax-ahi.c) and in the MHI library (mhizz9000.c).                  *)
(*                                                                         *)
(* The two know each other only through the names of the interrupt servers *)
(* they install: a legacy node for the whole ownership, and a fabric node  *)
(* beside it when the owner plays through a firmware lease and can share   *)
(* the card.  Forbid windows are single steps; between two steps every     *)
(* other task may run, because mailbox calls, OpenLibrary and the          *)
(* handshake with the worker process all wait.                             *)
(***************************************************************************)
EXTENDS Naturals, FiniteSets

CONSTANTS AhiTasks, MhiTasks, NoTask

\* No task is NULL or the base MHIQuery publishes.
ASSUME TasksAreTasks ==
  NoTask \notin AhiTasks /\ NoTask \notin MhiTasks /\ "query" \notin MhiTasks /\ "query" # NoTask

VARIABLES
  owner,       \* Z9AXBase->owner
  allocating,  \* Z9AXBase->allocating
  ahiBase,     \* the AHI driver's global ZZ9KBase is not NULL
  ahiAt,       \* how far each AHI task is in AllocAudio or FreeAudio
  ahiFabric,   \* fabric_mode of its z9ax
  ahiOpened,   \* its OpenLibrary succeeded
  turnedAway,  \* history: an allocation failed after its reservation
  irqs,        \* the named nodes on the interrupt server list
  decoders,    \* NumAllocatedDecoders
  mhiBase,     \* the reference behind the MHI library's global ZZ9KBase
  mhiAt,       \* how far each MHI task is in AllocDecoder or FreeDecoder
  sawAhi,      \* ahi_mode, as read inside the claim
  capsKnown,   \* audio_caps_checked
  unsure,      \* history: a decoder was allocated without a definite answer
  probing      \* the MHIQuery probe: "no", "borrowed" or "published"

ahiVars == <<owner, allocating, ahiBase, ahiAt, ahiFabric, ahiOpened, turnedAway>>
mhiVars == <<decoders, mhiBase, mhiAt, sawAhi, capsKnown, unsure, probing>>
ownerVars == <<ahiVars, mhiVars, irqs>>

\* mhi_mode_locked and ahi_mode_locked: the fabric node is looked for first.
Mode(driver) ==
  IF \E n \in irqs : n[1] = driver /\ n[2] = "fabric" THEN "fabric"
  ELSE IF \E n \in irqs : n[1] = driver THEN "legacy" ELSE "none"

ToAhi(a, place) == ahiAt' = [ahiAt EXCEPT ![a] = place]
ToMhi(m, place) == mhiAt' = [mhiAt EXCEPT ![m] = place]

-----------------------------------------------------------------------------
(* AHIsub_AllocAudio and AHIsub_FreeAudio.                                 *)

\* Quick rejection, the AX strap, the buffers and the Zorro II descriptor;
\* any of them may turn the caller away.
AllocBegin(a) ==
  /\ ahiAt[a] = "out" /\ owner = NoTask /\ allocating = NoTask
  /\ ToAhi(a, "checked")
  /\ UNCHANGED <<owner, allocating, ahiBase, ahiFabric, ahiOpened, turnedAway, irqs, mhiVars>>

\* Two tasks may both have passed the quick rejection.
Reserve(a) ==
  /\ ahiAt[a] = "checked"
  /\ \/ /\ owner # NoTask \/ allocating # NoTask
        /\ ToAhi(a, "out") /\ UNCHANGED allocating
     \/ /\ owner = NoTask /\ allocating = NoTask
        /\ allocating' = a /\ ToAhi(a, "reserved")
  /\ UNCHANGED <<owner, ahiBase, ahiFabric, ahiOpened, turnedAway, irqs, mhiVars>>

\* Opens zz9k.library, asks for the capabilities, submits the neutral trim
\* and decides the mode (fabric_rate_capped).
OpenControlPlane(a) ==
  /\ ahiAt[a] = "reserved" /\ ToAhi(a, "probed")
  /\ \E present, fabric \in BOOLEAN :
       /\ fabric => present
       /\ ahiBase' = present
       /\ ahiOpened' = [ahiOpened EXCEPT ![a] = present]
       /\ ahiFabric' = [ahiFabric EXCEPT ![a] = fabric]
  /\ UNCHANGED <<owner, allocating, turnedAway, irqs, mhiVars>>

\* Any MHI owner may be shared with, whatever its mode and ours.
MhiAdmitsAnyone(a) == TRUE

\* The MHI owner the claim tolerates.
MhiAdmits(a) == Mode("MHI") = "none" \/ (ahiFabric[a] /\ Mode("MHI") = "fabric")

\* The atomic claim: checks, owner and interrupt server in one Forbid.
Claim(a) ==
  /\ ahiAt[a] = "probed" /\ allocating' = NoTask
  /\ \/ /\ MhiAdmits(a)
        /\ owner' = a /\ ToAhi(a, "owner")
        /\ irqs' = irqs \cup {<<"AHI", "legacy">>}
                     \cup (IF ahiFabric[a] THEN {<<"AHI", "fabric">>} ELSE {})
        /\ UNCHANGED turnedAway
     \/ /\ ~MhiAdmits(a)
        /\ ToAhi(a, "closing") /\ turnedAway' = TRUE
        /\ UNCHANGED <<owner, irqs>>
  /\ UNCHANGED <<ahiBase, ahiFabric, ahiOpened, mhiVars>>

\* destroy_interrupt, under Forbid
destroy_interrupt == owner' = NoTask /\ irqs' = {n \in irqs : n[1] # "AHI"}

\* The worker process signals back: up, or its signals, its timer or the
\* process itself could not be had.
Handshake(a) ==
  /\ ahiAt[a] = "owner"
  /\ \/ ToAhi(a, "running") /\ UNCHANGED <<owner, irqs, turnedAway>>
     \/ destroy_interrupt /\ turnedAway' = TRUE /\ ToAhi(a, "closing")
  /\ UNCHANGED <<allocating, ahiBase, ahiFabric, ahiOpened, mhiVars>>

\* Trim release and CloseLibrary of a refused or failed allocation.  The
\* base is global: by now it may be the one another task has opened.
CloseControlPlane(a) ==
  /\ ahiAt[a] = "closing" /\ ToAhi(a, "out")
  /\ ahiBase' = FALSE
  /\ ahiOpened' = [ahiOpened EXCEPT ![a] = FALSE]
  /\ UNCHANGED <<owner, allocating, ahiFabric, turnedAway, irqs, mhiVars>>

\* FreeAudio: both directions stopped, the worker told to leave and awaited.
FreeAudio(a) ==
  /\ ahiAt[a] = "running" /\ ToAhi(a, "joined")
  /\ UNCHANGED <<owner, allocating, ahiBase, ahiFabric, ahiOpened, turnedAway, irqs, mhiVars>>

FreeClose(a) ==
  /\ ahiAt[a] = "joined" /\ ToAhi(a, "leaving")
  /\ ahiBase' = FALSE
  /\ ahiOpened' = [ahiOpened EXCEPT ![a] = FALSE]
  /\ UNCHANGED <<owner, allocating, ahiFabric, turnedAway, irqs, mhiVars>>

FreeDone(a) ==
  /\ ahiAt[a] = "leaving" /\ ToAhi(a, "out")
  /\ destroy_interrupt
  /\ UNCHANGED <<allocating, ahiBase, ahiFabric, ahiOpened, turnedAway, mhiVars>>

-----------------------------------------------------------------------------
(* MHIAllocDecoder, MHIFreeDecoder and the capability probe of MHIQuery.   *)

\* Its own library reference and a probe of its own when none was definite;
\* the probe's lock keeps it from running beside MHIQuery's.
AllocDecoder(m) ==
  /\ mhiAt[m] = "out" /\ probing = "no"
  /\ \/ capsKnown /\ UNCHANGED <<capsKnown, unsure>>
     \/ /\ ~capsKnown /\ capsKnown' \in BOOLEAN
        /\ unsure' = (unsure \/ ~capsKnown')
  /\ ToMhi(m, "probed")
  /\ UNCHANGED <<decoders, mhiBase, sawAhi, probing, irqs, ahiVars>>

\* The atomic claim of the decoder; AHI's mode is read in it and used after.
ClaimDecoder(m) ==
  /\ mhiAt[m] = "probed"
  /\ \/ /\ decoders # 0 /\ ToMhi(m, "out")
        /\ UNCHANGED <<decoders, mhiBase, sawAhi, irqs>>
     \/ /\ decoders = 0
        /\ sawAhi' = [sawAhi EXCEPT ![m] = Mode("AHI")]
        /\ irqs' = irqs \cup {<<"MHI", "legacy">>}
        /\ decoders' = 1 /\ mhiBase' = m
        /\ ToMhi(m, "claimed")
  /\ UNCHANGED <<capsKnown, unsure, probing, ahiVars>>

\* Releases the decoder but leaves the library base published.
UnclaimKeepsBase ==
  /\ irqs' = {n \in irqs : n[1] # "MHI"} /\ decoders' = 0 /\ mhiBase' = mhiBase

\* unclaim_ownership_locked, and phase 3 of MHIFreeDecoder
unclaim_ownership_locked ==
  /\ irqs' = {n \in irqs : n[1] # "MHI"} /\ decoders' = 0 /\ mhiBase' = NoTask

\* After the neutral trim: a legacy AHI owner sends the decoder away, any
\* other lets it publish that it can share.
Qualify(m) ==
  /\ mhiAt[m] = "claimed"
  /\ \/ /\ sawAhi[m] = "legacy"
        /\ unclaim_ownership_locked /\ ToMhi(m, "out")
     \/ /\ sawAhi[m] # "legacy"
        /\ irqs' = irqs \cup {<<"MHI", "fabric">>}
        /\ ToMhi(m, "qualified") /\ UNCHANGED <<decoders, mhiBase>>
  /\ UNCHANGED <<sawAhi, capsKnown, unsure, probing, ahiVars>>

\* The feeder process comes up, or the allocation is undone.
StartFeeder(m) ==
  /\ mhiAt[m] = "qualified"
  /\ \/ ToMhi(m, "running") /\ UNCHANGED <<decoders, mhiBase, irqs>>
     \/ unclaim_ownership_locked /\ ToMhi(m, "out")
  /\ UNCHANGED <<sawAhi, capsKnown, unsure, probing, ahiVars>>

\* Phases 1 and 2 of MHIFreeDecoder: feeder retired, session and trim given
\* back while the nodes still advertise the ownership.
FreeDecoder(m) ==
  /\ mhiAt[m] = "running" /\ ToMhi(m, "quiet")
  /\ UNCHANGED <<decoders, mhiBase, sawAhi, capsKnown, unsure, probing, irqs, ahiVars>>

ReleaseDecoder(m) ==
  /\ mhiAt[m] = "quiet" /\ ToMhi(m, "out")
  /\ unclaim_ownership_locked
  /\ UNCHANGED <<sawAhi, capsKnown, unsure, probing, ahiVars>>

\* MHIQuery without a definite answer yet publishes a base of its own for
\* the time of the mailbox calls, unless a decoder has published one.
ProbeBegin ==
  /\ ~capsKnown /\ probing = "no"
  /\ \/ mhiBase = NoTask /\ probing' = "published" /\ mhiBase' = "query"
     \/ mhiBase # NoTask /\ probing' = "borrowed" /\ UNCHANGED mhiBase
  /\ UNCHANGED <<decoders, mhiAt, sawAhi, capsKnown, unsure, irqs, ahiVars>>

ProbeEnd ==
  /\ probing # "no" /\ probing' = "no"
  /\ mhiBase' = IF probing = "published" THEN NoTask ELSE mhiBase
  /\ capsKnown' \in BOOLEAN
  /\ UNCHANGED <<decoders, mhiAt, sawAhi, unsure, irqs, ahiVars>>

-----------------------------------------------------------------------------
OwnerInit ==
  /\ owner = NoTask /\ allocating = NoTask /\ ahiBase = FALSE
  /\ ahiAt = [a \in AhiTasks |-> "out"]
  /\ ahiFabric = [a \in AhiTasks |-> FALSE]
  /\ ahiOpened = [a \in AhiTasks |-> FALSE] /\ turnedAway = FALSE
  /\ irqs = {} /\ decoders = 0 /\ mhiBase = NoTask
  /\ mhiAt = [m \in MhiTasks |-> "out"] /\ sawAhi = [m \in MhiTasks |-> "none"]
  /\ capsKnown = FALSE /\ unsure = FALSE /\ probing = "no"

AhiStep(a) ==
  \/ AllocBegin(a) \/ Reserve(a) \/ OpenControlPlane(a) \/ Claim(a)
  \/ Handshake(a) \/ CloseControlPlane(a)
  \/ FreeAudio(a) \/ FreeClose(a) \/ FreeDone(a)

MhiStep(m) ==
  \/ AllocDecoder(m) \/ ClaimDecoder(m) \/ Qualify(m) \/ StartFeeder(m)
  \/ FreeDecoder(m) \/ ReleaseDecoder(m)

OwnerNext ==
  \/ \E a \in AhiTasks : AhiStep(a)
  \/ \E m \in MhiTasks : MhiStep(m)
  \/ ProbeBegin \/ ProbeEnd

OwnerSpec == OwnerInit /\ [][OwnerNext]_ownerVars

-----------------------------------------------------------------------------
\* The tasks that hold the card for AHI, and the decoders that may be used.
AhiOwners == {a \in AhiTasks : ahiAt[a] \in {"owner", "running", "joined", "leaving"}}
MhiOwners == {m \in MhiTasks : mhiAt[m] \in {"qualified", "running", "quiet"}}

\* At most one AHI client and one decoder own the card, and they own it
\* together only when AHI plays through a lease: a legacy AHI owner and a
\* decoder would write the same registers and ring.  The nodes on the server
\* list say so to older drivers: an owner's legacy node is always there.
OwnersCompatible ==
  /\ Cardinality(AhiOwners) <= 1 /\ Cardinality(MhiOwners) <= 1
  /\ AhiOwners # {} /\ MhiOwners # {} => \A a \in AhiOwners : ahiFabric[a]
  /\ AhiOwners # {} <=> <<"AHI", "legacy">> \in irqs
  /\ MhiOwners # {} => <<"MHI", "legacy">> \in irqs
  /\ owner # NoTask => AhiOwners = {owner}

\* While a driver may call the firmware its library base is published.  Two
\* exceptions remain in the code: a probe of MHIQuery that began before the
\* claim of a decoder allocated without a definite answer unpublishes that
\* decoder's base, and an AHI allocation turned away after its reservation
\* closes whatever base is current.
BasesLive ==
  /\ ~unsure => \A m \in MhiOwners : mhiBase = m
  /\ decoders = 0 /\ probing = "no" => mhiBase = NoTask
  /\ ~turnedAway => \A a \in AhiTasks :
       ahiOpened[a] /\ ahiAt[a] \in {"probed", "owner", "running", "joined"} => ahiBase

\* The audio engine has compatible owners, and each of them a live library
\* base, through every interleaving of allocations, failures and releases.
OwnershipSafe == OwnersCompatible /\ BasesLive
=============================================================================
