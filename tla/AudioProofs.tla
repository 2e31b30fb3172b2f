---------------------------- MODULE AudioProofs ----------------------------
(***************************************************************************)
(* Theorems about AudioOwner: the AHI driver and the MHI library never own *)
(* the audio engine in a way that hurts, for any number of tasks that      *)
(* allocate and free at the same time; about AhiLease: a running playback  *)
(* hears no PCM of an older one, and no lease of the firmware is           *)
(* forgotten, for any number of slots, grants and Stops; and about         *)
(* MhiPlayer: between calls of a decoder the card does what its Status     *)
(* says and no sleeping feeder has anything left to do, and its buffers    *)
(* are read and given back only when they may be, for any number of        *)
(* buffers, sessions, Stops and chunks.                                    *)
(***************************************************************************)
EXTENDS AudioOwner, AhiLease, MhiPlayer, FiniteSetTheorems, TLAPS

-----------------------------------------------------------------------------
(* The inductive invariant of the ownership.                               *)

AL == <<"AHI", "legacy">>
AF == <<"AHI", "fabric">>
ML == <<"MHI", "legacy">>
MF == <<"MHI", "fabric">>

AhiOwning == {"owner", "running", "joined", "leaving"}
MhiSharing == {"qualified", "running", "quiet"}
MhiHolding == MhiSharing \cup {"claimed"}
AhiPlaces == AhiOwning \cup {"out", "checked", "reserved", "probed", "closing"}
MhiPlaces == MhiHolding \cup {"out", "probed"}
Modes == {"none", "legacy", "fabric"}

TypeOK ==
  /\ owner \in AhiTasks \cup {NoTask} /\ allocating \in AhiTasks \cup {NoTask}
  /\ ahiBase \in BOOLEAN /\ turnedAway \in BOOLEAN
  /\ ahiAt \in [AhiTasks -> AhiPlaces]
  /\ ahiFabric \in [AhiTasks -> BOOLEAN] /\ ahiOpened \in [AhiTasks -> BOOLEAN]
  /\ irqs \subseteq {AL, AF, ML, MF}
  /\ decoders \in {0, 1} /\ mhiBase \in MhiTasks \cup {NoTask, "query"}
  /\ mhiAt \in [MhiTasks -> MhiPlaces] /\ sawAhi \in [MhiTasks -> Modes]
  /\ capsKnown \in BOOLEAN /\ unsure \in BOOLEAN /\ probing \in {"no", "borrowed", "published"}

\* owner and allocating say where every AHI task is, and are not both set.
AhiLocks ==
  /\ \A a \in AhiTasks : /\ ahiAt[a] \in AhiOwning <=> owner = a
                         /\ ahiAt[a] \in {"reserved", "probed"} <=> allocating = a
                         /\ ahiAt[a] = "closing" => turnedAway
  /\ owner = NoTask \/ allocating = NoTask

\* The AHI nodes on the server list are those of the owner.
AhiNodes ==
  /\ AL \in irqs <=> owner # NoTask
  /\ AF \in irqs <=> owner # NoTask /\ ahiFabric[owner]

AhiLive ==
  turnedAway \/ \A a \in AhiTasks :
    ahiOpened[a] /\ ahiAt[a] \in {"probed", "owner", "running", "joined"} => ahiBase

\* One task has the decoder from its claim on, and its nodes are listed.
MhiLocks ==
  /\ \A m, n \in MhiTasks : mhiAt[m] \in MhiHolding /\ mhiAt[n] \in MhiHolding => m = n
  /\ decoders = 0 <=> \A m \in MhiTasks : mhiAt[m] \notin MhiHolding
  /\ ML \in irqs <=> decoders # 0
  /\ MF \in irqs <=> \E m \in MhiTasks : mhiAt[m] \in MhiSharing

\* A decoder's base stays published, but where the answer was not definite.
MhiLive ==
  /\ \A m \in MhiTasks : mhiAt[m] # "out" => unsure \/ capsKnown
  /\ \A m \in MhiTasks : mhiAt[m] \in MhiHolding => unsure \/ mhiBase = m
  /\ capsKnown => probing = "no"
  /\ decoders = 0 /\ probing # "published" => mhiBase = NoTask

\* What a decoder read of AHI in its claim still says that it may share.
Sharable ==
  \A m \in MhiTasks :
    mhiAt[m] \in MhiSharing \/ (mhiAt[m] = "claimed" /\ sawAhi[m] # "legacy")
    => owner = NoTask \/ ahiFabric[owner]

IInv == TypeOK /\ AhiLocks /\ AhiNodes /\ AhiLive /\ MhiLocks /\ MhiLive /\ Sharable

-----------------------------------------------------------------------------
(* The nodes.                                                              *)

\* mhi_mode_locked and ahi_mode_locked, by the nodes there are.
LEMMA ModeIs ==
  ASSUME TypeOK
  PROVE  /\ Mode("AHI") = IF AF \in irqs THEN "fabric" ELSE IF AL \in irqs THEN "legacy" ELSE "none"
         /\ Mode("MHI") = IF MF \in irqs THEN "fabric" ELSE IF ML \in irqs THEN "legacy" ELSE "none"
<1>1. \A n \in irqs : n \in {AL, AF, ML, MF}
  BY DEF TypeOK
<1>2. /\ (\E n \in irqs : n[1] = "AHI" /\ n[2] = "fabric") <=> AF \in irqs
      /\ (\E n \in irqs : n[1] = "MHI" /\ n[2] = "fabric") <=> MF \in irqs
      /\ (\E n \in irqs : n[1] = "AHI") <=> AL \in irqs \/ AF \in irqs
      /\ (\E n \in irqs : n[1] = "MHI") <=> ML \in irqs \/ MF \in irqs
  BY <1>1 DEF AL, AF, ML, MF
<1> QED  BY <1>2 DEF Mode

\* Taking one driver's servers off the list leaves the other's.
LEMMA Removed ==
  ASSUME TypeOK
  PROVE  LET noAhi == {n \in irqs : n[1] # "AHI"}
             noMhi == {n \in irqs : n[1] # "MHI"}
         IN  /\ noAhi \subseteq {AL, AF, ML, MF} /\ noMhi \subseteq {AL, AF, ML, MF}
             /\ AL \notin noAhi /\ AF \notin noAhi
             /\ (ML \in noAhi <=> ML \in irqs) /\ (MF \in noAhi <=> MF \in irqs)
             /\ ML \notin noMhi /\ MF \notin noMhi
             /\ (AL \in noMhi <=> AL \in irqs) /\ (AF \in noMhi <=> AF \in irqs)
BY DEF TypeOK, AL, AF, ML, MF

\* The four nodes are different.
LEMMA NodesDiffer == AL # AF /\ AL # ML /\ AL # MF /\ AF # ML /\ AF # MF /\ ML # MF
BY DEF AL, AF, ML, MF

\* A step of AHI that leaves the MHI nodes alone keeps what is said of MHI.
LEMMA MhiUntouched ==
  ASSUME IInv, UNCHANGED mhiVars, ML \in irqs' <=> ML \in irqs, MF \in irqs' <=> MF \in irqs
  PROVE  MhiLocks' /\ MhiLive'
BY DEF IInv, MhiLocks, MhiLive, mhiVars

\* A step of MHI that leaves the AHI nodes alone keeps what is said of AHI.
LEMMA AhiUntouched ==
  ASSUME IInv, UNCHANGED ahiVars, AL \in irqs' <=> AL \in irqs, AF \in irqs' <=> AF \in irqs
  PROVE  AhiLocks' /\ AhiNodes' /\ AhiLive'
BY DEF IInv, AhiLocks, AhiNodes, AhiLive, ahiVars

-----------------------------------------------------------------------------
(* The AHI driver's steps.                                                 *)

\* A task moves to place p and nothing is claimed or released.
LEMMA AhiMoves ==
  ASSUME IInv, NEW a \in AhiTasks, NEW p \in AhiPlaces, ToAhi(a, p),
         UNCHANGED <<owner, allocating, ahiFabric, turnedAway, irqs, mhiVars>>,
         ahiAt[a] \in AhiOwning <=> p \in AhiOwning,
         ahiAt[a] \in {"reserved", "probed"} <=> p \in {"reserved", "probed"}, p # "closing",
         ahiBase' \in BOOLEAN, ahiOpened' \in [AhiTasks -> BOOLEAN], AhiLive'
  PROVE  IInv'
<1>1. \A b \in AhiTasks : ahiAt'[b] = IF b = a THEN p ELSE ahiAt[b]
  BY DEF ToAhi, IInv, TypeOK
<1>2. TypeOK'
  BY DEF ToAhi, IInv, TypeOK, mhiVars
<1>3. AhiLocks' /\ AhiNodes'
  BY <1>1 DEF IInv, AhiLocks, AhiNodes
<1>4. MhiLocks' /\ MhiLive'
  BY MhiUntouched
<1>5. Sharable'
  BY DEF IInv, Sharable, mhiVars
<1> QED  BY <1>2, <1>3, <1>4, <1>5 DEF IInv

\* The quick rejection is passed.
LEMMA AllocBeginKept ==
  ASSUME IInv, NEW a \in AhiTasks, AllocBegin(a)
  PROVE  IInv'
<1>1. ahiAt[a] = "out" /\ ToAhi(a, "checked")
      /\ UNCHANGED <<owner, allocating, ahiBase, ahiFabric, ahiOpened, turnedAway, irqs, mhiVars>>
  BY DEF AllocBegin
<1>2. AhiLive'
  BY <1>1 DEF ToAhi, IInv, TypeOK, AhiLive
<1>3. ahiBase' \in BOOLEAN /\ ahiOpened' \in [AhiTasks -> BOOLEAN]
  BY <1>1 DEF IInv, TypeOK
<1> QED  BY <1>1, <1>2, <1>3, AhiMoves DEF AhiPlaces, AhiOwning

\* One of those that passed it reserves the hardware.
LEMMA ReserveKept ==
  ASSUME IInv, NEW a \in AhiTasks, Reserve(a)
  PROVE  IInv'
<1>1. ahiAt[a] = "checked"
      /\ UNCHANGED <<owner, ahiBase, ahiFabric, ahiOpened, turnedAway, irqs, mhiVars>>
  BY DEF Reserve
<1>2. CASE ToAhi(a, "out") /\ UNCHANGED allocating
  <2>1. AhiLive'
    BY <1>1, <1>2 DEF ToAhi, IInv, TypeOK, AhiLive
  <2>2. ahiBase' \in BOOLEAN /\ ahiOpened' \in [AhiTasks -> BOOLEAN]
    BY <1>1 DEF IInv, TypeOK
  <2> QED  BY <1>1, <1>2, <2>1, <2>2, AhiMoves DEF AhiPlaces, AhiOwning
<1>3. CASE owner = NoTask /\ allocating = NoTask /\ allocating' = a /\ ToAhi(a, "reserved")
  <2>1. \A b \in AhiTasks : ahiAt'[b] = IF b = a THEN "reserved" ELSE ahiAt[b]
    BY <1>3 DEF ToAhi, IInv, TypeOK
  <2>2. TypeOK'
    BY <1>1, <1>3 DEF ToAhi, IInv, TypeOK, mhiVars, AhiPlaces
  <2>3. AhiLocks'
    BY <1>1, <1>3, <2>1, TasksAreTasks DEF IInv, AhiLocks, AhiOwning
  <2>4. AhiNodes' /\ Sharable'
    BY <1>1 DEF IInv, AhiNodes, Sharable, mhiVars
  <2>5. AhiLive'
    BY <1>1, <2>1 DEF IInv, AhiLive
  <2>6. MhiLocks' /\ MhiLive'
    BY <1>1, MhiUntouched
  <2> QED  BY <2>2, <2>3, <2>4, <2>5, <2>6 DEF IInv
<1> QED  BY <1>2, <1>3 DEF Reserve

\* The control plane is opened: no other task has a base then.
LEMMA OpenKept ==
  ASSUME IInv, NEW a \in AhiTasks, OpenControlPlane(a)
  PROVE  IInv'
<1>1. PICK present, fabric \in BOOLEAN :
       /\ ahiBase' = present
       /\ ahiOpened' = [ahiOpened EXCEPT ![a] = present]
       /\ ahiFabric' = [ahiFabric EXCEPT ![a] = fabric]
  BY DEF OpenControlPlane
<1>2. ahiAt[a] = "reserved" /\ ToAhi(a, "probed")
      /\ UNCHANGED <<owner, allocating, turnedAway, irqs, mhiVars>>
  BY DEF OpenControlPlane
<1>3. \A b \in AhiTasks : ahiAt'[b] = IF b = a THEN "probed" ELSE ahiAt[b]
  BY <1>2 DEF ToAhi, IInv, TypeOK
<1>4. owner = NoTask /\ allocating = a
  BY <1>2, TasksAreTasks DEF IInv, AhiLocks
<1>5. TypeOK'
  BY <1>1, <1>2 DEF ToAhi, IInv, TypeOK, mhiVars, AhiPlaces
<1>6. AhiLocks'
  BY <1>2, <1>3 DEF IInv, AhiLocks, AhiOwning
<1>7. AhiNodes' /\ Sharable'
  BY <1>2, <1>4 DEF IInv, AhiNodes, Sharable, mhiVars
<1>8. AhiLive'
  <2>1. \A b \in AhiTasks : b # a => ahiAt[b] \notin {"probed", "owner", "running", "joined"}
    BY <1>4, TasksAreTasks DEF IInv, AhiLocks, AhiOwning
  <2>2. ahiOpened'[a] = present
    BY <1>1 DEF IInv, TypeOK
  <2> QED  BY <1>1, <1>3, <2>1, <2>2 DEF AhiLive
<1>9. MhiLocks' /\ MhiLive'
  BY <1>2, MhiUntouched
<1> QED  BY <1>5, <1>6, <1>7, <1>8, <1>9 DEF IInv

\* The claim: what the nodes say of MHI is what the decoder's task is at.
LEMMA ClaimKept ==
  ASSUME IInv, NEW a \in AhiTasks, Claim(a)
  PROVE  IInv'
<1>1. ahiAt[a] = "probed" /\ allocating' = NoTask
      /\ UNCHANGED <<ahiBase, ahiFabric, ahiOpened, mhiVars>>
  BY DEF Claim
<1>2. owner = NoTask /\ allocating = a
  BY <1>1, TasksAreTasks DEF IInv, AhiLocks
<1>3. \A b \in AhiTasks : ahiAt[b] \notin AhiOwning
                          /\ (b # a => ahiAt[b] \notin {"reserved", "probed"})
  BY <1>2, TasksAreTasks DEF IInv, AhiLocks
<1>4. CASE MhiAdmits(a) /\ owner' = a /\ ToAhi(a, "owner") /\ UNCHANGED turnedAway
           /\ irqs' = irqs \cup {AL} \cup (IF ahiFabric[a] THEN {AF} ELSE {})
  <2>1. \A b \in AhiTasks : ahiAt'[b] = IF b = a THEN "owner" ELSE ahiAt[b]
    BY <1>4 DEF ToAhi, IInv, TypeOK
  <2>2. TypeOK'
    BY <1>1, <1>4 DEF ToAhi, IInv, TypeOK, mhiVars, AhiPlaces, AhiOwning
  <2>3. AhiLocks'
    BY <1>1, <1>3, <1>4, <2>1, TasksAreTasks DEF IInv, AhiLocks, AhiOwning
  <2>4. AL \notin irqs /\ AF \notin irqs
    BY <1>2 DEF IInv, AhiNodes
  <2>5. /\ AL \in irqs' /\ (AF \in irqs' <=> ahiFabric[a])
        /\ (ML \in irqs' <=> ML \in irqs) /\ (MF \in irqs' <=> MF \in irqs)
    BY <1>4, <2>4, NodesDiffer
  <2>6. AhiNodes'
    BY <1>1, <1>4, <2>5, TasksAreTasks DEF AhiNodes
  <2>7. AhiLive'
    BY <1>1, <1>4, <2>1 DEF IInv, AhiLive
  <2>8. MhiLocks' /\ MhiLive'
    BY <1>1, <2>5, MhiUntouched
  <2>9. Sharable'
    <3>1. ahiFabric[a] \/ (MF \notin irqs /\ ML \notin irqs)
      BY <1>4, ModeIs DEF MhiAdmits, IInv
    <3>2. CASE MF \notin irqs /\ ML \notin irqs
      <4>1. \A m \in MhiTasks : mhiAt[m] \notin MhiHolding
        BY <3>2 DEF IInv, MhiLocks
      <4> QED  BY <1>1, <4>1 DEF Sharable, mhiVars, MhiHolding, MhiSharing
    <3>3. CASE ahiFabric[a]
      BY <1>1, <1>4, <3>3 DEF Sharable
    <3> QED  BY <3>1, <3>2, <3>3
  <2> QED  BY <2>2, <2>3, <2>6, <2>7, <2>8, <2>9 DEF IInv
<1>5. CASE ToAhi(a, "closing") /\ turnedAway' = TRUE /\ UNCHANGED <<owner, irqs>>
  <2>1. \A b \in AhiTasks : ahiAt'[b] = IF b = a THEN "closing" ELSE ahiAt[b]
    BY <1>5 DEF ToAhi, IInv, TypeOK
  <2>2. TypeOK'
    BY <1>1, <1>5 DEF ToAhi, IInv, TypeOK, mhiVars, AhiPlaces
  <2>3. AhiLocks'
    BY <1>1, <1>2, <1>3, <1>5, <2>1, TasksAreTasks DEF IInv, AhiLocks, AhiOwning
  <2>4. AhiNodes' /\ Sharable' /\ AhiLive'
    BY <1>1, <1>5 DEF IInv, AhiNodes, Sharable, AhiLive, mhiVars
  <2>5. MhiLocks' /\ MhiLive'
    BY <1>1, <1>5, MhiUntouched
  <2> QED  BY <2>2, <2>3, <2>4, <2>5 DEF IInv
<1> QED  BY <1>4, <1>5 DEF Claim, AL, AF

\* destroy_interrupt: the owner a gives the card back and goes to place p.
LEMMA Destroyed ==
  ASSUME IInv, NEW a \in AhiTasks, NEW p \in {"out", "closing"}, ToAhi(a, p),
         destroy_interrupt, ahiAt[a] \in AhiOwning, turnedAway' = (turnedAway \/ p = "closing"),
         UNCHANGED <<allocating, ahiBase, ahiFabric, ahiOpened, mhiVars>>
  PROVE  IInv'
<1>1. \A b \in AhiTasks : ahiAt'[b] = IF b = a THEN p ELSE ahiAt[b]
  BY DEF ToAhi, IInv, TypeOK
<1>2. owner = a /\ owner' = NoTask /\ irqs' = {n \in irqs : n[1] # "AHI"}
  BY DEF IInv, AhiLocks, destroy_interrupt
<1>3. /\ irqs' \subseteq {AL, AF, ML, MF} /\ AL \notin irqs' /\ AF \notin irqs'
      /\ (ML \in irqs' <=> ML \in irqs) /\ (MF \in irqs' <=> MF \in irqs)
  BY <1>2, Removed DEF IInv
<1>4. TypeOK'
  BY <1>2, <1>3 DEF ToAhi, IInv, TypeOK, mhiVars, AhiPlaces
<1>5. AhiLocks'
  BY <1>1, <1>2, TasksAreTasks DEF IInv, AhiLocks, AhiOwning
<1>6. AhiNodes' /\ Sharable'
  BY <1>2, <1>3 DEF AhiNodes, Sharable
<1>7. AhiLive'
  BY <1>1 DEF IInv, AhiLive
<1>8. MhiLocks' /\ MhiLive'
  BY <1>3, MhiUntouched
<1> QED  BY <1>4, <1>5, <1>6, <1>7, <1>8 DEF IInv

\* The worker process is up, or the card is given back.
LEMMA HandshakeKept ==
  ASSUME IInv, NEW a \in AhiTasks, Handshake(a)
  PROVE  IInv'
<1>1. ahiAt[a] = "owner" /\ UNCHANGED <<allocating, ahiBase, ahiFabric, ahiOpened, mhiVars>>
  BY DEF Handshake
<1>2. CASE ToAhi(a, "running") /\ UNCHANGED <<owner, irqs, turnedAway>>
  <2>1. AhiLive'
    BY <1>1, <1>2 DEF ToAhi, IInv, TypeOK, AhiLive
  <2>2. ahiBase' \in BOOLEAN /\ ahiOpened' \in [AhiTasks -> BOOLEAN]
    BY <1>1 DEF IInv, TypeOK
  <2> QED  BY <1>1, <1>2, <2>1, <2>2, AhiMoves DEF AhiPlaces, AhiOwning
<1>3. CASE destroy_interrupt /\ turnedAway' = TRUE /\ ToAhi(a, "closing")
  <2>1. turnedAway' = (turnedAway \/ "closing" = "closing")
    BY <1>3
  <2> QED  BY <1>1, <1>3, <2>1, Destroyed DEF AhiOwning
<1> QED  BY <1>2, <1>3 DEF Handshake

\* A refused allocation closes the base: an allocation was turned away.
LEMMA CloseKept ==
  ASSUME IInv, NEW a \in AhiTasks, CloseControlPlane(a)
  PROVE  IInv'
<1>1. ahiAt[a] = "closing" /\ ToAhi(a, "out") /\ ahiBase' = FALSE
      /\ ahiOpened' = [ahiOpened EXCEPT ![a] = FALSE]
      /\ UNCHANGED <<owner, allocating, ahiFabric, turnedAway, irqs, mhiVars>>
  BY DEF CloseControlPlane
<1>2. AhiLive'
  BY <1>1 DEF IInv, AhiLocks, AhiLive
<1>3. ahiBase' \in BOOLEAN /\ ahiOpened' \in [AhiTasks -> BOOLEAN]
  BY <1>1 DEF IInv, TypeOK
<1> QED  BY <1>1, <1>2, <1>3, AhiMoves DEF AhiPlaces, AhiOwning

\* The worker has been awaited.
LEMMA FreeAudioKept ==
  ASSUME IInv, NEW a \in AhiTasks, FreeAudio(a)
  PROVE  IInv'
<1>1. ahiAt[a] = "running" /\ ToAhi(a, "joined")
      /\ UNCHANGED <<owner, allocating, ahiBase, ahiFabric, ahiOpened, turnedAway, irqs, mhiVars>>
  BY DEF FreeAudio
<1>2. AhiLive'
  BY <1>1 DEF ToAhi, IInv, TypeOK, AhiLive
<1>3. ahiBase' \in BOOLEAN /\ ahiOpened' \in [AhiTasks -> BOOLEAN]
  BY <1>1 DEF IInv, TypeOK
<1> QED  BY <1>1, <1>2, <1>3, AhiMoves DEF AhiPlaces, AhiOwning

\* The owner closes the base: nobody else can have opened one.
LEMMA FreeCloseKept ==
  ASSUME IInv, NEW a \in AhiTasks, FreeClose(a)
  PROVE  IInv'
<1>1. ahiAt[a] = "joined" /\ ToAhi(a, "leaving") /\ ahiBase' = FALSE
      /\ ahiOpened' = [ahiOpened EXCEPT ![a] = FALSE]
      /\ UNCHANGED <<owner, allocating, ahiFabric, turnedAway, irqs, mhiVars>>
  BY DEF FreeClose
<1>2. \A b \in AhiTasks : ahiAt'[b] = IF b = a THEN "leaving" ELSE ahiAt[b]
  BY <1>1 DEF ToAhi, IInv, TypeOK
<1>3. owner = a /\ allocating = NoTask
  BY <1>1, TasksAreTasks DEF IInv, AhiLocks, AhiOwning
<1>4. \A b \in AhiTasks : b # a => ahiAt[b] \notin {"probed", "owner", "running", "joined"}
  BY <1>3, TasksAreTasks DEF IInv, AhiLocks, AhiOwning
<1>5. AhiLive'
  BY <1>2, <1>4 DEF AhiLive
<1>6. ahiBase' \in BOOLEAN /\ ahiOpened' \in [AhiTasks -> BOOLEAN]
  BY <1>1 DEF IInv, TypeOK
<1> QED  BY <1>1, <1>5, <1>6, AhiMoves DEF AhiPlaces, AhiOwning

\* The card is free again.
LEMMA FreeDoneKept ==
  ASSUME IInv, NEW a \in AhiTasks, FreeDone(a)
  PROVE  IInv'
<1>1. ahiAt[a] = "leaving" /\ ToAhi(a, "out") /\ destroy_interrupt
      /\ UNCHANGED <<allocating, ahiBase, ahiFabric, ahiOpened, turnedAway, mhiVars>>
  BY DEF FreeDone
<1>2. turnedAway' = (turnedAway \/ "out" = "closing")
  BY <1>1 DEF IInv, TypeOK
<1> QED  BY <1>1, <1>2, Destroyed DEF AhiOwning

-----------------------------------------------------------------------------
(* The MHI library's steps.                                                *)

\* A decoder's task moves to place p and nothing is claimed or released.
LEMMA MhiMoves ==
  ASSUME IInv, NEW m \in MhiTasks, NEW p \in MhiPlaces, ToMhi(m, p),
         UNCHANGED <<decoders, mhiBase, sawAhi, irqs, ahiVars>>,
         mhiAt[m] \in MhiHolding <=> p \in MhiHolding,
         mhiAt[m] \in MhiSharing <=> p \in MhiSharing, p # "claimed",
         capsKnown' \in BOOLEAN, unsure' \in BOOLEAN, unsure => unsure',
         UNCHANGED probing, capsKnown => capsKnown', capsKnown' => probing = "no",
         p # "out" => unsure' \/ capsKnown'
  PROVE  IInv'
<1>1. \A n \in MhiTasks : mhiAt'[n] = IF n = m THEN p ELSE mhiAt[n]
  BY DEF ToMhi, IInv, TypeOK
<1>2. TypeOK'
  BY DEF ToMhi, IInv, TypeOK, ahiVars
<1>3. \A n \in MhiTasks : /\ mhiAt'[n] \in MhiHolding <=> mhiAt[n] \in MhiHolding
                          /\ mhiAt'[n] \in MhiSharing <=> mhiAt[n] \in MhiSharing
  BY <1>1
<1>4. MhiLocks'
  BY <1>3 DEF IInv, MhiLocks
<1>5. MhiLive'
  BY <1>1, <1>3 DEF IInv, MhiLive
<1>6. Sharable'
  BY <1>1, <1>3 DEF IInv, Sharable, ahiVars
<1>7. AhiLocks' /\ AhiNodes' /\ AhiLive'
  BY AhiUntouched
<1> QED  BY <1>2, <1>4, <1>5, <1>6, <1>7 DEF IInv

\* A decoder is asked for and the capabilities probed.
LEMMA AllocDecoderKept ==
  ASSUME IInv, NEW m \in MhiTasks, AllocDecoder(m)
  PROVE  IInv'
<1>1. mhiAt[m] = "out" /\ probing = "no" /\ ToMhi(m, "probed")
      /\ UNCHANGED <<decoders, mhiBase, sawAhi, probing, irqs, ahiVars>>
  BY DEF AllocDecoder
<1>2. /\ capsKnown' \in BOOLEAN /\ unsure' \in BOOLEAN /\ (unsure => unsure')
      /\ (capsKnown => capsKnown') /\ (unsure' \/ capsKnown')
  <2>1. CASE capsKnown /\ UNCHANGED <<capsKnown, unsure>>
    <3>1. capsKnown \in BOOLEAN /\ unsure \in BOOLEAN
      BY DEF IInv, TypeOK
    <3>2. capsKnown' = capsKnown /\ unsure' = unsure
      BY <2>1
    <3> QED  BY <2>1, <3>1, <3>2
  <2>2. CASE ~capsKnown /\ capsKnown' \in BOOLEAN /\ unsure' = (unsure \/ ~capsKnown')
    BY <2>2, Zenon
  <2> QED  BY <2>1, <2>2 DEF AllocDecoder
<1> QED  BY <1>1, <1>2, MhiMoves DEF MhiPlaces, MhiHolding, MhiSharing

\* The claim of the decoder: AHI's mode is the one of its owner.
LEMMA ClaimDecoderKept ==
  ASSUME IInv, NEW m \in MhiTasks, ClaimDecoder(m)
  PROVE  IInv'
<1>1. mhiAt[m] = "probed" /\ UNCHANGED <<capsKnown, unsure, probing, ahiVars>>
  BY DEF ClaimDecoder
<1>2. CASE decoders # 0 /\ ToMhi(m, "out") /\ UNCHANGED <<decoders, mhiBase, sawAhi, irqs>>
  <2>1. /\ capsKnown' \in BOOLEAN /\ unsure' \in BOOLEAN /\ (unsure => unsure')
        /\ (capsKnown => capsKnown') /\ (capsKnown' => probing = "no")
    BY <1>1 DEF IInv, TypeOK, MhiLive
  <2> QED  BY <1>1, <1>2, <2>1, MhiMoves DEF MhiPlaces, MhiHolding, MhiSharing
<1>3. CASE /\ decoders = 0 /\ decoders' = 1 /\ mhiBase' = m /\ ToMhi(m, "claimed")
           /\ sawAhi' = [sawAhi EXCEPT ![m] = Mode("AHI")] /\ irqs' = irqs \cup {ML}
  <2>1. \A n \in MhiTasks : mhiAt'[n] = IF n = m THEN "claimed" ELSE mhiAt[n]
    BY <1>3 DEF ToMhi, IInv, TypeOK
  <2>2. \A n \in MhiTasks : mhiAt[n] \notin MhiHolding
    BY <1>3 DEF IInv, MhiLocks
  <2>3. /\ ML \in irqs' /\ (MF \in irqs' <=> MF \in irqs)
        /\ (AL \in irqs' <=> AL \in irqs) /\ (AF \in irqs' <=> AF \in irqs)
    BY <1>3, NodesDiffer
  <2>4. Mode("AHI") \in Modes
    BY ModeIs DEF Modes, IInv
  <2>5. TypeOK'
    BY <1>1, <1>3, <2>4 DEF ToMhi, IInv, TypeOK, ahiVars, MhiPlaces, MhiHolding
  <2>6. MhiLocks'
    <3>1. MF \notin irqs
      BY <2>2 DEF IInv, MhiLocks, MhiHolding
    <3>2. \A n \in MhiTasks : /\ mhiAt'[n] \in MhiHolding <=> n = m
                              /\ mhiAt'[n] \notin MhiSharing
      BY <2>1, <2>2 DEF MhiHolding, MhiSharing
    <3> QED  BY <1>3, <2>3, <3>1, <3>2 DEF MhiLocks
  <2>7. MhiLive'
    BY <1>1, <1>3, <2>1, <2>2 DEF IInv, MhiLive
  <2>8. AhiLocks' /\ AhiNodes' /\ AhiLive'
    BY <1>1, <2>3, AhiUntouched
  <2>9. Sharable'
    <3>1. sawAhi'[m] = Mode("AHI")
      BY <1>3 DEF IInv, TypeOK
    <3>2. Mode("AHI") # "legacy" => owner = NoTask \/ ahiFabric[owner]
      BY ModeIs DEF IInv, AhiNodes
    <3>3. \A n \in MhiTasks : n # m => mhiAt'[n] \notin MhiSharing /\ mhiAt'[n] # "claimed"
      BY <2>1, <2>2 DEF MhiHolding
    <3> QED  BY <1>1, <2>1, <3>1, <3>2, <3>3 DEF Sharable, ahiVars, MhiSharing
  <2> QED  BY <2>5, <2>6, <2>7, <2>8, <2>9 DEF IInv
<1> QED  BY <1>2, <1>3 DEF ClaimDecoder, ML

\* unclaim_ownership_locked: the task that has the decoder gives it back.
LEMMA Unclaimed ==
  ASSUME IInv, NEW m \in MhiTasks, mhiAt[m] \in MhiHolding, ToMhi(m, "out"),
         unclaim_ownership_locked, UNCHANGED <<sawAhi, capsKnown, unsure, probing, ahiVars>>
  PROVE  IInv'
<1>1. \A n \in MhiTasks : mhiAt'[n] = IF n = m THEN "out" ELSE mhiAt[n]
  BY DEF ToMhi, IInv, TypeOK
<1>2. decoders' = 0 /\ mhiBase' = NoTask /\ irqs' = {n \in irqs : n[1] # "MHI"}
  BY DEF unclaim_ownership_locked
<1>3. /\ irqs' \subseteq {AL, AF, ML, MF} /\ ML \notin irqs' /\ MF \notin irqs'
      /\ (AL \in irqs' <=> AL \in irqs) /\ (AF \in irqs' <=> AF \in irqs)
  BY <1>2, Removed DEF IInv
<1>4. TypeOK'
  BY <1>2, <1>3 DEF ToMhi, IInv, TypeOK, ahiVars, MhiPlaces
<1>5. \A n \in MhiTasks : /\ mhiAt'[n] \notin MhiHolding /\ mhiAt'[n] \notin MhiSharing
                          /\ mhiAt'[n] # "claimed"
  BY <1>1 DEF IInv, MhiLocks, MhiHolding, MhiSharing
<1>6. MhiLocks' /\ Sharable'
  BY <1>2, <1>3, <1>5 DEF MhiLocks, Sharable
<1>7. MhiLive'
  BY <1>1, <1>2, <1>5 DEF IInv, MhiLive
<1>8. AhiLocks' /\ AhiNodes' /\ AhiLive'
  BY <1>3, AhiUntouched
<1> QED  BY <1>4, <1>6, <1>7, <1>8 DEF IInv

\* After the trim the decoder publishes that it can share, or leaves.
LEMMA QualifyKept ==
  ASSUME IInv, NEW m \in MhiTasks, Qualify(m)
  PROVE  IInv'
<1>1. mhiAt[m] = "claimed" /\ UNCHANGED <<sawAhi, capsKnown, unsure, probing, ahiVars>>
  BY DEF Qualify
<1>2. CASE unclaim_ownership_locked /\ ToMhi(m, "out")
  BY <1>1, <1>2, Unclaimed DEF MhiHolding
<1>3. CASE sawAhi[m] # "legacy" /\ irqs' = irqs \cup {MF} /\ ToMhi(m, "qualified")
           /\ UNCHANGED <<decoders, mhiBase>>
  <2>1. \A n \in MhiTasks : mhiAt'[n] = IF n = m THEN "qualified" ELSE mhiAt[n]
    BY <1>3 DEF ToMhi, IInv, TypeOK
  <2>2. /\ MF \in irqs' /\ (ML \in irqs' <=> ML \in irqs)
        /\ (AL \in irqs' <=> AL \in irqs) /\ (AF \in irqs' <=> AF \in irqs)
    BY <1>3, NodesDiffer
  <2>3. TypeOK'
    BY <1>1, <1>3 DEF ToMhi, IInv, TypeOK, ahiVars, MhiPlaces, MhiHolding, MhiSharing
  <2>4. \A n \in MhiTasks : mhiAt'[n] \in MhiHolding <=> mhiAt[n] \in MhiHolding
    BY <1>1, <2>1 DEF MhiHolding, MhiSharing
  <2>5. mhiAt'[m] \in MhiSharing
    BY <2>1 DEF MhiSharing
  <2>6. MhiLocks'
    BY <1>3, <2>2, <2>4, <2>5 DEF IInv, MhiLocks
  <2>7. MhiLive'
    BY <1>1, <1>3, <2>1, <2>4 DEF IInv, MhiLive
  <2>8. AhiLocks' /\ AhiNodes' /\ AhiLive'
    BY <1>1, <2>2, AhiUntouched
  <2>9. Sharable'
    BY <1>1, <1>3, <2>1 DEF IInv, Sharable, ahiVars
  <2> QED  BY <2>3, <2>6, <2>7, <2>8, <2>9 DEF IInv
<1> QED  BY <1>2, <1>3 DEF Qualify, MF

\* The feeder comes up or the decoder is given back.
LEMMA StartFeederKept ==
  ASSUME IInv, NEW m \in MhiTasks, StartFeeder(m)
  PROVE  IInv'
<1>1. mhiAt[m] = "qualified" /\ UNCHANGED <<sawAhi, capsKnown, unsure, probing, ahiVars>>
  BY DEF StartFeeder
<1>2. CASE ToMhi(m, "running") /\ UNCHANGED <<decoders, mhiBase, irqs>>
  <2>1. /\ capsKnown' \in BOOLEAN /\ unsure' \in BOOLEAN /\ (unsure => unsure')
        /\ (capsKnown => capsKnown') /\ (capsKnown' => probing = "no")
        /\ (unsure' \/ capsKnown')
    BY <1>1 DEF IInv, TypeOK, MhiLive
  <2> QED  BY <1>1, <1>2, <2>1, MhiMoves DEF MhiPlaces, MhiHolding, MhiSharing
<1>3. CASE unclaim_ownership_locked /\ ToMhi(m, "out")
  BY <1>1, <1>3, Unclaimed DEF MhiHolding, MhiSharing
<1> QED  BY <1>2, <1>3 DEF StartFeeder

\* The feeder is retired.
LEMMA FreeDecoderKept ==
  ASSUME IInv, NEW m \in MhiTasks, FreeDecoder(m)
  PROVE  IInv'
<1>1. mhiAt[m] = "running" /\ ToMhi(m, "quiet")
      /\ UNCHANGED <<decoders, mhiBase, sawAhi, capsKnown, unsure, probing, irqs, ahiVars>>
  BY DEF FreeDecoder
<1>2. /\ capsKnown' \in BOOLEAN /\ unsure' \in BOOLEAN /\ (unsure => unsure')
      /\ (capsKnown => capsKnown') /\ (capsKnown' => probing = "no") /\ (unsure' \/ capsKnown')
  BY <1>1 DEF IInv, TypeOK, MhiLive
<1> QED  BY <1>1, <1>2, MhiMoves DEF MhiPlaces, MhiHolding, MhiSharing

\* The decoder is free again.
LEMMA ReleaseDecoderKept ==
  ASSUME IInv, NEW m \in MhiTasks, ReleaseDecoder(m)
  PROVE  IInv'
BY Unclaimed DEF ReleaseDecoder, MhiHolding, MhiSharing

\* MHIQuery publishes and withdraws a base only while nothing is definite.
LEMMA ProbeKept ==
  ASSUME IInv, ProbeBegin \/ ProbeEnd
  PROVE  IInv'
<1>1. UNCHANGED <<decoders, mhiAt, sawAhi, unsure, irqs, ahiVars>>
  BY DEF ProbeBegin, ProbeEnd
<1>2. ~capsKnown /\ \A m \in MhiTasks : mhiAt[m] # "out" => unsure
  BY DEF ProbeBegin, ProbeEnd, IInv, MhiLive
<1>3. TypeOK'
  <2>1. mhiBase' \in MhiTasks \cup {NoTask, "query"}
    BY DEF ProbeBegin, ProbeEnd, IInv, TypeOK
  <2>2. probing' \in {"no", "borrowed", "published"}
    BY DEF ProbeBegin, ProbeEnd
  <2>3. capsKnown' \in BOOLEAN
    BY DEF ProbeBegin, ProbeEnd, IInv, TypeOK
  <2> QED  BY <1>1, <2>1, <2>2, <2>3 DEF IInv, TypeOK, ahiVars
<1>4. AhiLocks' /\ AhiNodes' /\ AhiLive'
  BY <1>1, AhiUntouched
<1>5. MhiLocks' /\ Sharable'
  BY <1>1 DEF IInv, MhiLocks, Sharable, ahiVars
<1>6. MhiLive'
  <2>1. \A m \in MhiTasks : mhiAt'[m] # "out" => unsure'
    BY <1>1, <1>2
  <2>2. \A m \in MhiTasks : mhiAt'[m] \in MhiHolding => mhiAt'[m] # "out"
    BY DEF MhiHolding, MhiSharing
  <2>3. capsKnown' => probing' = "no"
    BY DEF ProbeBegin, ProbeEnd
  <2>4. decoders' = 0 /\ probing' # "published" => mhiBase' = NoTask
    BY DEF ProbeBegin, ProbeEnd, IInv, MhiLive
  <2> QED  BY <2>1, <2>2, <2>3, <2>4 DEF MhiLive
<1> QED  BY <1>3, <1>4, <1>5, <1>6 DEF IInv

-----------------------------------------------------------------------------
(* The invariant and what follows.                                         *)

\* Nothing is allocated at first.
LEMMA InvInit == ASSUME OwnerInit PROVE IInv
<1>1. TypeOK
  BY DEF OwnerInit, TypeOK, AhiPlaces, MhiPlaces, Modes
<1>2. AhiLocks /\ AhiNodes /\ AhiLive
  BY TasksAreTasks DEF OwnerInit, AhiLocks, AhiNodes, AhiLive, AhiOwning
<1>3. MhiLocks /\ MhiLive /\ Sharable
  BY DEF OwnerInit, MhiLocks, MhiLive, Sharable, MhiHolding, MhiSharing
<1> QED  BY <1>1, <1>2, <1>3 DEF IInv

\* Every step keeps the invariant.
LEMMA InvNext == ASSUME IInv, [OwnerNext]_ownerVars PROVE IInv'
<1>1. ASSUME NEW a \in AhiTasks, AhiStep(a) PROVE IInv'
  BY <1>1, AllocBeginKept, ReserveKept, OpenKept, ClaimKept, HandshakeKept, CloseKept,
     FreeAudioKept, FreeCloseKept, FreeDoneKept DEF AhiStep
<1>2. ASSUME NEW m \in MhiTasks, MhiStep(m) PROVE IInv'
  BY <1>2, AllocDecoderKept, ClaimDecoderKept, QualifyKept, StartFeederKept, FreeDecoderKept,
     ReleaseDecoderKept DEF MhiStep
<1>3. CASE ProbeBegin \/ ProbeEnd
  BY <1>3, ProbeKept
<1>4. CASE UNCHANGED ownerVars
  BY <1>4 DEF ownerVars, ahiVars, mhiVars, IInv, TypeOK, AhiLocks, AhiNodes, AhiLive, MhiLocks,
     MhiLive, Sharable
<1> QED  BY <1>1, <1>2, <1>3, <1>4 DEF OwnerNext

\* A set with no two different elements has at most one.
LEMMA AtMostOne ==
  ASSUME NEW S, \A x, y \in S : x = y
  PROVE  Cardinality(S) <= 1
<1>1. CASE S = {}
  BY <1>1, FS_EmptySet
<1>2. CASE S # {}
  <2>1. PICK x : x \in S
    BY <1>2
  <2>2. S = {x}
    BY <2>1
  <2>3. Cardinality(S) = 1
    BY <2>2, FS_Singleton
  <2> QED  BY <2>3
<1> QED  BY <1>1, <1>2

\* The invariant makes the owners compatible and keeps their bases live.
LEMMA InvSafe == ASSUME IInv PROVE OwnershipSafe
<1>1. \A a \in AhiTasks : a \in AhiOwners <=> owner = a
  BY DEF AhiOwners, IInv, AhiLocks, AhiOwning
<1>2. \A m \in MhiTasks : m \in MhiOwners <=> mhiAt[m] \in MhiSharing
  BY DEF MhiOwners, MhiSharing
<1>3. AhiOwners \subseteq AhiTasks /\ MhiOwners \subseteq MhiTasks
  BY DEF AhiOwners, MhiOwners
<1>4. owner # NoTask => AhiOwners = {owner}
  BY <1>1, <1>3 DEF IInv, TypeOK
<1>5. owner = NoTask => AhiOwners = {}
  BY <1>1, <1>3, TasksAreTasks
<1>6. Cardinality(AhiOwners) <= 1
  BY <1>4, <1>5, AtMostOne
<1>7. Cardinality(MhiOwners) <= 1
  <2>1. \A m, n \in MhiOwners : m = n
    BY <1>2, <1>3 DEF IInv, MhiLocks, MhiHolding
  <2> QED  BY <2>1, AtMostOne
<1>8. AhiOwners # {} /\ MhiOwners # {} => \A a \in AhiOwners : ahiFabric[a]
  BY <1>2, <1>3, <1>4, <1>5 DEF IInv, Sharable
<1>9. AhiOwners # {} <=> <<"AHI", "legacy">> \in irqs
  BY <1>4, <1>5 DEF IInv, AhiNodes, AL
<1>10. MhiOwners # {} => <<"MHI", "legacy">> \in irqs
  BY <1>2, <1>3 DEF IInv, MhiLocks, MhiHolding, ML
<1>11. BasesLive
  <2>1. ~unsure => \A m \in MhiOwners : mhiBase = m
    BY <1>2, <1>3 DEF IInv, MhiLive, MhiHolding
  <2>2. decoders = 0 /\ probing = "no" => mhiBase = NoTask
    BY DEF IInv, MhiLive
  <2>3. ~turnedAway => \A a \in AhiTasks :
          ahiOpened[a] /\ ahiAt[a] \in {"probed", "owner", "running", "joined"} => ahiBase
    BY DEF IInv, AhiLive
  <2> QED  BY <2>1, <2>2, <2>3 DEF BasesLive
<1> QED  BY <1>4, <1>6, <1>7, <1>8, <1>9, <1>10, <1>11 DEF OwnershipSafe, OwnersCompatible

\* At any time at most one AHI client and one decoder own the audio engine,
\* both only when AHI plays through a lease, with their nodes on the server
\* list and a live library base, for any number of tasks.
THEOREM OwnershipIsSafe == OwnerSpec => []OwnershipSafe
<1>1. OwnerInit => IInv
  BY InvInit
<1>2. IInv /\ [OwnerNext]_ownerVars => IInv'
  BY InvNext
<1>3. IInv => OwnershipSafe
  BY InvSafe
<1> QED  BY <1>1, <1>2, <1>3, PTL DEF OwnerSpec

-----------------------------------------------------------------------------
(* The inductive invariant of the lease.                                   *)

\* Where a task is once its release has set lease_release_in_progress: before
\* and after the held lease became the one to release.
AfterTransfer == {"send release", "release sent", "release answered"}
InRelease == AfterTransfer \cup {"transfer"}
InAcquire == {"acquire", "acquire sent", "acquire answered", "rejected"}
LeasePlaces ==
  InRelease \cup InAcquire \cup
  {"release", "idle", "acquired", "started", "start stale", "stopped", "free", "join", "freed",
   "wait", "gone", "recovered", "recovery stale", "credits"}

\* The task is inside fabric_lease_release, or in it on behalf of place p.
Releasing(t) == at[t] \in InRelease \cup {"release"}
For(t, p) == at[t] = p \/ (Releasing(t) /\ back[t] = p)
Acquiring(t) == at[t] \in InAcquire \/ (Releasing(t) /\ back[t] = "rejected")

\* Start is under way: it may still publish, or surrenders a stale grant.
MayPublish == Acquiring("start") \/ at["start"] \in {"acquired", "started"}
StartActive == MayPublish \/ For("start", "start stale")
Recovering ==
  Acquiring("worker") \/ at["worker"] = "recovered" \/ For("worker", "recovery stale")

Answers == {"ok", "refused", "timeout", "usable", "unusable"}

LeaseTypeOK ==
  /\ playing \in BOOLEAN /\ gen \in Nat /\ held \in BOOLEAN /\ session \in Nat
  /\ mapped \in BOOLEAN /\ pending \in Nat /\ releasing \in BOOLEAN /\ acquiring \in BOOLEAN
  /\ uncertain \in BOOLEAN /\ retryAt \in BOOLEAN
  /\ accum \in Seq(Nat) /\ ring \in Seq(Nat) /\ paused \in BOOLEAN
  /\ at \in [Tasks -> LeasePlaces] /\ back \in [Tasks -> LeasePlaces]
  /\ ret \in [Tasks -> LeasePlaces] /\ slot \in [Tasks -> Nat]
  /\ reply \in [Tasks -> Answers \X Nat] /\ seen \in [Tasks -> Nat]
  /\ fw \in [1..Slots -> Nat] /\ granted \in Nat
  /\ unacked \subseteq Nat /\ unusable \subseteq Nat

\* Each task is where its own calls can take it.
StopPlaces ==
  /\ at["stop"] \in InRelease \cup {"release", "idle", "stopped"}
  /\ Releasing("stop") => back["stop"] = "idle"

StartPlaces ==
  /\ at["start"] \notin {"stopped", "wait", "gone", "recovered", "recovery stale", "credits"}
  /\ Releasing("start") => back["start"] \in {"rejected", "start stale", "free"}
  /\ Acquiring("start") => ret["start"] = "acquired" /\ slot["start"] >= 1
  /\ at["start"] \in {"acquire sent", "acquire answered"} => slot["start"] <= Slots

WorkerPlaces ==
  /\ at["worker"] \notin {"idle", "acquired", "started", "start stale", "stopped", "free",
                          "join", "freed"}
  /\ Releasing("worker") => back["worker"] \in {"rejected", "recovery stale", "wait"}
  /\ Acquiring("worker") => ret["worker"] = "recovered" /\ slot["worker"] >= 1
  /\ at["worker"] \in {"acquire sent", "acquire answered"} => slot["worker"] <= Slots

LeasePlacesOK == StopPlaces /\ StartPlaces /\ WorkerPlaces

\* One task releases at a time, and one acquires.
OneReleases ==
  /\ releasing <=> \E t \in Tasks : at[t] \in InRelease
  /\ \A t, u \in Tasks : at[t] \in InRelease /\ at[u] \in InRelease => t = u

OneAcquires ==
  /\ MayPublish /\ at["start"] # "started" => acquiring
  /\ Recovering => acquiring /\ ~StartActive

\* Playback begins only when nothing else is under way, and a Stop that
\* comes during a Start makes it stale.
StopWins ==
  /\ playing => at["start"] = "idle" /\ at["stop"] = "idle"
  /\ seen["start"] <= gen
  /\ MayPublish /\ at["stop"] # "idle" => seen["start"] < gen

\* What is staged or in the ring is of this playback, or on its way out.
PcmCurrent ==
  /\ at["stop"] = "stopped" \/ \A i \in DOMAIN accum : accum[i] = gen
  /\ held /\ mapped => \/ \A i \in DOMAIN ring : ring[i] = gen
                       \/ at["stop"] \in {"stopped", "release", "transfer"}
                       \/ at["start"] = "transfer"
  /\ held /\ mapped /\ (\E t \in Tasks : at[t] \in AfterTransfer) => ring = << >>

\* A lease to release is being released, or was tried to be.
PendingOwed ==
  pending = 0 \/ pending \in unacked \/ \E t \in Tasks : at[t] \in AfterTransfer

\* What the answer to a release, and to an acquire, says of the firmware.
ReleaseAnswer(t) ==
  at[t] = "release answered" =>
    \/ pending \in unacked
    \/ reply[t][1] = "ok" /\ \A s \in 1..Slots : fw[s] = 0 \/ fw[s] # pending

AcquireAnswer(t) ==
  at[t] = "acquire answered" =>
    /\ reply[t][2] <= granted
    /\ reply[t][1] = "unusable" => reply[t][2] \in unusable
    /\ reply[t][1] = "timeout" => reply[t][2] = 0 \/ reply[t][2] \in unacked
    /\ reply[t][1] = "refused" => reply[t][2] = 0
    /\ reply[t][1] # "ok"

\* A grant is never installed over another usable one.
NoUsable(t) == Acquiring(t) => ~held \/ session \in unusable

Identities ==
  /\ session <= granted /\ pending <= granted /\ PendingOwed
  /\ \A t \in Tasks : ReleaseAnswer(t) /\ AcquireAnswer(t) /\ NoUsable(t)

LeaseInv ==
  /\ LeaseTypeOK /\ LeasePlacesOK /\ OneReleases /\ OneAcquires
  /\ StopWins /\ PcmCurrent /\ Identities /\ LeaseTracked

-----------------------------------------------------------------------------
(* How a task moves.                                                       *)

\* Go changes one task's place.
LEMMA Goes ==
  ASSUME LeaseTypeOK, NEW t \in Tasks, NEW q, Go(t, q)
  PROVE  /\ at'[t] = q /\ \A u \in Tasks : u # t => at'[u] = at[u]
         /\ q \in LeasePlaces => at' \in [Tasks -> LeasePlaces]
BY DEF LeaseTypeOK, Go

\* What the other predicates say of a task depends on its own place only.
LEMMA Same ==
  ASSUME NEW u, at'[u] = at[u], back'[u] = back[u], ret'[u] = ret[u], slot'[u] = slot[u]
  PROVE  /\ Acquiring(u)' = Acquiring(u) /\ Releasing(u)' = Releasing(u)
         /\ \A p : For(u, p)' = For(u, p)
         /\ u = "stop" => StopPlaces' = StopPlaces
         /\ u = "start" => StartPlaces' = StartPlaces
         /\ u = "worker" => WorkerPlaces' = WorkerPlaces
BY DEF Acquiring, Releasing, For, StopPlaces, StartPlaces, WorkerPlaces

\* A step inside fabric_lease_release, or back to where it was called.
LEMMA ReleaseWalks ==
  ASSUME LeaseInv, NEW t \in Tasks, Releasing(t), NEW q \in InRelease \cup {back[t]}, Go(t, q),
         UNCHANGED <<transport, acquiring, back, ret, slot, seen>>
  PROVE  LeasePlacesOK' /\ OneAcquires' /\ StopWins'
<1>1. at'[t] = q /\ \A u \in Tasks : u # t => at'[u] = at[u]
  BY Goes DEF LeaseInv
<1>2. StopPlaces /\ StartPlaces /\ WorkerPlaces /\ OneAcquires /\ StopWins
  BY DEF LeaseInv, LeasePlacesOK
<1>3. at[t] \in InRelease \cup {"release"}
  BY DEF Releasing
<1>4. CASE t = "start"
  <2>1. /\ at'["stop"] = at["stop"] /\ at'["worker"] = at["worker"]
        /\ StopPlaces' /\ WorkerPlaces' /\ Recovering' = Recovering
    BY <1>1, <1>2, <1>4, Same DEF Tasks, Recovering
  <2>2. back["start"] \in {"rejected", "start stale", "free"}
    BY <1>2, <1>4 DEF StartPlaces
  <2>3. Acquiring("start")' = Acquiring("start")
        /\ For("start", "start stale")' = For("start", "start stale")
    BY <1>1, <1>3, <1>4, <2>2 DEF Acquiring, For, Releasing, InRelease, AfterTransfer, InAcquire
  <2>4. StartPlaces'
    BY <1>1, <1>2, <1>3, <1>4, <2>2, <2>3 DEF StartPlaces, Releasing, InRelease, AfterTransfer
  <2>5. MayPublish' = MayPublish /\ StartActive' = StartActive /\ at'["start"] # "started"
        /\ at["start"] # "started" /\ at["start"] # "idle"
    BY <1>1, <1>3, <1>4, <2>2, <2>3 DEF MayPublish, StartActive, InRelease, AfterTransfer
  <2>6. OneAcquires' /\ StopWins'
    BY <1>2, <2>1, <2>5 DEF OneAcquires, StopWins, transport
  <2> QED  BY <2>1, <2>4, <2>6 DEF LeasePlacesOK
<1>5. CASE t = "stop"
  <2>1. /\ at'["start"] = at["start"] /\ at'["worker"] = at["worker"]
        /\ StartPlaces' /\ WorkerPlaces' /\ Recovering' = Recovering
        /\ MayPublish' = MayPublish /\ StartActive' = StartActive
    BY <1>1, <1>2, <1>5, Same DEF Tasks, Recovering, MayPublish, StartActive
  <2>2. back["stop"] = "idle" /\ at["stop"] # "idle"
    BY <1>2, <1>3, <1>5 DEF StopPlaces, InRelease, AfterTransfer
  <2>3. StopPlaces'
    BY <1>1, <1>5, <2>2 DEF StopPlaces
  <2>4. OneAcquires' /\ StopWins'
    BY <1>2, <2>1, <2>2 DEF OneAcquires, StopWins, transport
  <2> QED  BY <2>1, <2>3, <2>4 DEF LeasePlacesOK
<1>6. CASE t = "worker"
  <2>1. /\ at'["start"] = at["start"] /\ at'["stop"] = at["stop"]
        /\ StartPlaces' /\ StopPlaces'
        /\ MayPublish' = MayPublish /\ StartActive' = StartActive
    BY <1>1, <1>2, <1>6, Same DEF Tasks, MayPublish, StartActive
  <2>2. back["worker"] \in {"rejected", "recovery stale", "wait"}
    BY <1>2, <1>6 DEF WorkerPlaces
  <2>3. Acquiring("worker")' = Acquiring("worker")
        /\ For("worker", "recovery stale")' = For("worker", "recovery stale")
    BY <1>1, <1>3, <1>6, <2>2 DEF Acquiring, For, Releasing, InRelease, AfterTransfer, InAcquire
  <2>4. WorkerPlaces'
    BY <1>1, <1>2, <1>3, <1>6, <2>2, <2>3 DEF WorkerPlaces, Releasing, InRelease, AfterTransfer
  <2>5. Recovering' = Recovering
    BY <1>1, <1>3, <1>6, <2>2, <2>3 DEF Recovering, InRelease, AfterTransfer
  <2>6. OneAcquires' /\ StopWins'
    BY <1>2, <2>1, <2>5 DEF OneAcquires, StopWins, transport
  <2> QED  BY <2>1, <2>4, <2>6 DEF LeasePlacesOK
<1> QED  BY <1>4, <1>5, <1>6 DEF Tasks

\* lease_release_in_progress follows the task that is in the release section.
LEMMA ReleaseSection ==
  ASSUME LeaseInv, NEW t \in Tasks, NEW q, Go(t, q),
         q \in InRelease => at[t] \in InRelease \/ ~releasing,
         releasing' <=> q \in InRelease \/ (releasing /\ at[t] \notin InRelease)
  PROVE  OneReleases'
<1>1. at'[t] = q /\ \A u \in Tasks : u # t => at'[u] = at[u]
  BY Goes DEF LeaseInv
<1>2. releasing <=> \E u \in Tasks : at[u] \in InRelease
  BY DEF LeaseInv, OneReleases
<1>3. \A u, v \in Tasks : at[u] \in InRelease /\ at[v] \in InRelease => u = v
  BY DEF LeaseInv, OneReleases
<1>4. releasing' <=> \E u \in Tasks : at'[u] \in InRelease
  BY <1>1, <1>2, <1>3
<1>5. \A u, v \in Tasks : at'[u] \in InRelease /\ at'[v] \in InRelease => u = v
  BY <1>1, <1>2, <1>3
<1> QED  BY <1>4, <1>5 DEF OneReleases

\* Where a release returns to is outside of it.
LEMMA BackOutside ==
  ASSUME LeaseInv, NEW t \in Tasks, Releasing(t)
  PROVE  /\ back[t] \in {"idle", "rejected", "start stale", "free", "recovery stale", "wait"}
         /\ back[t] \notin InRelease /\ back[t] \notin AfterTransfer
         /\ back[t] \notin {"transfer", "release", "stopped", "acquire answered"}
<1>1. back[t] \in {"idle", "rejected", "start stale", "free", "recovery stale", "wait"}
  BY DEF LeaseInv, LeasePlacesOK, StopPlaces, StartPlaces, WorkerPlaces, Tasks
<1> QED  BY <1>1 DEF InRelease, AfterTransfer

\* A step that neither installs nor gives up a lease, and reads no answer.
LEMMA SameIdentities ==
  ASSUME LeaseInv, NEW t \in Tasks, NEW q, Go(t, q), UNCHANGED <<held, session, pending, card>>,
         \A u \in Tasks : u # t => reply'[u] = reply[u] /\ back'[u] = back[u],
         q \notin {"release answered", "acquire answered"},
         at[t] \in AfterTransfer => q \in AfterTransfer \/ pending = 0 \/ pending \in unacked,
         Acquiring(t)' => Acquiring(t) \/ ~held,
         at[t] = "acquire answered" => reply[t][1] \in {"refused", "timeout"}
  PROVE  Identities' /\ LeaseTracked'
<1>1. at'[t] = q /\ \A u \in Tasks : u # t => at'[u] = at[u]
  BY Goes DEF LeaseInv
<1>2. UNCHANGED <<fw, granted, unacked, unusable>>
  BY DEF card
<1>3. Identities /\ LeaseTracked
  BY DEF LeaseInv
<1>4. PendingOwed'
  BY <1>1, <1>2, <1>3 DEF Identities, PendingOwed
<1>5. \A u \in Tasks : u # t => ReleaseAnswer(u)' /\ AcquireAnswer(u)' /\ NoUsable(u)'
  <2> TAKE u \in Tasks
  <2> HAVE u # t
  <2>1. ReleaseAnswer(u) /\ AcquireAnswer(u) /\ NoUsable(u)
    BY <1>3 DEF Identities
  <2> QED  BY <1>1, <1>2, <2>1 DEF ReleaseAnswer, AcquireAnswer, NoUsable, Acquiring, Releasing
<1>6. ReleaseAnswer(t)' /\ AcquireAnswer(t)'
  BY <1>1 DEF ReleaseAnswer, AcquireAnswer
<1>7. NoUsable(t)'
  BY <1>2, <1>3 DEF Identities, NoUsable
<1>8. LeaseTracked'
  <2> SUFFICES ASSUME NEW s \in 1..Slots, fw[s] # 0, fw[s] \notin unacked \cup unusable,
                      ~(held /\ session = fw[s]), pending # fw[s]
               PROVE  \E u \in Tasks : at'[u] = "acquire answered" /\ reply'[u][2] = fw[s]
    BY <1>2 DEF LeaseTracked
  <2>1. PICK u \in Tasks : at[u] = "acquire answered" /\ reply[u][2] = fw[s]
    BY <1>3 DEF LeaseTracked
  <2>2. u # t
    BY <1>3, <2>1 DEF Identities, AcquireAnswer
  <2> QED  BY <1>1, <2>1, <2>2
<1> QED  BY <1>2, <1>3, <1>4, <1>5, <1>6, <1>7, <1>8 DEF Identities

\* A step that neither mixes, plays nor gives up a lease, of a task that does
\* not have to surrender one.
LEMMA SamePcm ==
  ASSUME LeaseInv, NEW t \in Tasks, NEW q, Go(t, q), UNCHANGED <<pcm, gen, held, mapped>>,
         at[t] \notin {"stopped", "release", "transfer"},
         q \in AfterTransfer => at[t] \in AfterTransfer
  PROVE  PcmCurrent'
<1>1. at'[t] = q /\ \A u \in Tasks : u # t => at'[u] = at[u]
  BY Goes DEF LeaseInv
<1>2. \A u \in Tasks : at[u] \in {"stopped", "release", "transfer"} => at'[u] = at[u]
  BY <1>1
<1>3. (\E u \in Tasks : at'[u] \in AfterTransfer) => \E u \in Tasks : at[u] \in AfterTransfer
  BY <1>1
<1>4. "stop" \in Tasks /\ "start" \in Tasks
  BY DEF Tasks
<1> QED  BY <1>2, <1>3, <1>4 DEF LeaseInv, PcmCurrent, pcm

-----------------------------------------------------------------------------
(* fabric_lease_release.                                                   *)

\* The release begins, or finds another under way.
LEMMA ReleaseBeginKept ==
  ASSUME LeaseInv, NEW t \in Tasks, ReleaseBegin(t)
  PROVE  LeaseInv'
<1>1. /\ at[t] = "release" /\ MayRun(t)
      /\ UNCHANGED <<transport, held, session, mapped, pending, acquiring,
                     uncertain, retryAt, pcm, calls, card>>
  BY DEF ReleaseBegin
<1>2. /\ back[t] \notin InRelease /\ back[t] \notin AfterTransfer
      /\ back[t] \notin {"transfer", "release", "stopped", "acquire answered"}
  BY <1>1, BackOutside DEF Releasing
<1>3. PICK q \in {back[t], "transfer"} :
        Go(t, q) /\ releasing' = TRUE /\ (q = back[t] <=> releasing)
  BY <1>2 DEF ReleaseBegin, LeaseInv, LeaseTypeOK
<1>4. at'[t] = q /\ \A u \in Tasks : u # t => at'[u] = at[u]
  BY <1>3, Goes DEF LeaseInv
<1>5. LeaseTypeOK'
  <2>1. q \in LeasePlaces
    BY <1>3 DEF LeaseInv, LeaseTypeOK, LeasePlaces, InRelease
  <2>2. at' \in [Tasks -> LeasePlaces]
    BY <1>3, <2>1, Goes DEF LeaseInv
  <2> QED  BY <1>1, <1>3, <2>2 DEF LeaseInv, LeaseTypeOK, transport, pcm, calls, card
<1>6. LeasePlacesOK' /\ OneAcquires' /\ StopWins'
  BY <1>1, <1>3, ReleaseWalks DEF Releasing, calls, InRelease
<1>7. OneReleases'
  BY <1>1, <1>2, <1>3, ReleaseSection DEF InRelease, AfterTransfer
<1>8. \A u \in Tasks : at'[u] \in AfterTransfer <=> at[u] \in AfterTransfer
  BY <1>1, <1>2, <1>3, <1>4 DEF AfterTransfer
<1>9. PcmCurrent'
  <2>1. UNCHANGED <<accum, ring, gen, held, mapped>>
    BY <1>1 DEF pcm, transport
  <2>2. ASSUME held, mapped, t = "stop", q = back[t]
        PROVE  ring = << >> \/ at["start"] = "transfer"
    <3>1. PICK u \in Tasks : at[u] \in InRelease
      BY <1>3, <2>2 DEF LeaseInv, OneReleases
    <3>2. u # "stop" /\ at["worker"] # "transfer"
      BY <1>1, <2>2, <3>1 DEF MayRun, Blocked, InRelease, AfterTransfer
    <3>3. at[u] \in AfterTransfer \/ (u = "start" /\ at[u] = "transfer")
      BY <3>1, <3>2 DEF InRelease, Tasks
    <3> QED  BY <2>2, <3>3 DEF LeaseInv, PcmCurrent
  <2>3. at["stop"] = "stopped" => at'["stop"] = "stopped"
    BY <1>1, <1>4 DEF Tasks
  <2>4. at["start"] = "transfer" => at'["start"] = "transfer"
    BY <1>1, <1>4 DEF Tasks
  <2>5. at["stop"] \in {"stopped", "release", "transfer"} =>
          at'["stop"] \in {"stopped", "release", "transfer"} \/ (t = "stop" /\ q = back[t])
    BY <1>3, <1>4 DEF Tasks
  <2>6. PcmCurrent
    BY DEF LeaseInv
  <2>7. ring = << >> => \A i \in DOMAIN ring : ring[i] = gen
    OBVIOUS
  <2> QED  BY <1>8, <2>1, <2>2, <2>3, <2>4, <2>5, <2>6, <2>7 DEF PcmCurrent
<1>10. Acquiring(t)' => Acquiring(t)
  BY <1>1, <1>2, <1>3, <1>4, BackOutside
     DEF Acquiring, Releasing, InRelease, AfterTransfer, InAcquire, calls
<1>11. Identities' /\ LeaseTracked'
  BY <1>1, <1>2, <1>3, <1>10, SameIdentities DEF calls, AfterTransfer
<1> QED  BY <1>5, <1>6, <1>7, <1>9, <1>11 DEF LeaseInv

\* The held lease becomes the one to release.  Whatever was there before had
\* been tried: no other task is past its transfer.
LEMMA ReleaseTransferKept ==
  ASSUME LeaseInv, NEW t \in Tasks, ReleaseTransfer(t)
  PROVE  LeaseInv'
<1>1. /\ at[t] = "transfer" /\ Go(t, "send release") /\ held' = FALSE
      /\ pending' = IF held THEN session ELSE pending
      /\ session' = IF held THEN 0 ELSE session
      /\ mapped' = (mapped /\ ~held)
      /\ UNCHANGED <<transport, releasing, acquiring, uncertain, retryAt, pcm, calls, card>>
  BY DEF ReleaseTransfer, Transfer
<1>2. at'[t] = "send release" /\ \A u \in Tasks : u # t => at'[u] = at[u]
  BY <1>1, Goes DEF LeaseInv
<1>3. LeaseTypeOK'
  <2>1. at' \in [Tasks -> LeasePlaces]
    BY <1>1, Goes DEF LeaseInv, LeasePlaces, InRelease, AfterTransfer
  <2>2. pending' \in Nat /\ session' \in Nat /\ mapped' \in BOOLEAN /\ held' \in BOOLEAN
    BY <1>1 DEF LeaseInv, LeaseTypeOK
  <2> QED  BY <1>1, <2>1, <2>2 DEF LeaseInv, LeaseTypeOK, transport, pcm, calls, card
<1>4. LeasePlacesOK' /\ OneAcquires' /\ StopWins'
  BY <1>1, ReleaseWalks DEF Releasing, calls, InRelease, AfterTransfer
<1>5. OneReleases'
  BY <1>1, ReleaseSection DEF InRelease, AfterTransfer, LeaseInv, OneReleases
<1>6. PcmCurrent'
  <2>1. at["stop"] = "stopped" => at'["stop"] = "stopped"
    BY <1>1, <1>2 DEF Tasks
  <2> QED  BY <1>1, <2>1 DEF LeaseInv, PcmCurrent, pcm, transport
<1>7. UNCHANGED <<fw, granted, unacked, unusable, reply, back>>
  BY <1>1 DEF card, calls
<1>8. \A u \in Tasks : u # t => at[u] \notin InRelease
  BY <1>1 DEF LeaseInv, OneReleases, InRelease
<1>9. Identities /\ LeaseTracked
  BY DEF LeaseInv
<1>10. pending = 0 \/ pending \in unacked
  BY <1>1, <1>8, <1>9 DEF Identities, PendingOwed, InRelease, AfterTransfer
<1>11. Identities'
  <2>1. session' <= granted' /\ pending' <= granted'
    <3>1. granted \in Nat /\ granted' = granted /\ 0 <= granted
          /\ session <= granted /\ pending <= granted
      BY <1>7, <1>9 DEF Identities, LeaseInv, LeaseTypeOK
    <3>2. session' \in {session, 0} /\ pending' \in {session, pending, 0}
      BY <1>1
    <3> QED  BY <3>1, <3>2
  <2>2. PendingOwed'
    BY <1>2 DEF PendingOwed, AfterTransfer
  <2>3. ASSUME NEW u \in Tasks PROVE ReleaseAnswer(u)' /\ AcquireAnswer(u)' /\ NoUsable(u)'
    <3>1. ReleaseAnswer(u)'
      BY <1>2, <1>8 DEF ReleaseAnswer, InRelease, AfterTransfer
    <3>2. AcquireAnswer(u)'
      BY <1>2, <1>7, <1>9 DEF AcquireAnswer, Identities
    <3>3. NoUsable(u)'
      BY <1>1 DEF NoUsable
    <3> QED  BY <3>1, <3>2, <3>3
  <2> QED  BY <2>1, <2>2, <2>3 DEF Identities
<1>12. LeaseTracked'
  <2> SUFFICES ASSUME NEW s \in 1..Slots, fw[s] # 0, fw[s] \notin unacked \cup unusable,
                      pending' # fw[s]
               PROVE  \E u \in Tasks : at'[u] = "acquire answered" /\ reply'[u][2] = fw[s]
    BY <1>7 DEF LeaseTracked
  <2>1. PICK u \in Tasks : at[u] = "acquire answered" /\ reply[u][2] = fw[s]
    BY <1>1, <1>9, <1>10 DEF LeaseTracked
  <2> QED  BY <1>1, <1>2, <1>7, <2>1
<1> QED  BY <1>3, <1>4, <1>5, <1>6, <1>11, <1>12 DEF LeaseInv

\* The release is sent, unless there is nothing to release.
LEMMA ReleaseSendKept ==
  ASSUME LeaseInv, NEW t \in Tasks, ReleaseSend(t)
  PROVE  LeaseInv'
<1>1. /\ at[t] = "send release"
      /\ UNCHANGED <<transport, held, session, mapped, pending, acquiring,
                     uncertain, retryAt, pcm, calls, card>>
  BY DEF ReleaseSend
<1>2. back[t] \notin InRelease /\ back[t] \notin AfterTransfer /\ back[t] # "acquire answered"
  BY <1>1, BackOutside DEF Releasing, InRelease, AfterTransfer
<1>3. releasing = TRUE
  BY <1>1 DEF LeaseInv, LeaseTypeOK, OneReleases, InRelease, AfterTransfer
<1>4. PICK q \in {back[t], "release sent"} :
        Go(t, q) /\ (q = back[t] => pending = 0) /\ (releasing' <=> q = "release sent")
        /\ releasing' \in BOOLEAN
  BY <1>2, <1>3 DEF ReleaseSend, InRelease, AfterTransfer
<1>5. at'[t] = q /\ \A u \in Tasks : u # t => at'[u] = at[u]
  BY <1>4, Goes DEF LeaseInv
<1>6. LeaseTypeOK'
  <2>1. q \in LeasePlaces
    BY <1>4 DEF LeaseInv, LeaseTypeOK, LeasePlaces, InRelease, AfterTransfer
  <2>2. at' \in [Tasks -> LeasePlaces]
    BY <1>4, <2>1, Goes DEF LeaseInv
  <2> QED  BY <1>1, <1>4, <2>2 DEF LeaseInv, LeaseTypeOK, transport, pcm, calls, card
<1>7. LeasePlacesOK' /\ OneAcquires' /\ StopWins'
  BY <1>1, <1>4, ReleaseWalks DEF Releasing, calls, InRelease, AfterTransfer
<1>8. OneReleases'
  BY <1>1, <1>2, <1>4, ReleaseSection DEF InRelease, AfterTransfer
<1>9. PcmCurrent'
  BY <1>1, <1>2, <1>4, SamePcm DEF transport, AfterTransfer
<1>10. Acquiring(t)' => Acquiring(t)
  BY <1>1, <1>2, <1>4, <1>5, BackOutside
     DEF Acquiring, Releasing, InRelease, AfterTransfer, InAcquire, calls
<1>11. Identities' /\ LeaseTracked'
  BY <1>1, <1>2, <1>4, <1>10, SameIdentities DEF calls, AfterTransfer
<1> QED  BY <1>6, <1>7, <1>8, <1>9, <1>11 DEF LeaseInv

\* The firmware's side: done or not, and acknowledged or not.
LEMMA FwReleaseKept ==
  ASSUME LeaseInv, NEW t \in Tasks, FwRelease(t)
  PROVE  LeaseInv'
<1>1. /\ at[t] = "release sent" /\ Go(t, "release answered")
      /\ UNCHANGED <<transport, lease, pcm, back, ret, slot, seen, granted, unusable>>
  BY DEF FwRelease
<1>2. PICK ok, done \in BOOLEAN :
       /\ ok => done
       /\ reply' = [reply EXCEPT ![t] = <<IF ok THEN "ok" ELSE "timeout", 0>>]
       /\ fw' = IF done THEN [s \in 1..Slots |-> IF fw[s] = pending THEN 0 ELSE fw[s]] ELSE fw
       /\ unacked' = IF ok THEN unacked ELSE unacked \cup {pending}
  BY DEF FwRelease
<1>3. at'[t] = "release answered" /\ \A u \in Tasks : u # t => at'[u] = at[u]
  BY <1>1, Goes DEF LeaseInv
<1>4. UNCHANGED <<held, session, mapped, pending, releasing, acquiring, uncertain, retryAt>>
  BY <1>1 DEF lease
<1>5. /\ fw' \in [1..Slots -> Nat] /\ unacked \subseteq unacked' /\ unacked' \subseteq Nat
      /\ \A s \in 1..Slots : fw'[s] = 0 \/ fw'[s] = fw[s]
      /\ (ok => \A s \in 1..Slots : fw'[s] = 0 \/ fw'[s] # pending)
      /\ (~ok => pending \in unacked')
  BY <1>2 DEF LeaseInv, LeaseTypeOK
<1>6. /\ reply' \in [Tasks -> Answers \X Nat] /\ (ok => reply'[t][1] = "ok")
      /\ \A u \in Tasks : u # t => reply'[u] = reply[u]
  BY <1>2 DEF LeaseInv, LeaseTypeOK, Answers
<1>7. LeaseTypeOK'
  <2>1. at' \in [Tasks -> LeasePlaces]
    BY <1>1, Goes DEF LeaseInv, LeasePlaces, InRelease, AfterTransfer
  <2> QED  BY <1>1, <1>4, <1>5, <1>6, <2>1 DEF LeaseInv, LeaseTypeOK, transport, pcm
<1>8. LeasePlacesOK' /\ OneAcquires' /\ StopWins'
  BY <1>1, <1>4, ReleaseWalks DEF Releasing, InRelease, AfterTransfer
<1>9. OneReleases'
  BY <1>1, <1>4, ReleaseSection DEF InRelease, AfterTransfer, LeaseInv, OneReleases
<1>10. PcmCurrent'
  BY <1>1, <1>4, SamePcm DEF transport, AfterTransfer
<1>11. \A u \in Tasks : u # t => at[u] \notin InRelease
  BY <1>1 DEF LeaseInv, OneReleases, InRelease, AfterTransfer
<1>12. Identities /\ LeaseTracked
  BY DEF LeaseInv
<1>13. Identities'
  <2>1. session' <= granted' /\ pending' <= granted'
    BY <1>1, <1>4, <1>12 DEF Identities
  <2>2. PendingOwed'
    BY <1>3 DEF PendingOwed, AfterTransfer
  <2>3. ASSUME NEW u \in Tasks PROVE ReleaseAnswer(u)' /\ AcquireAnswer(u)' /\ NoUsable(u)'
    <3>1. ReleaseAnswer(u)'
      BY <1>3, <1>4, <1>5, <1>6, <1>11 DEF ReleaseAnswer, InRelease, AfterTransfer
    <3>2. AcquireAnswer(u)'
      BY <1>1, <1>3, <1>5, <1>6, <1>12 DEF AcquireAnswer, Identities
    <3>3. Acquiring(u)' = Acquiring(u)
      BY <1>1, <1>3 DEF Acquiring, Releasing, InRelease, AfterTransfer, InAcquire
    <3>4. NoUsable(u)'
      BY <1>1, <1>4, <1>12, <3>3 DEF NoUsable, Identities
    <3> QED  BY <3>1, <3>2, <3>4
  <2> QED  BY <2>1, <2>2, <2>3 DEF Identities
<1>14. LeaseTracked'
  <2> SUFFICES ASSUME NEW s \in 1..Slots, fw'[s] # 0, fw'[s] \notin unacked' \cup unusable',
                      ~(held' /\ session' = fw'[s]), pending' # fw'[s]
               PROVE  \E u \in Tasks : at'[u] = "acquire answered" /\ reply'[u][2] = fw'[s]
    BY DEF LeaseTracked
  <2>1. fw'[s] = fw[s] /\ fw[s] \notin unacked \cup unusable
    BY <1>1, <1>5
  <2>2. PICK u \in Tasks : at[u] = "acquire answered" /\ reply[u][2] = fw[s]
    BY <1>4, <1>12, <2>1 DEF LeaseTracked
  <2>3. u # t
    BY <1>1, <2>2
  <2> QED  BY <1>3, <1>6, <2>1, <2>2, <2>3
<1> QED  BY <1>7, <1>8, <1>9, <1>10, <1>13, <1>14 DEF LeaseInv

\* The answer is read: the lease is gone, or still to be released.
LEMMA ReleaseDoneKept ==
  ASSUME LeaseInv, NEW t \in Tasks, ReleaseDone(t)
  PROVE  LeaseInv'
<1>1. /\ at[t] = "release answered" /\ Go(t, back[t]) /\ releasing' = FALSE
      /\ UNCHANGED <<transport, held, session, mapped, acquiring, uncertain, pcm, calls, card>>
  BY DEF ReleaseDone
<1>2. \/ reply[t][1] = "ok" /\ pending' = 0 /\ retryAt' = FALSE
      \/ reply[t][1] # "ok" /\ retryAt' = TRUE /\ pending' = pending
  BY DEF ReleaseDone
<1>3. back[t] \notin InRelease /\ back[t] \notin AfterTransfer /\ back[t] # "acquire answered"
  BY <1>1, BackOutside DEF Releasing, InRelease, AfterTransfer
<1>4. at'[t] = back[t] /\ \A u \in Tasks : u # t => at'[u] = at[u]
  BY <1>1, Goes DEF LeaseInv
<1>5. LeaseTypeOK'
  <2>1. at' \in [Tasks -> LeasePlaces]
    BY <1>1, Goes DEF LeaseInv, LeaseTypeOK
  <2>2. pending' \in Nat
    BY <1>2 DEF LeaseInv, LeaseTypeOK
  <2>3. retryAt' \in BOOLEAN
    BY <1>2
  <2> QED  BY <1>1, <2>1, <2>2, <2>3 DEF LeaseInv, LeaseTypeOK, transport, pcm, calls, card
<1>6. LeasePlacesOK' /\ OneAcquires' /\ StopWins'
  BY <1>1, ReleaseWalks DEF Releasing, calls, InRelease, AfterTransfer
<1>7. OneReleases'
  BY <1>1, <1>3, ReleaseSection DEF InRelease, AfterTransfer
<1>8. PcmCurrent'
  BY <1>1, <1>3, SamePcm DEF transport, AfterTransfer
<1>9. UNCHANGED <<fw, granted, unacked, unusable, reply, back>>
  BY <1>1 DEF card, calls
<1>10. \A u \in Tasks : u # t => at[u] \notin InRelease
  BY <1>1 DEF LeaseInv, OneReleases, InRelease, AfterTransfer
<1>11. Identities /\ LeaseTracked
  BY DEF LeaseInv
<1>12. \/ pending \in unacked
       \/ reply[t][1] = "ok" /\ \A s \in 1..Slots : fw[s] = 0 \/ fw[s] # pending
  BY <1>1, <1>11 DEF Identities, ReleaseAnswer
<1>13. Identities'
  <2>1. session' <= granted' /\ pending' <= granted'
    <3>1. granted \in Nat /\ granted' = granted /\ 0 <= granted
          /\ session <= granted /\ pending <= granted
      BY <1>9, <1>11 DEF Identities, LeaseInv, LeaseTypeOK
    <3>2. session' \in {session, 0} /\ pending' \in {session, pending, 0}
      BY <1>1, <1>2
    <3> QED  BY <3>1, <3>2
  <2>2. PendingOwed'
    BY <1>2, <1>9, <1>12 DEF PendingOwed
  <2>3. ASSUME NEW u \in Tasks PROVE ReleaseAnswer(u)' /\ AcquireAnswer(u)' /\ NoUsable(u)'
    <3>1. ReleaseAnswer(u)'
      BY <1>3, <1>4, <1>10 DEF ReleaseAnswer, InRelease, AfterTransfer
    <3>2. AcquireAnswer(u)'
      BY <1>3, <1>4, <1>9, <1>11 DEF AcquireAnswer, Identities
    <3>3. Acquiring(u)' => Acquiring(u)
      BY <1>1, <1>4, <1>9, BackOutside
         DEF Acquiring, Releasing, InRelease, AfterTransfer, InAcquire
    <3>4. NoUsable(u)'
      BY <1>1, <1>9, <1>11, <3>3 DEF NoUsable, Identities
    <3> QED  BY <3>1, <3>2, <3>4
  <2> QED  BY <2>1, <2>2, <2>3 DEF Identities
<1>14. LeaseTracked'
  <2> SUFFICES ASSUME NEW s \in 1..Slots, fw[s] # 0, fw[s] \notin unacked \cup unusable,
                      ~(held /\ session = fw[s]), pending' # fw[s]
               PROVE  \E u \in Tasks : at'[u] = "acquire answered" /\ reply'[u][2] = fw[s]
    BY <1>1, <1>9 DEF LeaseTracked
  <2>1. pending # fw[s]
    BY <1>2, <1>12
  <2>2. PICK u \in Tasks : at[u] = "acquire answered" /\ reply[u][2] = fw[s]
    BY <1>11, <2>1 DEF LeaseTracked
  <2> QED  BY <1>1, <1>4, <1>9, <2>2
<1> QED  BY <1>5, <1>6, <1>7, <1>8, <1>13, <1>14 DEF LeaseInv

-----------------------------------------------------------------------------
(* fabric_lease_acquire.                                                   *)

\* A step inside fabric_lease_acquire, into the release of an unusable grant,
\* or back to where it was called.
LEMMA AcquireWalks ==
  ASSUME LeaseInv, NEW t \in Tasks, at[t] \in InAcquire, NEW q, Go(t, q),
         q \in InAcquire \cup {ret[t], "release"},
         UNCHANGED <<transport, acquiring, ret, seen>>,
         q = "release" => back'[t] = "rejected",
         NEW n \in Nat, slot'[t] = n, n >= 1,
         q \in {"acquire sent", "acquire answered"} => n <= Slots,
         \A u \in Tasks : u # t => slot'[u] = slot[u] /\ back'[u] = back[u]
  PROVE  LeasePlacesOK' /\ OneAcquires' /\ StopWins'
<1>1. at'[t] = q /\ \A u \in Tasks : u # t => at'[u] = at[u]
  BY Goes DEF LeaseInv
<1>2. StopPlaces /\ StartPlaces /\ WorkerPlaces /\ OneAcquires /\ StopWins
  BY DEF LeaseInv, LeasePlacesOK
<1>3. Acquiring(t) /\ slot[t] \in Nat /\ ret' = ret
  BY DEF Acquiring, LeaseInv, LeaseTypeOK
<1>4. t # "stop"
  BY <1>2 DEF StopPlaces, InAcquire, InRelease, AfterTransfer
<1>5. CASE t = "start"
  <2>1. /\ at'["stop"] = at["stop"] /\ at'["worker"] = at["worker"]
        /\ StopPlaces' /\ WorkerPlaces' /\ Recovering' = Recovering
    BY <1>1, <1>2, <1>5, Same DEF Tasks, Recovering
  <2>2. ret["start"] = "acquired" /\ slot["start"] >= 1
    BY <1>2, <1>3, <1>5 DEF StartPlaces
  <2>3. StartPlaces'
    <3>1. slot'["start"] >= 1 /\ ret'["start"] = "acquired"
      BY <1>3, <1>5, <2>2
    <3>2. Releasing("start")' => back'["start"] = "rejected"
      BY <1>1, <1>5, <2>2 DEF Releasing, InAcquire, InRelease, AfterTransfer
    <3>3. at'["start"] \in InAcquire \cup {"acquired", "release"}
      BY <1>1, <1>5, <2>2
    <3>4. at'["start"] \in {"acquire sent", "acquire answered"} => slot'["start"] <= Slots
      BY <1>1, <1>5
    <3> QED  BY <3>1, <3>2, <3>3, <3>4 DEF StartPlaces, InAcquire
  <2>4. MayPublish /\ MayPublish' /\ StartActive /\ StartActive'
        /\ at["start"] # "started" /\ at'["start"] # "started"
    BY <1>1, <1>3, <1>5, <2>2
       DEF MayPublish, StartActive, Acquiring, Releasing, InAcquire, InRelease, AfterTransfer
  <2>5. ~playing /\ acquiring
    BY <1>2, <1>5, <2>4 DEF StopWins, OneAcquires, InAcquire
  <2>6. OneAcquires' /\ StopWins'
    BY <1>2, <2>1, <2>4, <2>5 DEF OneAcquires, StopWins, transport
  <2> QED  BY <2>1, <2>3, <2>6 DEF LeasePlacesOK
<1>6. CASE t = "worker"
  <2>1. /\ at'["start"] = at["start"] /\ at'["stop"] = at["stop"]
        /\ StartPlaces' /\ StopPlaces'
        /\ MayPublish' = MayPublish /\ StartActive' = StartActive
    BY <1>1, <1>2, <1>6, Same DEF Tasks, MayPublish, StartActive
  <2>2. ret["worker"] = "recovered" /\ slot["worker"] >= 1
    BY <1>2, <1>3, <1>6 DEF WorkerPlaces
  <2>3. WorkerPlaces'
    <3>1. slot'["worker"] >= 1 /\ ret'["worker"] = "recovered"
      BY <1>3, <1>6, <2>2
    <3>2. Releasing("worker")' => back'["worker"] = "rejected"
      BY <1>1, <1>6, <2>2 DEF Releasing, InAcquire, InRelease, AfterTransfer
    <3>3. at'["worker"] \in InAcquire \cup {"recovered", "release"}
      BY <1>1, <1>6, <2>2
    <3>4. at'["worker"] \in {"acquire sent", "acquire answered"} => slot'["worker"] <= Slots
      BY <1>1, <1>6
    <3> QED  BY <3>1, <3>2, <3>3, <3>4 DEF WorkerPlaces, InAcquire
  <2>4. Recovering /\ Recovering'
    BY <1>1, <1>3, <1>6, <2>2
       DEF Recovering, Acquiring, Releasing, InAcquire, InRelease, AfterTransfer
  <2>5. OneAcquires' /\ StopWins'
    BY <1>2, <2>1, <2>4 DEF OneAcquires, StopWins, transport
  <2> QED  BY <2>1, <2>3, <2>5 DEF LeasePlacesOK
<1> QED  BY <1>4, <1>5, <1>6 DEF Tasks

\* Who acquires, and what its calls have set up.
LEMMA Acquirer ==
  ASSUME LeaseInv, NEW t \in Tasks, Acquiring(t)
  PROVE  /\ ret[t] \in {"acquired", "recovered"} /\ slot[t] \in Nat /\ slot[t] >= 1
         /\ at[t] \in {"acquire sent", "acquire answered"} => slot[t] <= Slots
         /\ \A u \in Tasks : Acquiring(u) => u = t
         /\ held => session \in unusable
<1>1. t # "stop" /\ ~Acquiring("stop")
  BY DEF LeaseInv, LeasePlacesOK, StopPlaces, Acquiring, Releasing, InAcquire, InRelease,
         AfterTransfer
<1>2. ret[t] \in {"acquired", "recovered"} /\ slot[t] \in Nat /\ slot[t] >= 1
  BY <1>1 DEF LeaseInv, LeaseTypeOK, LeasePlacesOK, StartPlaces, WorkerPlaces, Tasks
<1>3. at[t] \in {"acquire sent", "acquire answered"} => slot[t] <= Slots
  BY <1>1 DEF LeaseInv, LeasePlacesOK, StartPlaces, WorkerPlaces, Tasks
<1>4. ~(Acquiring("start") /\ Acquiring("worker"))
  BY DEF LeaseInv, OneAcquires, Recovering, StartActive, MayPublish
<1>5. held => session \in unusable
  BY DEF LeaseInv, Identities, NoUsable
<1> QED  BY <1>1, <1>2, <1>3, <1>4, <1>5 DEF Tasks

\* The places of an acquire are outside of the release section.
LEMMA AcquireOutside ==
  ASSUME NEW q \in InAcquire \cup {"acquired", "recovered", "release"}
  PROVE  q \notin InRelease /\ q \notin AfterTransfer /\ q # "release answered"
BY DEF InAcquire, InRelease, AfterTransfer

\* The next slot is tried, or none is left.
LEMMA AcquireSendKept ==
  ASSUME LeaseInv, NEW t \in Tasks, AcquireSend(t)
  PROVE  LeaseInv'
<1>1. at[t] = "acquire" /\ UNCHANGED <<transport, lease, pcm, calls, card>>
  BY DEF AcquireSend
<1>2. at[t] \in InAcquire /\ Acquiring(t)
  BY <1>1 DEF Acquiring, InAcquire
<1>3. /\ ret[t] \in {"acquired", "recovered"} /\ slot[t] \in Nat /\ slot[t] >= 1
  BY <1>2, Acquirer
<1>4. PICK q \in {ret[t], "acquire sent"} : Go(t, q) /\ (q = "acquire sent" => slot[t] <= Slots)
  BY <1>3 DEF AcquireSend
<1>5. q \in InAcquire \cup {"acquired", "recovered", "release"} /\ q # "acquire answered"
  BY <1>3 DEF InAcquire
<1>6. q \notin InRelease /\ q \notin AfterTransfer /\ q # "release answered"
  BY <1>5, AcquireOutside
<1>7. UNCHANGED <<held, session, mapped, pending, releasing, acquiring, uncertain, retryAt,
                  gen, playing, back, ret, slot, reply, seen>>
  BY <1>1 DEF lease, transport, calls
<1>8. LeaseTypeOK'
  <2>1. q \in LeasePlaces
    BY <1>3 DEF LeasePlaces, InAcquire
  <2>2. at' \in [Tasks -> LeasePlaces]
    BY <1>4, <2>1, Goes DEF LeaseInv
  <2> QED  BY <1>1, <1>7, <2>2 DEF LeaseInv, LeaseTypeOK, pcm, card
<1>9. LeasePlacesOK' /\ OneAcquires' /\ StopWins'
  <2>1. slot'[t] = slot[t] /\ (q \in {"acquire sent", "acquire answered"} => slot[t] <= Slots)
    BY <1>3, <1>4, <1>5, <1>7
  <2> QED  BY <1>1, <1>2, <1>3, <1>4, <1>7, <2>1, AcquireWalks DEF InAcquire
<1>10. OneReleases'
  BY <1>1, <1>4, <1>6, <1>7, ReleaseSection DEF InRelease, AfterTransfer
<1>11. PcmCurrent'
  BY <1>1, <1>4, <1>6, <1>7, SamePcm
<1>12. Identities' /\ LeaseTracked'
  BY <1>1, <1>2, <1>4, <1>5, <1>6, <1>7, SameIdentities DEF AfterTransfer
<1> QED  BY <1>8, <1>9, <1>10, <1>11, <1>12 DEF LeaseInv

\* The firmware grants the slot or not, and its answer arrives or not.
LEMMA FwAcquireKept ==
  ASSUME LeaseInv, NEW t \in Tasks, FwAcquire(t)
  PROVE  LeaseInv'
<1>1. /\ at[t] = "acquire sent" /\ Go(t, "acquire answered")
      /\ UNCHANGED <<transport, lease, pcm, back, ret, slot, seen>>
  BY DEF FwAcquire
<1>2. at[t] \in InAcquire /\ Acquiring(t)
  BY <1>1 DEF Acquiring, InAcquire
<1>3. slot[t] \in Nat /\ slot[t] >= 1 /\ slot[t] <= Slots
  BY <1>1, <1>2, Acquirer
<1>4. slot[t] \in 1..Slots
  BY <1>3, SlotsAssumption
<1>5. at'[t] = "acquire answered" /\ \A u \in Tasks : u # t => at'[u] = at[u]
  BY <1>1, Goes DEF LeaseInv
<1>6. UNCHANGED <<held, session, mapped, pending, releasing, acquiring, uncertain, retryAt>>
  BY <1>1 DEF lease
<1>7. Identities /\ LeaseTracked /\ LeaseTypeOK
  BY DEF LeaseInv
<1>8. PICK r \in {"refused", "timeout", "usable", "unusable"}, g \in Nat :
        /\ reply' = [reply EXCEPT ![t] = <<r, g>>]
        /\ \/ /\ r \in {"refused", "timeout"} /\ g = 0
              /\ UNCHANGED <<fw, granted, unacked, unusable>>
           \/ /\ r # "refused" /\ g = granted + 1 /\ granted' = g /\ fw[slot[t]] = 0
              /\ fw' = [fw EXCEPT ![slot[t]] = g]
              /\ unacked' = IF r = "timeout" THEN unacked \cup {g} ELSE unacked
              /\ unusable' = IF r = "unusable" THEN unusable \cup {g} ELSE unusable
  <2>1. CASE /\ \E r \in {"refused", "timeout"} : reply' = [reply EXCEPT ![t] = <<r, 0>>]
             /\ UNCHANGED card
    BY <2>1 DEF card
  <2>2. CASE /\ fw[slot[t]] = 0 /\ granted' = granted + 1
             /\ fw' = [fw EXCEPT ![slot[t]] = granted']
             /\ \E r \in {"usable", "unusable", "timeout"} :
                  /\ reply' = [reply EXCEPT ![t] = <<r, granted'>>]
                  /\ unacked' = IF r = "timeout" THEN unacked \cup {granted'} ELSE unacked
                  /\ unusable' = IF r = "unusable" THEN unusable \cup {granted'} ELSE unusable
    <3>1. granted + 1 \in Nat
      BY <1>7 DEF LeaseTypeOK
    <3> QED  BY <2>2, <3>1
  <2> QED  BY <2>1, <2>2 DEF FwAcquire
<1>9. /\ reply' \in [Tasks -> Answers \X Nat] /\ reply'[t] = <<r, g>> /\ reply'[t][2] = g
      /\ \A u \in Tasks : u # t => reply'[u] = reply[u]
  BY <1>7, <1>8 DEF LeaseTypeOK, Answers
<1>10. /\ granted \in Nat /\ fw \in [1..Slots -> Nat]
       /\ unacked \subseteq Nat /\ unusable \subseteq Nat
  BY <1>7 DEF LeaseTypeOK
<1>11. (g = 0 /\ granted' = granted) \/ (g = granted + 1 /\ granted' = g)
  BY <1>8
<1>12. /\ granted' \in Nat /\ granted <= granted' /\ g <= granted'
       /\ \A m \in Nat : m <= granted => m <= granted'
  BY <1>10, <1>11
<1>13. unacked' \in {unacked, unacked \cup {g}} /\ unusable' \in {unusable, unusable \cup {g}}
  BY <1>8
<1>14. /\ unacked \subseteq unacked' /\ unusable \subseteq unusable'
       /\ unacked' \subseteq Nat /\ unusable' \subseteq Nat
  BY <1>10, <1>13
<1>15. fw' = fw \/ (fw' = [fw EXCEPT ![slot[t]] = g] /\ g > granted)
  <2>1. granted + 1 > granted
    BY <1>10
  <2> QED  BY <1>8, <2>1
<1>16. /\ fw' \in [1..Slots -> Nat]
       /\ \A s \in 1..Slots : fw'[s] = fw[s] \/ (fw'[s] = g /\ g > granted)
  BY <1>4, <1>10, <1>15
<1>17. LeaseTypeOK'
  <2>1. at' \in [Tasks -> LeasePlaces]
    BY <1>1, Goes DEF LeaseInv, LeasePlaces, InAcquire
  <2> QED  BY <1>1, <1>6, <1>7, <1>9, <1>12, <1>16, <1>14, <2>1 DEF LeaseTypeOK, transport, pcm
<1>18. LeasePlacesOK' /\ OneAcquires' /\ StopWins'
  <2>1. slot'[t] = slot[t]
    BY <1>1
  <2> QED  BY <1>1, <1>2, <1>3, <1>6, <2>1, AcquireWalks DEF InAcquire
<1>19. OneReleases'
  BY <1>1, <1>6, ReleaseSection DEF InRelease, AfterTransfer
<1>20. PcmCurrent'
  BY <1>1, <1>6, SamePcm DEF transport, AfterTransfer
<1>21. Identities'
  <2>1. session' <= granted' /\ pending' <= granted'
    BY <1>6, <1>7, <1>12 DEF Identities, LeaseTypeOK
  <2>2. PendingOwed'
    BY <1>1, <1>5, <1>6, <1>7, <1>14 DEF Identities, PendingOwed, AfterTransfer
  <2>3. ASSUME NEW u \in Tasks PROVE ReleaseAnswer(u)' /\ AcquireAnswer(u)' /\ NoUsable(u)'
    <3>1. ReleaseAnswer(u) /\ AcquireAnswer(u) /\ NoUsable(u)
      BY <1>7 DEF Identities
    <3>2. ASSUME at'[u] = "release answered"
          PROVE  \/ pending' \in unacked'
                 \/ reply'[u][1] = "ok" /\ \A s \in 1..Slots : fw'[s] = 0 \/ fw'[s] # pending'
      <4>1. u # t /\ at[u] = "release answered"
        BY <1>5, <3>2
      <4>2. g > granted => pending # g
        BY <1>7 DEF Identities, LeaseTypeOK
      <4> QED  BY <1>6, <1>9, <1>16, <1>14, <3>1, <4>1, <4>2 DEF ReleaseAnswer
    <3>3. AcquireAnswer(u)'
      <4>1. CASE u = t
        BY <1>8, <1>9, <1>12, <4>1 DEF AcquireAnswer
      <4>2. CASE u # t
        <5>1. reply[u][2] \in Nat
          BY <1>7 DEF LeaseTypeOK
        <5> QED  BY <1>5, <1>9, <1>12, <1>14, <3>1, <4>2, <5>1 DEF AcquireAnswer
      <4> QED  BY <4>1, <4>2
    <3>4. Acquiring(u)' = Acquiring(u)
      BY <1>1, <1>5 DEF Acquiring, Releasing, InRelease, AfterTransfer, InAcquire
    <3>5. NoUsable(u)'
      BY <1>6, <1>14, <3>1, <3>4 DEF NoUsable
    <3> QED  BY <3>2, <3>3, <3>5 DEF ReleaseAnswer
  <2> QED  BY <2>1, <2>2, <2>3 DEF Identities
<1>22. LeaseTracked'
  <2> SUFFICES ASSUME NEW s \in 1..Slots, fw'[s] # 0, fw'[s] \notin unacked' \cup unusable',
                      ~(held' /\ session' = fw'[s]), pending' # fw'[s]
               PROVE  \E u \in Tasks : at'[u] = "acquire answered" /\ reply'[u][2] = fw'[s]
    BY DEF LeaseTracked
  <2>1. CASE fw'[s] = g
    BY <1>5, <1>9, <2>1
  <2>2. CASE fw'[s] = fw[s]
    <3>1. PICK u \in Tasks : at[u] = "acquire answered" /\ reply[u][2] = fw[s]
      BY <1>6, <1>7, <1>14, <2>2 DEF LeaseTracked
    <3>2. u # t
      BY <1>1, <3>1
    <3> QED  BY <1>5, <1>9, <2>2, <3>1, <3>2
  <2> QED  BY <1>16, <2>1, <2>2
<1> QED  BY <1>17, <1>18, <1>19, <1>20, <1>21, <1>22 DEF LeaseInv

\* A drained queue of periods holds none of an older playback.
LEMMA Drained ==
  ASSUME NEW r, r = << >>, NEW g
  PROVE  r \in Seq(Nat) /\ \A i \in DOMAIN r : r[i] = g
OBVIOUS

\* A usable grant is installed: whatever was held is not a usable one.
LEMMA UsableKept ==
  ASSUME LeaseInv, NEW t \in Tasks, at[t] = "acquire answered", reply[t][1] = "usable",
         held' = TRUE, session' = reply[t][2], mapped' = TRUE, paused' = TRUE, ring' = << >>,
         retryAt' = FALSE, Go(t, ret[t]), UNCHANGED <<uncertain, back, slot>>,
         UNCHANGED <<transport, pending, releasing, acquiring, accum, ret, reply, seen, card>>
  PROVE  LeaseInv'
<1>1. at[t] \in InAcquire /\ Acquiring(t)
  BY DEF Acquiring, InAcquire
<1>2. /\ ret[t] \in {"acquired", "recovered"} /\ slot[t] \in Nat /\ slot[t] >= 1
      /\ \A u \in Tasks : Acquiring(u) => u = t
      /\ held => session \in unusable
  BY <1>1, Acquirer
<1>3. ret[t] \notin InRelease /\ ret[t] \notin AfterTransfer
  BY <1>2, AcquireOutside
<1>4. at'[t] = ret[t] /\ \A u \in Tasks : u # t => at'[u] = at[u]
  BY Goes DEF LeaseInv
<1>5. UNCHANGED <<gen, playing, fw, granted, unacked, unusable>>
  BY DEF transport, card
<1>6. Identities /\ LeaseTracked /\ LeaseTypeOK
  BY DEF LeaseInv
<1>7. reply[t][2] \in Nat /\ reply[t][2] <= granted
  BY <1>6 DEF Identities, AcquireAnswer, LeaseTypeOK
<1>8. LeaseTypeOK'
  <2>1. ret[t] \in LeasePlaces
    BY <1>6 DEF LeaseTypeOK
  <2>2. at' \in [Tasks -> LeasePlaces]
    BY <1>6, <2>1, Goes
  <2>3. ring' \in Seq(Nat)
    BY Drained
  <2>4. held' \in BOOLEAN /\ mapped' \in BOOLEAN /\ paused' \in BOOLEAN /\ retryAt' \in BOOLEAN
    OBVIOUS
  <2>5. session' \in Nat
    BY <1>7
  <2>6. /\ UNCHANGED <<playing, gen, pending, releasing, acquiring, uncertain, accum, back, ret>>
        /\ UNCHANGED <<slot, reply, seen, fw, granted, unacked, unusable>>
    BY <1>5
  <2> QED  BY <1>6, <2>2, <2>3, <2>4, <2>5, <2>6 DEF LeaseTypeOK
<1>9. LeasePlacesOK' /\ OneAcquires' /\ StopWins'
  <2>1. ret[t] \notin {"acquire sent", "acquire answered", "release"} /\ slot'[t] = slot[t]
    BY <1>2
  <2> QED  BY <1>1, <1>2, <2>1, AcquireWalks
<1>10. OneReleases'
  BY <1>3, ReleaseSection DEF InRelease, AfterTransfer
<1>11. PcmCurrent'
  <2>1. at["stop"] = "stopped" => at'["stop"] = "stopped"
    BY <1>4 DEF Tasks
  <2>2. PcmCurrent /\ accum' = accum /\ gen' = gen
    BY <1>5 DEF LeaseInv
  <2>3. ring' = << >> /\ \A i \in DOMAIN ring' : ring'[i] = gen'
    BY Drained
  <2> QED  BY <2>1, <2>2, <2>3 DEF PcmCurrent
<1>12. Identities'
  <2>1. session' <= granted' /\ pending' <= granted'
    BY <1>5, <1>6, <1>7 DEF Identities
  <2>2. PendingOwed'
    BY <1>4, <1>5, <1>6 DEF Identities, PendingOwed, AfterTransfer
  <2>3. ASSUME NEW u \in Tasks PROVE ReleaseAnswer(u)' /\ AcquireAnswer(u)' /\ NoUsable(u)'
    <3>1. ReleaseAnswer(u)' /\ AcquireAnswer(u)'
      BY <1>2, <1>4, <1>5, <1>6 DEF Identities, ReleaseAnswer, AcquireAnswer
    <3>2. ~Acquiring(u)'
      <4>1. CASE u = t
        BY <1>2, <1>4, <4>1 DEF Acquiring, Releasing, InAcquire, InRelease, AfterTransfer
      <4>2. CASE u # t
        BY <1>2, <1>4, <4>2 DEF Acquiring, Releasing
      <4> QED  BY <4>1, <4>2
    <3> QED  BY <3>1, <3>2 DEF NoUsable
  <2> QED  BY <2>1, <2>2, <2>3 DEF Identities
<1>13. LeaseTracked'
  <2> SUFFICES ASSUME NEW s \in 1..Slots, fw[s] # 0, fw[s] \notin unacked \cup unusable,
                      session' # fw[s], pending # fw[s]
               PROVE  \E u \in Tasks : at'[u] = "acquire answered" /\ reply'[u][2] = fw[s]
    BY <1>5 DEF LeaseTracked
  <2>1. PICK u \in Tasks : at[u] = "acquire answered" /\ reply[u][2] = fw[s]
    BY <1>2, <1>6 DEF LeaseTracked
  <2>2. u # t
    BY <2>1
  <2> QED  BY <1>4, <2>1, <2>2
<1> QED  BY <1>8, <1>9, <1>10, <1>11, <1>12, <1>13 DEF LeaseInv

\* An unusable grant is installed unmapped, to be surrendered at once.
LEMMA UnusableKept ==
  ASSUME LeaseInv, NEW t \in Tasks, at[t] = "acquire answered", reply[t][1] = "unusable",
         held' = TRUE, session' = reply[t][2], mapped' = FALSE, CallRelease(t, "rejected"),
         UNCHANGED <<paused, ring, uncertain, retryAt, slot>>,
         UNCHANGED <<transport, pending, releasing, acquiring, accum, ret, reply, seen, card>>
  PROVE  LeaseInv'
<1>1. at[t] \in InAcquire /\ Acquiring(t)
  BY DEF Acquiring, InAcquire
<1>2. /\ slot[t] \in Nat /\ slot[t] >= 1
      /\ \A u \in Tasks : Acquiring(u) => u = t
      /\ held => session \in unusable
  BY <1>1, Acquirer
<1>3. Go(t, "release") /\ back' = [back EXCEPT ![t] = "rejected"]
  BY DEF CallRelease
<1>4. at'[t] = "release" /\ \A u \in Tasks : u # t => at'[u] = at[u]
  BY <1>3, Goes DEF LeaseInv
<1>5. UNCHANGED <<gen, playing, fw, granted, unacked, unusable>>
  BY DEF transport, card
<1>6. Identities /\ LeaseTracked /\ LeaseTypeOK
  BY DEF LeaseInv
<1>7. reply[t][2] \in Nat /\ reply[t][2] <= granted /\ reply[t][2] \in unusable
  BY <1>6 DEF Identities, AcquireAnswer, LeaseTypeOK
<1>8. back'[t] = "rejected" /\ \A u \in Tasks : u # t => back'[u] = back[u]
  BY <1>3, <1>6 DEF LeaseTypeOK
<1>9. LeaseTypeOK'
  <2>1. at' \in [Tasks -> LeasePlaces]
    BY <1>3, <1>6, Goes DEF LeasePlaces
  <2>2. back' \in [Tasks -> LeasePlaces]
    BY <1>3, <1>6 DEF LeaseTypeOK, LeasePlaces, InAcquire
  <2> QED  BY <1>5, <1>6, <1>7, <2>1, <2>2 DEF LeaseTypeOK
<1>10. LeasePlacesOK' /\ OneAcquires' /\ StopWins'
  <2>1. slot'[t] = slot[t] /\ "release" \in InAcquire \cup {ret[t], "release"}
        /\ \A u \in Tasks : u # t => slot'[u] = slot[u] /\ back'[u] = back[u]
    BY <1>8
  <2>2. "release" \notin {"acquire sent", "acquire answered"}
    OBVIOUS
  <2>3. UNCHANGED transport /\ UNCHANGED acquiring /\ UNCHANGED ret /\ UNCHANGED seen
    OBVIOUS
  <2>4. Go(t, "release")
    BY <1>3
  <2> QED  BY <1>1, <1>2, <1>8, <2>1, <2>2, <2>3, <2>4, AcquireWalks
<1>11. OneReleases'
  BY <1>3, ReleaseSection DEF InRelease, AfterTransfer
<1>12. PcmCurrent'
  <2>1. at["stop"] = "stopped" => at'["stop"] = "stopped"
    BY <1>4 DEF Tasks
  <2> QED  BY <1>5, <2>1 DEF LeaseInv, PcmCurrent
<1>13. Identities'
  <2>1. session' <= granted' /\ pending' <= granted'
    BY <1>5, <1>6, <1>7 DEF Identities
  <2>2. PendingOwed'
    BY <1>4, <1>5, <1>6 DEF Identities, PendingOwed, AfterTransfer
  <2>3. ASSUME NEW u \in Tasks PROVE ReleaseAnswer(u)' /\ AcquireAnswer(u)' /\ NoUsable(u)'
    <3>1. ReleaseAnswer(u)' /\ AcquireAnswer(u)'
      BY <1>4, <1>5, <1>6 DEF Identities, ReleaseAnswer, AcquireAnswer
    <3> QED  BY <1>5, <1>7, <3>1 DEF NoUsable
  <2> QED  BY <2>1, <2>2, <2>3 DEF Identities
<1>14. LeaseTracked'
  <2> SUFFICES ASSUME NEW s \in 1..Slots, fw[s] # 0, fw[s] \notin unacked \cup unusable,
                      pending # fw[s]
               PROVE  \E u \in Tasks : at'[u] = "acquire answered" /\ reply'[u][2] = fw[s]
    BY <1>5 DEF LeaseTracked
  <2>1. PICK u \in Tasks : at[u] = "acquire answered" /\ reply[u][2] = fw[s]
    BY <1>2, <1>6 DEF LeaseTracked
  <2>2. u # t
    BY <1>7, <2>1
  <2> QED  BY <1>4, <2>1, <2>2
<1> QED  BY <1>9, <1>10, <1>11, <1>12, <1>13, <1>14 DEF LeaseInv

\* The caller is told of the failure, or the next slot is tried.
LEMMA NotGrantedKept ==
  ASSUME LeaseInv, NEW t \in Tasks, at[t] \in {"acquire answered", "rejected"},
         at[t] = "acquire answered" => reply[t][1] \in {"timeout", "refused"},
         NEW q \in {ret[t], "acquire"}, Go(t, q), NEW n \in Nat, n >= 1,
         slot' = [slot EXCEPT ![t] = n],
         uncertain' \in BOOLEAN, retryAt' \in BOOLEAN, reply' \in [Tasks -> Answers \X Nat],
         \A u \in Tasks : u # t => reply'[u] = reply[u],
         UNCHANGED <<transport, held, session, mapped, pending, releasing, acquiring, pcm,
                     back, ret, seen, card>>
  PROVE  LeaseInv'
<1>1. at[t] \in InAcquire /\ Acquiring(t)
  BY DEF Acquiring, InAcquire
<1>2. ret[t] \in {"acquired", "recovered"}
  BY <1>1, Acquirer
<1>3. q \in InAcquire \cup {"acquired", "recovered", "release"} /\ q # "acquire answered"
      /\ q # "release" /\ q # "acquire sent"
  BY <1>2 DEF InAcquire
<1>4. q \notin InRelease /\ q \notin AfterTransfer /\ q # "release answered"
  BY <1>3, AcquireOutside
<1>5. slot' \in [Tasks -> Nat] /\ slot'[t] = n /\ \A u \in Tasks : u # t => slot'[u] = slot[u]
  BY DEF LeaseInv, LeaseTypeOK
<1>6. UNCHANGED <<gen, playing>>
  BY DEF transport
<1>7. LeaseTypeOK'
  <2>1. q \in LeasePlaces
    BY <1>2 DEF LeasePlaces, InAcquire
  <2>2. at' \in [Tasks -> LeasePlaces]
    BY <2>1, Goes DEF LeaseInv
  <2> QED  BY <1>5, <1>6, <2>2 DEF LeaseInv, LeaseTypeOK, pcm, card
<1>8. LeasePlacesOK' /\ OneAcquires' /\ StopWins'
  BY <1>1, <1>3, <1>5, AcquireWalks DEF InAcquire
<1>9. OneReleases'
  BY <1>4, ReleaseSection DEF InRelease, AfterTransfer
<1>10. PcmCurrent'
  BY <1>4, <1>6, SamePcm
<1>11. Identities' /\ LeaseTracked'
  BY <1>1, <1>3, <1>4, SameIdentities DEF AfterTransfer
<1> QED  BY <1>7, <1>8, <1>9, <1>10, <1>11 DEF LeaseInv

\* The answer to an acquire is read.
LEMMA AcquireDoneKept ==
  ASSUME LeaseInv, NEW t \in Tasks, AcquireDone(t)
  PROVE  LeaseInv'
<1>1. /\ at[t] = "acquire answered"
      /\ UNCHANGED <<transport, pending, releasing, acquiring, accum, ret, reply, seen, card>>
  BY DEF AcquireDone
<1>2. LeaseTypeOK /\ slot[t] \in Nat /\ slot[t] >= 1
  BY <1>1, Acquirer DEF Acquiring, InAcquire, LeaseInv
<1>3. reply' \in [Tasks -> Answers \X Nat] /\ \A u \in Tasks : u # t => reply'[u] = reply[u]
  BY <1>1, <1>2 DEF LeaseTypeOK
<1>4. CASE /\ reply[t][1] = "usable"
           /\ held' = TRUE /\ session' = reply[t][2] /\ mapped' = TRUE
           /\ paused' = TRUE /\ ring' = << >> /\ retryAt' = FALSE
           /\ Go(t, ret[t])
           /\ UNCHANGED <<uncertain, back, slot>>
  BY <1>1, <1>4, UsableKept
<1>5. CASE /\ reply[t][1] = "unusable"
           /\ held' = TRUE /\ session' = reply[t][2] /\ mapped' = FALSE
           /\ CallRelease(t, "rejected")
           /\ UNCHANGED <<paused, ring, uncertain, retryAt, slot>>
  BY <1>1, <1>5, UnusableKept
<1>6. CASE /\ reply[t][1] = "timeout"
           /\ uncertain' = TRUE /\ retryAt' = TRUE /\ Go(t, ret[t])
           /\ UNCHANGED <<held, session, mapped, paused, ring, back, slot>>
  <2>1. slot' = [slot EXCEPT ![t] = slot[t]]
    BY <1>2, <1>6 DEF LeaseTypeOK
  <2>2. uncertain' \in BOOLEAN /\ retryAt' \in BOOLEAN
    BY <1>6
  <2> QED  BY <1>1, <1>2, <1>3, <1>6, <2>1, <2>2, NotGrantedKept DEF pcm
<1>7. CASE /\ reply[t][1] = "refused"
           /\ slot' = [slot EXCEPT ![t] = @ + 1] /\ Go(t, "acquire")
           /\ UNCHANGED <<held, session, mapped, paused, ring, uncertain, retryAt, back>>
  <2>1. slot[t] + 1 \in Nat /\ slot[t] + 1 >= 1 /\ slot' = [slot EXCEPT ![t] = slot[t] + 1]
    BY <1>2, <1>7
  <2>2. uncertain' \in BOOLEAN /\ retryAt' \in BOOLEAN
    BY <1>2, <1>7 DEF LeaseTypeOK
  <2> QED  BY <1>1, <1>3, <1>7, <2>1, <2>2, NotGrantedKept DEF pcm
<1> QED  BY <1>4, <1>5, <1>6, <1>7 DEF AcquireDone

\* Back from the surrender of an unusable grant.
LEMMA RejectedKept ==
  ASSUME LeaseInv, NEW t \in Tasks, Rejected(t)
  PROVE  LeaseInv'
<1>1. /\ at[t] = "rejected" /\ reply' = [reply EXCEPT ![t] = <<"refused", 0>>]
      /\ UNCHANGED <<transport, lease, pcm, back, ret, seen, card>>
  BY DEF Rejected
<1>2. LeaseTypeOK /\ slot[t] \in Nat /\ slot[t] >= 1
  BY <1>1, Acquirer DEF Acquiring, InAcquire, LeaseInv
<1>3. reply' \in [Tasks -> Answers \X Nat] /\ \A u \in Tasks : u # t => reply'[u] = reply[u]
  BY <1>1, <1>2 DEF LeaseTypeOK, Answers
<1>4. UNCHANGED <<held, session, mapped, pending, releasing, acquiring, uncertain, retryAt>>
  BY <1>1 DEF lease
<1>5. uncertain' \in BOOLEAN /\ retryAt' \in BOOLEAN
  BY <1>2, <1>4 DEF LeaseTypeOK
<1>6. PICK q \in {ret[t], "acquire"}, n \in {slot[t], slot[t] + 1} :
        Go(t, q) /\ slot' = [slot EXCEPT ![t] = n]
  <2>1. slot = [slot EXCEPT ![t] = slot[t]]
    BY <1>2 DEF LeaseTypeOK
  <2> QED  BY <2>1 DEF Rejected
<1>7. n \in Nat /\ n >= 1
  BY <1>2
<1> QED  BY <1>1, <1>3, <1>4, <1>5, <1>6, <1>7, NotGrantedKept

-----------------------------------------------------------------------------
(* Start, Stop and FreeAudio.                                              *)

\* What a call of fabric_lease_acquire sets up.
LEMMA AcquireCalls ==
  ASSUME LeaseTypeOK, NEW t \in Tasks, NEW p \in LeasePlaces, CallAcquire(t, p)
  PROVE  /\ ret' \in [Tasks -> LeasePlaces] /\ slot' \in [Tasks -> Nat]
         /\ reply' \in [Tasks -> Answers \X Nat]
         /\ ret'[t] = p /\ slot'[t] = 1 /\ slot'[t] >= 1
         /\ \A u \in Tasks : u # t =>
              ret'[u] = ret[u] /\ slot'[u] = slot[u] /\ reply'[u] = reply[u]
<1>1. ret' = [ret EXCEPT ![t] = p] /\ slot' = [slot EXCEPT ![t] = 1]
  BY DEF CallAcquire
<1>2. reply' = [reply EXCEPT ![t] = <<"refused", 0>>]
  BY DEF CallAcquire
<1>3. reply' \in [Tasks -> Answers \X Nat] /\ \A u \in Tasks : u # t => reply'[u] = reply[u]
  BY <1>2 DEF LeaseTypeOK, Answers
<1>4. slot' \in [Tasks -> Nat] /\ ret' \in [Tasks -> LeasePlaces]
  BY <1>1 DEF LeaseTypeOK
<1>5. /\ ret'[t] = p /\ slot'[t] = 1
      /\ \A u \in Tasks : u # t => ret'[u] = ret[u] /\ slot'[u] = slot[u]
  BY <1>1 DEF LeaseTypeOK
<1> QED  BY <1>3, <1>4, <1>5

\* A step of the task of Start and FreeAudio outside of fabric_lease_release.
LEMMA StartWalks ==
  ASSUME LeaseInv, NEW q, Go("start", q), at["start"] \notin InRelease, q \notin InRelease,
         UNCHANGED releasing,
         \A u \in Tasks : u # "start" =>
           back'[u] = back[u] /\ ret'[u] = ret[u] /\ slot'[u] = slot[u]
  PROVE  /\ at'["start"] = q /\ at'["stop"] = at["stop"] /\ at'["worker"] = at["worker"]
         /\ StopPlaces' /\ WorkerPlaces' /\ Recovering' = Recovering /\ OneReleases'
<1>1. at'["start"] = q /\ \A u \in Tasks : u # "start" => at'[u] = at[u]
  BY Goes DEF LeaseInv, Tasks
<1>2. StopPlaces /\ WorkerPlaces
  BY DEF LeaseInv, LeasePlacesOK
<1>3. at'["stop"] = at["stop"] /\ at'["worker"] = at["worker"]
  BY <1>1 DEF Tasks
<1>4. StopPlaces' /\ WorkerPlaces' /\ Recovering' = Recovering
  BY <1>2, <1>3, Same DEF Tasks, Recovering
<1>5. OneReleases'
  BY ReleaseSection DEF Tasks
<1> QED  BY <1>1, <1>3, <1>4, <1>5

\* The same for the worker.
LEMMA WorkerWalks ==
  ASSUME LeaseInv, NEW q, Go("worker", q), at["worker"] \notin InRelease, q \notin InRelease,
         UNCHANGED releasing,
         \A u \in Tasks : u # "worker" =>
           back'[u] = back[u] /\ ret'[u] = ret[u] /\ slot'[u] = slot[u]
  PROVE  /\ at'["worker"] = q /\ at'["stop"] = at["stop"] /\ at'["start"] = at["start"]
         /\ StopPlaces' /\ StartPlaces' /\ MayPublish' = MayPublish
         /\ StartActive' = StartActive /\ OneReleases'
<1>1. at'["worker"] = q /\ \A u \in Tasks : u # "worker" => at'[u] = at[u]
  BY Goes DEF LeaseInv, Tasks
<1>2. StopPlaces /\ StartPlaces
  BY DEF LeaseInv, LeasePlacesOK
<1>3. at'["stop"] = at["stop"] /\ at'["start"] = at["start"]
  BY <1>1 DEF Tasks
<1>4. /\ StopPlaces' /\ StartPlaces' /\ MayPublish' = MayPublish
      /\ StartActive' = StartActive
  BY <1>2, <1>3, Same DEF Tasks, MayPublish, StartActive
<1>5. OneReleases'
  BY ReleaseSection DEF Tasks
<1> QED  BY <1>1, <1>3, <1>4, <1>5

\* Start begins with a lease it holds, or asks for one; the worker does not
\* recover.
LEMMA StartKept ==
  ASSUME LeaseInv, Start
  PROVE  LeaseInv'
<1>1. /\ at["start"] = "idle" /\ at["stop"] = "idle" /\ playing = FALSE
      /\ pending = 0 /\ ~acquiring
      /\ UNCHANGED <<transport, held, session, mapped, pending, releasing,
                     uncertain, retryAt, pcm, back, card>>
  BY DEF Start, Idle, Unsettled, LeaseInv, LeaseTypeOK
<1>2. LeaseTypeOK /\ StartPlaces /\ OneAcquires /\ StopWins /\ "start" \in Tasks
  BY DEF LeaseInv, LeasePlacesOK, Tasks
<1>3. seen' = [seen EXCEPT !["start"] = gen]
  BY DEF Start, CallAcquire
<1>4. PICK q \in {"started", "acquire"} :
        /\ Go("start", q)
        /\ q = "started" => UNCHANGED <<acquiring, ret, slot, reply>>
        /\ q = "acquire" => acquiring' = TRUE /\ ~held /\ CallAcquire("start", "acquired")
  BY DEF Start, CallAcquire
<1>5. /\ ret' \in [Tasks -> LeasePlaces] /\ slot' \in [Tasks -> Nat]
      /\ reply' \in [Tasks -> Answers \X Nat]
      /\ q = "acquire" => ret'["start"] = "acquired" /\ slot'["start"] >= 1
      /\ \A u \in Tasks : u # "start" =>
           back'[u] = back[u] /\ ret'[u] = ret[u] /\ slot'[u] = slot[u] /\ reply'[u] = reply[u]
  <2>1. CASE q = "started"
    BY <1>1, <1>2, <1>4, <2>1 DEF LeaseTypeOK
  <2>2. CASE q = "acquire"
    <3>1. "acquired" \in LeasePlaces
      BY DEF LeasePlaces
    <3> QED  BY <1>1, <1>2, <1>4, <2>2, <3>1, AcquireCalls
  <2> QED  BY <1>4, <2>1, <2>2
<1>6. q \notin InRelease /\ q \notin AfterTransfer /\ q # "release"
  BY <1>4 DEF InRelease, AfterTransfer
<1>7. at["start"] \notin InRelease
  BY <1>1 DEF InRelease, AfterTransfer
<1>8. /\ at'["start"] = q /\ at'["stop"] = at["stop"] /\ at'["worker"] = at["worker"]
      /\ StopPlaces' /\ WorkerPlaces' /\ Recovering' = Recovering /\ OneReleases'
  BY <1>1, <1>4, <1>5, <1>6, <1>7, StartWalks
<1>9. UNCHANGED <<gen, playing>>
  BY <1>1 DEF transport
<1>10. LeaseTypeOK'
  <2>1. q \in LeasePlaces
    BY <1>4 DEF LeasePlaces, InAcquire
  <2>2. at' \in [Tasks -> LeasePlaces]
    BY <1>2, <1>4, <2>1, Goes
  <2>3. acquiring' \in BOOLEAN
    BY <1>2, <1>4 DEF LeaseTypeOK
  <2>4. seen' \in [Tasks -> Nat]
    BY <1>2, <1>3 DEF LeaseTypeOK
  <2> QED  BY <1>1, <1>2, <1>5, <1>9, <2>2, <2>3, <2>4 DEF LeaseTypeOK, pcm, card
<1>11. LeasePlacesOK'
  <2>1. Acquiring("start")' => q = "acquire"
    BY <1>4, <1>6, <1>8 DEF Acquiring, Releasing, InAcquire
  <2>2. ~Releasing("start")'
    BY <1>6, <1>8 DEF Releasing
  <2>3. StartPlaces'
    BY <1>4, <1>5, <1>8, <2>1, <2>2 DEF StartPlaces
  <2> QED  BY <1>8, <2>3 DEF LeasePlacesOK
<1>12. OneAcquires' /\ StopWins'
  <2>1. ~Recovering' /\ (at'["start"] # "started" => acquiring')
    BY <1>1, <1>2, <1>4, <1>8 DEF OneAcquires
  <2>2. seen'["start"] = gen /\ gen <= gen
    BY <1>2, <1>3 DEF LeaseTypeOK
  <2> QED  BY <1>1, <1>8, <1>9, <2>1, <2>2 DEF OneAcquires, StopWins
<1>13. PcmCurrent'
  BY <1>1, <1>2, <1>4, <1>6, <1>9, SamePcm
<1>14. Identities' /\ LeaseTracked'
  <2>1. Acquiring("start")' => ~held
    BY <1>4, <1>6, <1>8 DEF Acquiring, Releasing, InAcquire
  <2>2. at["start"] \notin AfterTransfer /\ q \notin {"release answered", "acquire answered"}
    BY <1>4, <1>7 DEF InRelease
  <2> QED  BY <1>1, <1>2, <1>4, <1>5, <2>1, <2>2, SameIdentities
<1> QED  BY <1>8, <1>10, <1>11, <1>12, <1>13, <1>14 DEF LeaseInv

\* A generation is not before itself.
LEMMA Irreflexive ==
  ASSUME NEW n \in Nat
  PROVE  ~(n < n)
OBVIOUS

\* The other steps of Start and of FreeAudio: only an unbroken Start begins
\* playback, and one that may still publish keeps the worker from acquiring.
LEMMA StartStepKept ==
  ASSUME LeaseInv, at["start"] \in {"idle", "acquired", "started", "start stale", "free", "join"},
         NEW q \in {"started", "idle", "release", "free", "join", "freed"}, Go("start", q),
         UNCHANGED <<held, session, mapped, pending, releasing, uncertain, retryAt>>,
         UNCHANGED <<gen, pcm, ret, reply, seen, card>>,
         back' \in [Tasks -> LeasePlaces], slot' \in [Tasks -> Nat],
         \A u \in Tasks : u # "start" => back'[u] = back[u] /\ slot'[u] = slot[u],
         acquiring' \in BOOLEAN, playing' \in BOOLEAN,
         q = "started" => at["start"] = "acquired",
         q = "release" => \/ back'["start"] = "free"
                          \/ back'["start"] = "start stale" /\ at["start"] = "started",
         acquiring' = acquiring \/ at["start"] \in {"acquired", "started", "start stale"},
         q = "started" => acquiring' = acquiring,
         playing' => q = "idle" /\ at["start"] = "started" /\ gen = seen["start"]
  PROVE  LeaseInv'
<1>1. LeaseTypeOK /\ StartPlaces /\ OneAcquires /\ StopWins /\ "start" \in Tasks
  BY DEF LeaseInv, LeasePlacesOK, Tasks
<1>2. q \notin InRelease /\ q \notin AfterTransfer /\ q \notin InAcquire
  BY DEF InRelease, AfterTransfer, InAcquire
<1>3. at["start"] \notin InRelease /\ at["start"] \notin AfterTransfer
  BY DEF InRelease, AfterTransfer
<1>4. \A u \in Tasks : ret'[u] = ret[u] /\ reply'[u] = reply[u]
  OBVIOUS
<1>5. /\ at'["start"] = q /\ at'["stop"] = at["stop"] /\ at'["worker"] = at["worker"]
      /\ StopPlaces' /\ WorkerPlaces' /\ Recovering' = Recovering /\ OneReleases'
  BY <1>2, <1>3, <1>4, StartWalks
<1>6. ~Acquiring("start")' /\ (Releasing("start")' => q = "release")
  BY <1>2, <1>5 DEF Acquiring, Releasing
<1>7. LeaseTypeOK'
  <2>1. q \in LeasePlaces
    BY DEF LeasePlaces
  <2>2. at' \in [Tasks -> LeasePlaces]
    BY <1>1, <2>1, Goes
  <2> QED  BY <1>1, <2>2 DEF LeaseTypeOK, pcm, card
<1>8. LeasePlacesOK'
  <2>1. StartPlaces'
    BY <1>5, <1>6 DEF StartPlaces
  <2> QED  BY <1>5, <2>1 DEF LeasePlacesOK
<1>9. MayPublish' <=> q = "started"
  BY <1>5, <1>6 DEF MayPublish
<1>10. at["start"] \in {"acquired", "started", "start stale"} => StartActive
  BY DEF StartActive, MayPublish, For
<1>11. OneAcquires'
  <2>1. StartActive' => at["start"] \in {"acquired", "started"}
    BY <1>2, <1>5, <1>9 DEF StartActive, For, Releasing
  <2>2. Recovering' => acquiring' /\ ~StartActive'
    BY <1>1, <1>5, <1>10, <2>1 DEF OneAcquires
  <2> QED  BY <1>5, <1>9, <2>2 DEF OneAcquires
<1>12. StopWins'
  <2>1. at["start"] \in {"acquired", "started"} => MayPublish
    BY DEF MayPublish
  <2>2. gen \in Nat /\ seen["start"] \in Nat /\ seen' = seen /\ gen' = gen
    BY <1>1 DEF LeaseTypeOK
  <2>3. gen = seen["start"] /\ at["start"] = "started" => at["stop"] = "idle"
    <3>1. at["start"] = "started" /\ at["stop"] # "idle" => seen["start"] < gen
      BY <1>1, <2>1 DEF StopWins
    <3>2. gen = seen["start"] => ~(seen["start"] < gen)
      BY <2>2, Irreflexive
    <3> QED  BY <3>1, <3>2
  <2> QED  BY <1>1, <1>5, <1>9, <2>1, <2>2, <2>3 DEF StopWins
<1>13. PcmCurrent'
  BY <1>1, <1>2, SamePcm
<1>14. Identities' /\ LeaseTracked'
  <2>1. q \notin {"release answered", "acquire answered"} /\ at["start"] # "acquire answered"
    OBVIOUS
  <2> QED  BY <1>1, <1>3, <1>4, <1>6, <2>1, SameIdentities
<1> QED  BY <1>5, <1>7, <1>8, <1>11, <1>12, <1>13, <1>14 DEF LeaseInv

\* Start reads the outcome of its acquire.
LEMMA StartAcquiredKept ==
  ASSUME LeaseInv, StartAcquired
  PROVE  LeaseInv'
<1>1. /\ at["start"] = "acquired"
      /\ UNCHANGED <<transport, held, session, mapped, pending, releasing,
                     uncertain, retryAt, pcm, calls, card>>
  BY DEF StartAcquired
<1>2. LeaseTypeOK /\ ~playing
  BY <1>1 DEF LeaseInv, StopWins
<1>3. PICK q \in {"started", "idle"} :
        /\ Go("start", q) /\ (q = "started" => acquiring' = acquiring)
        /\ acquiring' = acquiring \/ acquiring' = FALSE
  BY DEF StartAcquired
<1>4. /\ acquiring' \in BOOLEAN /\ playing' \in BOOLEAN /\ ~playing'
      /\ back' \in [Tasks -> LeasePlaces] /\ slot' \in [Tasks -> Nat]
  BY <1>1, <1>2, <1>3 DEF LeaseTypeOK, transport, calls
<1>5. UNCHANGED <<gen, pcm, ret, reply, seen, card, back, slot>>
  BY <1>1 DEF transport, calls
<1> QED  BY <1>1, <1>3, <1>4, <1>5, StartStepKept

\* Start publishes the transport, or surrenders a stale grant.
LEMMA StartPublishKept ==
  ASSUME LeaseInv, StartPublish
  PROVE  LeaseInv'
<1>1. /\ at["start"] = "started"
      /\ UNCHANGED <<gen, held, session, mapped, pending, releasing,
                     uncertain, retryAt, pcm, ret, slot, reply, seen, card>>
  BY DEF StartPublish
<1>2. LeaseTypeOK /\ ~playing
  BY <1>1 DEF LeaseInv, StopWins
<1>3. CASE /\ gen # seen["start"] /\ CallRelease("start", "start stale")
           /\ UNCHANGED <<playing, acquiring>>
  <2>1. Go("start", "release") /\ back' = [back EXCEPT !["start"] = "start stale"]
    BY <1>3 DEF CallRelease
  <2>2. /\ back' \in [Tasks -> LeasePlaces] /\ back'["start"] = "start stale"
        /\ \A u \in Tasks : u # "start" => back'[u] = back[u]
    BY <1>2, <2>1 DEF LeaseTypeOK, LeasePlaces, Tasks
  <2>3. /\ acquiring' \in BOOLEAN /\ playing' \in BOOLEAN /\ ~playing' /\ acquiring' = acquiring
        /\ slot' \in [Tasks -> Nat]
    BY <1>1, <1>2, <1>3 DEF LeaseTypeOK
  <2> QED  BY <1>1, <2>1, <2>2, <2>3, StartStepKept
<1>4. CASE /\ gen = seen["start"] /\ playing' = TRUE /\ acquiring' = FALSE
           /\ Go("start", "idle") /\ UNCHANGED back
  <2>1. /\ acquiring' \in BOOLEAN /\ playing' \in BOOLEAN
        /\ back' \in [Tasks -> LeasePlaces] /\ slot' \in [Tasks -> Nat]
    BY <1>1, <1>2, <1>4 DEF LeaseTypeOK
  <2> QED  BY <1>1, <1>4, <2>1, StartStepKept
<1> QED  BY <1>3, <1>4 DEF StartPublish

\* The stale grant of a Start is surrendered.
LEMMA StartStaleKept ==
  ASSUME LeaseInv, StartStale
  PROVE  LeaseInv'
<1>1. /\ at["start"] = "start stale" /\ acquiring' = FALSE /\ Go("start", "idle")
      /\ UNCHANGED <<transport, held, session, mapped, pending, releasing,
                     uncertain, retryAt, pcm, calls, card>>
  BY DEF StartStale
<1>2. LeaseTypeOK /\ ~playing
  BY <1>1 DEF LeaseInv, StopWins
<1>3. /\ acquiring' \in BOOLEAN /\ playing' \in BOOLEAN /\ ~playing'
      /\ back' \in [Tasks -> LeasePlaces] /\ slot' \in [Tasks -> Nat]
  BY <1>1, <1>2 DEF LeaseTypeOK, transport, calls
<1>4. UNCHANGED <<gen, pcm, ret, reply, seen, card, back, slot>>
  BY <1>1 DEF transport, calls
<1> QED  BY <1>1, <1>3, <1>4, StartStepKept

\* FreeAudio begins: playback is off.
LEMMA FreeBeginKept ==
  ASSUME LeaseInv, FreeBegin
  PROVE  LeaseInv'
<1>1. /\ at["start"] = "idle" /\ playing' = FALSE
      /\ Go("start", "free") /\ slot' = [slot EXCEPT !["start"] = 0]
      /\ UNCHANGED <<gen, lease, pcm, back, ret, reply, seen, card>>
  BY DEF FreeBegin, Idle
<1>2. LeaseTypeOK
  BY DEF LeaseInv
<1>3. UNCHANGED <<held, session, mapped, pending, releasing, acquiring, uncertain, retryAt>>
  BY <1>1 DEF lease
<1>4. /\ acquiring' \in BOOLEAN /\ playing' \in BOOLEAN /\ ~playing'
      /\ back' \in [Tasks -> LeasePlaces]
  BY <1>1, <1>2, <1>3 DEF LeaseTypeOK
<1>5. slot' \in [Tasks -> Nat] /\ \A u \in Tasks : u # "start" => slot'[u] = slot[u]
  BY <1>1, <1>2 DEF LeaseTypeOK
<1> QED  BY <1>1, <1>3, <1>4, <1>5, StartStepKept

\* FreeAudio tries to release what is held or owed, three times at most.
LEMMA FreeReleaseKept ==
  ASSUME LeaseInv, FreeRelease
  PROVE  LeaseInv'
<1>1. at["start"] = "free" /\ UNCHANGED <<transport, lease, pcm, ret, reply, seen, card>>
  BY DEF FreeRelease
<1>2. LeaseTypeOK /\ ~playing
  BY <1>1 DEF LeaseInv, StopWins
<1>3. /\ UNCHANGED <<held, session, mapped, pending, releasing, acquiring, uncertain, retryAt>>
      /\ UNCHANGED <<gen, playing>>
  BY <1>1 DEF lease, transport
<1>4. acquiring' \in BOOLEAN /\ playing' \in BOOLEAN /\ ~playing'
  BY <1>2, <1>3 DEF LeaseTypeOK
<1>5. CASE slot' = [slot EXCEPT !["start"] = @ + 1] /\ CallRelease("start", "free")
  <2>1. Go("start", "release") /\ back' = [back EXCEPT !["start"] = "free"]
    BY <1>5 DEF CallRelease
  <2>2. /\ back' \in [Tasks -> LeasePlaces] /\ back'["start"] = "free"
        /\ \A u \in Tasks : u # "start" => back'[u] = back[u]
    BY <1>2, <2>1 DEF LeaseTypeOK, LeasePlaces, Tasks
  <2>3. slot' \in [Tasks -> Nat] /\ \A u \in Tasks : u # "start" => slot'[u] = slot[u]
    <3>1. slot \in [Tasks -> Nat] /\ slot["start"] + 1 \in Nat
      BY <1>2 DEF LeaseTypeOK, Tasks
    <3>2. slot' = [slot EXCEPT !["start"] = slot["start"] + 1]
      BY <1>5
    <3> QED  BY <3>1, <3>2
  <2> QED  BY <1>1, <1>3, <1>4, <2>1, <2>2, <2>3, StartStepKept
<1>6. CASE Go("start", "join") /\ UNCHANGED <<slot, back>>
  <2>1. back' \in [Tasks -> LeasePlaces] /\ slot' \in [Tasks -> Nat]
    BY <1>2, <1>6 DEF LeaseTypeOK
  <2> QED  BY <1>1, <1>3, <1>4, <1>6, <2>1, StartStepKept
<1> QED  BY <1>5, <1>6 DEF FreeRelease

\* FreeAudio has seen the worker leave.
LEMMA FreeJoinKept ==
  ASSUME LeaseInv, FreeJoin
  PROVE  LeaseInv'
<1>1. /\ at["start"] = "join" /\ Go("start", "freed")
      /\ UNCHANGED <<transport, lease, pcm, calls, card>>
  BY DEF FreeJoin
<1>2. LeaseTypeOK /\ ~playing
  BY <1>1 DEF LeaseInv, StopWins
<1>3. /\ UNCHANGED <<held, session, mapped, pending, releasing, acquiring, uncertain, retryAt>>
      /\ UNCHANGED <<gen, playing, back, ret, slot, reply, seen>>
  BY <1>1 DEF lease, transport, calls
<1>4. /\ acquiring' \in BOOLEAN /\ playing' \in BOOLEAN /\ ~playing'
      /\ back' \in [Tasks -> LeasePlaces] /\ slot' \in [Tasks -> Nat]
  BY <1>2, <1>3 DEF LeaseTypeOK
<1> QED  BY <1>1, <1>3, <1>4, StartStepKept

\* Stop ends playback at once: whatever Start is under way is stale from here.
LEMMA StopBeginKept ==
  ASSUME LeaseInv, StopBegin
  PROVE  LeaseInv'
<1>1. /\ at["stop"] = "idle" /\ playing' = FALSE /\ gen' = gen + 1
      /\ Go("stop", "stopped") /\ UNCHANGED <<lease, pcm, calls, card>>
  BY DEF StopBegin, Idle
<1>2. LeaseTypeOK /\ StartPlaces /\ WorkerPlaces /\ OneAcquires /\ StopWins
  BY DEF LeaseInv, LeasePlacesOK
<1>3. UNCHANGED <<held, session, mapped, pending, releasing, acquiring, uncertain, retryAt,
                  back, ret, slot, reply, seen>>
  BY <1>1 DEF lease, calls
<1>4. at'["stop"] = "stopped" /\ \A u \in Tasks : u # "stop" => at'[u] = at[u]
  BY <1>1, Goes DEF LeaseInv, Tasks
<1>5. at'["start"] = at["start"] /\ at'["worker"] = at["worker"]
  BY <1>4 DEF Tasks
<1>6. /\ StartPlaces' /\ WorkerPlaces' /\ Recovering' = Recovering
      /\ MayPublish' = MayPublish /\ StartActive' = StartActive
  BY <1>2, <1>3, <1>5, Same DEF Tasks, Recovering, MayPublish, StartActive
<1>7. gen \in Nat /\ gen' \in Nat /\ gen < gen' /\ seen["start"] \in Nat
  BY <1>1, <1>2 DEF LeaseTypeOK, Tasks
<1>8. LeaseTypeOK'
  <2>1. at' \in [Tasks -> LeasePlaces]
    BY <1>1, <1>2, Goes DEF Tasks, LeasePlaces
  <2>2. playing' \in BOOLEAN
    BY <1>1
  <2> QED  BY <1>1, <1>2, <1>3, <1>7, <2>1, <2>2 DEF LeaseTypeOK, pcm, card
<1>9. LeasePlacesOK'
  <2>1. StopPlaces'
    BY <1>4 DEF StopPlaces, Releasing, InRelease, AfterTransfer
  <2> QED  BY <1>6, <2>1 DEF LeasePlacesOK
<1>10. OneReleases'
  BY <1>1, <1>3, ReleaseSection DEF InRelease, AfterTransfer, Tasks
<1>11. OneAcquires'
  BY <1>2, <1>3, <1>5, <1>6 DEF OneAcquires
<1>12. StopWins'
  <2>1. seen'["start"] <= gen' /\ seen'["start"] < gen'
    BY <1>2, <1>3, <1>7 DEF StopWins
  <2>2. ~playing'
    BY <1>1
  <2> QED  BY <2>1, <2>2 DEF StopWins
<1>13. PcmCurrent'
  <2>1. \A u \in Tasks : at'[u] \in AfterTransfer => at[u] \in AfterTransfer
    BY <1>4 DEF AfterTransfer
  <2>2. PcmCurrent /\ ring' = ring
    BY <1>1 DEF LeaseInv, pcm
  <2> QED  BY <1>3, <1>4, <2>1, <2>2 DEF PcmCurrent
<1>14. Identities' /\ LeaseTracked'
  <2>1. ~Acquiring("stop")'
    BY <1>4 DEF Acquiring, Releasing, InRelease, AfterTransfer, InAcquire
  <2>2. at["stop"] \notin AfterTransfer /\ "stop" \in Tasks
    BY <1>1 DEF AfterTransfer, Tasks
  <2> QED  BY <1>1, <1>3, <2>1, <2>2, SameIdentities
<1> QED  BY <1>8, <1>9, <1>10, <1>11, <1>12, <1>13, <1>14 DEF LeaseInv

\* Stop drops the staged period and surrenders the lease.
LEMMA StopSurrenderKept ==
  ASSUME LeaseInv, StopSurrender
  PROVE  LeaseInv'
<1>1. /\ at["stop"] = "stopped" /\ accum' = << >> /\ Go("stop", "release")
      /\ back' = [back EXCEPT !["stop"] = "idle"]
      /\ UNCHANGED <<transport, lease, ring, paused, ret, slot, reply, seen, card>>
  BY DEF StopSurrender, StopDropsAccum, CallRelease
<1>2. LeaseTypeOK /\ StartPlaces /\ WorkerPlaces /\ OneAcquires /\ StopWins /\ "stop" \in Tasks
  BY DEF LeaseInv, LeasePlacesOK, Tasks
<1>3. UNCHANGED <<held, session, mapped, pending, releasing, acquiring, uncertain, retryAt,
                  playing, gen>>
  BY <1>1 DEF lease, transport
<1>4. at'["stop"] = "release" /\ \A u \in Tasks : u # "stop" => at'[u] = at[u]
  BY <1>1, Goes DEF LeaseInv, Tasks
<1>5. /\ back' \in [Tasks -> LeasePlaces] /\ back'["stop"] = "idle"
      /\ \A u \in Tasks : u # "stop" => back'[u] = back[u]
  BY <1>1, <1>2 DEF LeaseTypeOK, LeasePlaces
<1>6. at'["start"] = at["start"] /\ at'["worker"] = at["worker"]
  BY <1>4 DEF Tasks
<1>7. /\ StartPlaces' /\ WorkerPlaces' /\ Recovering' = Recovering
      /\ MayPublish' = MayPublish /\ StartActive' = StartActive
  BY <1>1, <1>2, <1>5, <1>6, Same DEF Tasks, Recovering, MayPublish, StartActive
<1>8. accum' \in Seq(Nat) /\ \A i \in DOMAIN accum' : accum'[i] = gen'
  BY <1>1, Drained
<1>9. LeaseTypeOK'
  <2>1. at' \in [Tasks -> LeasePlaces]
    BY <1>1, <1>2, Goes DEF LeasePlaces
  <2> QED  BY <1>1, <1>2, <1>3, <1>5, <1>8, <2>1 DEF LeaseTypeOK, card
<1>10. LeasePlacesOK'
  <2>1. StopPlaces'
    BY <1>4, <1>5 DEF StopPlaces
  <2> QED  BY <1>7, <2>1 DEF LeasePlacesOK
<1>11. OneReleases'
  BY <1>1, <1>2, <1>3, ReleaseSection DEF InRelease, AfterTransfer
<1>12. OneAcquires' /\ StopWins'
  BY <1>1, <1>2, <1>3, <1>4, <1>6, <1>7 DEF OneAcquires, StopWins
<1>13. PcmCurrent'
  <2>1. \A u \in Tasks : at'[u] \in AfterTransfer => at[u] \in AfterTransfer
    BY <1>4 DEF AfterTransfer
  <2>2. PcmCurrent /\ ring' = ring
    BY <1>1 DEF LeaseInv
  <2> QED  BY <1>3, <1>4, <1>8, <2>1, <2>2 DEF PcmCurrent
<1>14. Identities' /\ LeaseTracked'
  <2>1. ~Acquiring("stop")'
    BY <1>4, <1>5 DEF Acquiring, InAcquire
  <2>2. at["stop"] \notin AfterTransfer
    BY <1>1 DEF AfterTransfer
  <2> QED  BY <1>1, <1>2, <1>3, <1>5, <2>1, <2>2, SameIdentities
<1> QED  BY <1>9, <1>10, <1>11, <1>12, <1>13, <1>14 DEF LeaseInv

-----------------------------------------------------------------------------
(* The worker.                                                             *)

\* The steps of the worker between its timer and its calls: it acquires only
\* for a playback that runs, and only when nothing is held.
LEMMA WorkerStepKept ==
  ASSUME LeaseInv, at["worker"] \in {"wait", "recovered", "recovery stale"},
         NEW q \in {"release", "credits", "acquire", "wait", "gone"}, Go("worker", q),
         UNCHANGED <<transport, held, session, mapped, pending, releasing, ring, paused, card>>,
         accum' = accum \/ accum' = << >>,
         acquiring' \in BOOLEAN, uncertain' \in BOOLEAN, retryAt' \in BOOLEAN,
         back' \in [Tasks -> LeasePlaces], ret' \in [Tasks -> LeasePlaces],
         slot' \in [Tasks -> Nat], reply' \in [Tasks -> Answers \X Nat],
         seen' \in [Tasks -> Nat], seen'["start"] = seen["start"],
         \A u \in Tasks : u # "worker" =>
           back'[u] = back[u] /\ ret'[u] = ret[u] /\ slot'[u] = slot[u] /\ reply'[u] = reply[u],
         q = "release" => \/ back'["worker"] = "wait"
                          \/ /\ back'["worker"] = "recovery stale" /\ acquiring' = acquiring
                             /\ at["worker"] = "recovered",
         q = "acquire" => /\ ~held /\ playing /\ acquiring'
                          /\ ret'["worker"] = "recovered" /\ slot'["worker"] >= 1,
         acquiring' = acquiring \/ at["worker"] \in {"recovered", "recovery stale"} \/ q = "acquire"
  PROVE  LeaseInv'
<1>1. LeaseTypeOK /\ WorkerPlaces /\ OneAcquires /\ StopWins /\ PcmCurrent /\ "worker" \in Tasks
  BY DEF LeaseInv, LeasePlacesOK, Tasks
<1>2. q \notin InRelease /\ q \notin AfterTransfer /\ q # "acquire answered"
  BY DEF InRelease, AfterTransfer
<1>3. at["worker"] \notin InRelease /\ at["worker"] \notin AfterTransfer
  BY DEF InRelease, AfterTransfer
<1>4. /\ at'["worker"] = q /\ at'["stop"] = at["stop"] /\ at'["start"] = at["start"]
      /\ StopPlaces' /\ StartPlaces' /\ MayPublish' = MayPublish
      /\ StartActive' = StartActive /\ OneReleases'
  BY <1>2, <1>3, WorkerWalks
<1>5. UNCHANGED <<gen, playing>>
  BY DEF transport
<1>6. LeaseTypeOK'
  <2>1. q \in LeasePlaces
    BY DEF LeasePlaces, InAcquire
  <2>2. at' \in [Tasks -> LeasePlaces]
    BY <1>1, <2>1, Goes
  <2>3. accum' \in Seq(Nat)
    BY <1>1, Drained DEF LeaseTypeOK
  <2> QED  BY <1>1, <1>5, <2>2, <2>3 DEF LeaseTypeOK, card
<1>7. Acquiring("worker")' => q = "acquire"
  BY <1>2, <1>4 DEF Acquiring, Releasing, InAcquire
<1>8. Releasing("worker")' => q = "release"
  BY <1>2, <1>4 DEF Releasing
<1>9. LeasePlacesOK'
  <2>1. WorkerPlaces'
    BY <1>4, <1>7, <1>8 DEF WorkerPlaces
  <2> QED  BY <1>4, <2>1 DEF LeasePlacesOK
<1>10. OneAcquires'
  <2>1. at["worker"] \in {"recovered", "recovery stale"} => Recovering
    BY DEF Recovering, For
  <2>2. playing => ~StartActive
    BY <1>1 DEF StopWins, StartActive, MayPublish, Acquiring, For, Releasing, InAcquire, InRelease,
                AfterTransfer
  <2>3. Recovering' => q = "acquire" \/ (acquiring' = acquiring /\ at["worker"] = "recovered")
    BY <1>4, <1>7, <1>8 DEF Recovering, For
  <2>4. Recovering' => acquiring' /\ ~StartActive'
    BY <1>1, <1>4, <2>1, <2>2, <2>3 DEF OneAcquires
  <2>5. MayPublish => StartActive
    BY DEF StartActive
  <2>6. MayPublish' /\ at'["start"] # "started" => acquiring'
    BY <1>1, <1>4, <2>1, <2>5 DEF OneAcquires
  <2> QED  BY <2>4, <2>6 DEF OneAcquires
<1>11. StopWins'
  BY <1>1, <1>4, <1>5 DEF StopWins
<1>12. PcmCurrent'
  <2>1. \A u \in Tasks : u # "worker" => at'[u] = at[u]
    BY <1>1, Goes
  <2>2. \A u \in Tasks : at'[u] \in AfterTransfer => at[u] \in AfterTransfer
    BY <1>2, <1>4, <2>1
  <2>3. at["stop"] = "stopped" \/ \A i \in DOMAIN accum' : accum'[i] = gen
    BY <1>1, Drained DEF PcmCurrent
  <2> QED  BY <1>1, <1>4, <1>5, <2>2, <2>3 DEF PcmCurrent
<1>13. Identities' /\ LeaseTracked'
  <2>1. Acquiring("worker")' => ~held
    BY <1>7
  <2> QED  BY <1>1, <1>2, <1>3, <2>1, SameIdentities DEF AfterTransfer
<1> QED  BY <1>4, <1>6, <1>9, <1>10, <1>11, <1>12, <1>13 DEF LeaseInv

\* The timer wakes the worker: a release is retried, a lease is served, or a
\* lost one is acquired anew.
LEMMA PumpKept ==
  ASSUME LeaseInv, Pump
  PROVE  LeaseInv'
<1>1. /\ at["worker"] = "wait" /\ retryAt' = FALSE /\ uncertain' = FALSE
      /\ UNCHANGED <<transport, held, session, mapped, pending, releasing, pcm, card>>
  BY DEF Pump
<1>2. LeaseTypeOK /\ "worker" \in Tasks /\ "start" \in Tasks
  BY DEF LeaseInv, Tasks
<1>3. UNCHANGED <<accum, ring, paused>>
  BY <1>1 DEF pcm
<1>4. retryAt' \in BOOLEAN /\ uncertain' \in BOOLEAN
  BY <1>1
<1>5. CASE CallRelease("worker", "wait") /\ UNCHANGED <<acquiring, ret, slot, reply, seen>>
  <2>1. Go("worker", "release") /\ back' = [back EXCEPT !["worker"] = "wait"]
    BY <1>5 DEF CallRelease
  <2>2. /\ back' \in [Tasks -> LeasePlaces] /\ back'["worker"] = "wait"
        /\ \A u \in Tasks : u # "worker" => back'[u] = back[u]
    BY <1>2, <2>1 DEF LeaseTypeOK, LeasePlaces
  <2>3. /\ ret' \in [Tasks -> LeasePlaces] /\ slot' \in [Tasks -> Nat]
        /\ reply' \in [Tasks -> Answers \X Nat] /\ seen' \in [Tasks -> Nat]
        /\ acquiring' \in BOOLEAN
    BY <1>2, <1>5 DEF LeaseTypeOK
  <2> QED  BY <1>1, <1>3, <1>4, <1>5, <2>1, <2>2, <2>3, WorkerStepKept
<1>6. CASE Go("worker", "credits") /\ UNCHANGED <<acquiring, calls>>
  <2>1. UNCHANGED <<acquiring, back, ret, slot, reply, seen>>
    BY <1>6 DEF calls
  <2>2. /\ ret' \in [Tasks -> LeasePlaces] /\ slot' \in [Tasks -> Nat]
        /\ reply' \in [Tasks -> Answers \X Nat] /\ seen' \in [Tasks -> Nat]
        /\ acquiring' \in BOOLEAN /\ back' \in [Tasks -> LeasePlaces]
    BY <1>2, <2>1 DEF LeaseTypeOK
  <2> QED  BY <1>1, <1>3, <1>4, <1>6, <2>1, <2>2, WorkerStepKept
<1>7. CASE /\ ~held /\ playing /\ acquiring' = TRUE
           /\ CallAcquire("worker", "recovered") /\ UNCHANGED back
  <2>1. Go("worker", "acquire") /\ seen' = [seen EXCEPT !["worker"] = gen]
    BY <1>7 DEF CallAcquire
  <2>2. "recovered" \in LeasePlaces
    BY DEF LeasePlaces
  <2>3. /\ ret' \in [Tasks -> LeasePlaces] /\ slot' \in [Tasks -> Nat]
        /\ reply' \in [Tasks -> Answers \X Nat]
        /\ ret'["worker"] = "recovered" /\ slot'["worker"] >= 1
        /\ \A u \in Tasks : u # "worker" =>
             ret'[u] = ret[u] /\ slot'[u] = slot[u] /\ reply'[u] = reply[u]
    BY <1>2, <1>7, <2>2, AcquireCalls
  <2>4. seen' \in [Tasks -> Nat] /\ seen'["start"] = seen["start"]
    BY <1>2, <2>1 DEF LeaseTypeOK
  <2>5. acquiring' \in BOOLEAN /\ acquiring'
    BY <1>7
  <2>6. back' \in [Tasks -> LeasePlaces] /\ \A u \in Tasks : back'[u] = back[u]
    BY <1>2, <1>7 DEF LeaseTypeOK
  <2> QED  BY <1>1, <1>3, <1>4, <1>7, <2>1, <2>3, <2>4, <2>5, <2>6, WorkerStepKept
<1>8. CASE UNCHANGED <<acquiring, at, calls>>
  <2>1. UNCHANGED <<acquiring, back, ret, slot, reply, seen>>
    BY <1>8 DEF calls
  <2>2. /\ ret' \in [Tasks -> LeasePlaces] /\ slot' \in [Tasks -> Nat]
        /\ reply' \in [Tasks -> Answers \X Nat] /\ seen' \in [Tasks -> Nat]
        /\ acquiring' \in BOOLEAN /\ back' \in [Tasks -> LeasePlaces]
    BY <1>2, <2>1 DEF LeaseTypeOK
  <2>3. Go("worker", "wait")
    BY <1>1, <1>2, <1>8 DEF Go, LeaseTypeOK
  <2> QED  BY <1>1, <1>3, <1>4, <2>1, <2>2, <2>3, WorkerStepKept
<1> QED  BY <1>5, <1>6, <1>7, <1>8 DEF Pump

\* The worker's acquire is over: the grant is kept only for the transport
\* that asked for it.
LEMMA RecoveredKept ==
  ASSUME LeaseInv, Recovered
  PROVE  LeaseInv'
<1>1. /\ at["worker"] = "recovered"
      /\ UNCHANGED <<transport, held, session, mapped, pending, releasing,
                     uncertain, ring, paused, ret, slot, reply, seen, card>>
  BY DEF Recovered
<1>2. LeaseTypeOK /\ "worker" \in Tasks /\ "start" \in Tasks
  BY DEF LeaseInv, Tasks
<1>3. /\ ret' \in [Tasks -> LeasePlaces] /\ slot' \in [Tasks -> Nat]
      /\ reply' \in [Tasks -> Answers \X Nat] /\ seen' \in [Tasks -> Nat]
      /\ uncertain' \in BOOLEAN
  BY <1>1, <1>2 DEF LeaseTypeOK
<1>4. CASE /\ acquiring' = FALSE /\ retryAt' = TRUE /\ Go("worker", "wait")
           /\ UNCHANGED <<accum, back>>
  <2>1. acquiring' \in BOOLEAN /\ retryAt' \in BOOLEAN /\ back' \in [Tasks -> LeasePlaces]
    BY <1>2, <1>4 DEF LeaseTypeOK
  <2> QED  BY <1>1, <1>3, <1>4, <2>1, WorkerStepKept
<1>5. CASE CallRelease("worker", "recovery stale") /\ UNCHANGED <<acquiring, retryAt, accum>>
  <2>1. Go("worker", "release") /\ back' = [back EXCEPT !["worker"] = "recovery stale"]
    BY <1>5 DEF CallRelease
  <2>2. /\ back' \in [Tasks -> LeasePlaces] /\ back'["worker"] = "recovery stale"
        /\ \A u \in Tasks : u # "worker" => back'[u] = back[u]
    BY <1>2, <2>1 DEF LeaseTypeOK, LeasePlaces
  <2>3. acquiring' \in BOOLEAN /\ retryAt' \in BOOLEAN
    BY <1>2, <1>5 DEF LeaseTypeOK
  <2> QED  BY <1>1, <1>3, <1>5, <2>1, <2>2, <2>3, WorkerStepKept
<1>6. CASE /\ acquiring' = FALSE /\ accum' = << >> /\ Go("worker", "credits")
           /\ UNCHANGED <<retryAt, back>>
  <2>1. acquiring' \in BOOLEAN /\ retryAt' \in BOOLEAN /\ back' \in [Tasks -> LeasePlaces]
    BY <1>2, <1>6 DEF LeaseTypeOK
  <2> QED  BY <1>1, <1>3, <1>6, <2>1, WorkerStepKept
<1> QED  BY <1>4, <1>5, <1>6 DEF Recovered

\* The stale grant of a recovery is surrendered.
LEMMA RecoveryStaleKept ==
  ASSUME LeaseInv, RecoveryStale
  PROVE  LeaseInv'
<1>1. /\ at["worker"] = "recovery stale" /\ acquiring' = FALSE /\ Go("worker", "wait")
      /\ UNCHANGED <<transport, held, session, mapped, pending, releasing,
                     uncertain, retryAt, pcm, calls, card>>
  BY DEF RecoveryStale
<1>2. UNCHANGED <<accum, ring, paused, back, ret, slot, reply, seen>>
  BY <1>1 DEF pcm, calls
<1>3. LeaseTypeOK
  BY DEF LeaseInv
<1>4. /\ ret' \in [Tasks -> LeasePlaces] /\ slot' \in [Tasks -> Nat]
      /\ reply' \in [Tasks -> Answers \X Nat] /\ seen' \in [Tasks -> Nat]
      /\ uncertain' \in BOOLEAN /\ acquiring' \in BOOLEAN /\ retryAt' \in BOOLEAN
      /\ back' \in [Tasks -> LeasePlaces]
  BY <1>1, <1>2, <1>3 DEF LeaseTypeOK
<1> QED  BY <1>1, <1>2, <1>4, WorkerStepKept

\* The worker leaves.
LEMMA WorkerQuitKept ==
  ASSUME LeaseInv, WorkerQuit
  PROVE  LeaseInv'
<1>1. /\ at["worker"] = "wait" /\ Go("worker", "gone")
      /\ UNCHANGED <<transport, lease, pcm, calls, card>>
  BY DEF WorkerQuit
<1>2. /\ UNCHANGED <<accum, ring, paused, back, ret, slot, reply, seen>>
      /\ UNCHANGED <<held, session, mapped, pending, releasing, acquiring, uncertain, retryAt>>
  BY <1>1 DEF pcm, calls, lease
<1>3. LeaseTypeOK
  BY DEF LeaseInv
<1>4. /\ ret' \in [Tasks -> LeasePlaces] /\ slot' \in [Tasks -> Nat]
      /\ reply' \in [Tasks -> Answers \X Nat] /\ seen' \in [Tasks -> Nat]
      /\ uncertain' \in BOOLEAN /\ acquiring' \in BOOLEAN /\ retryAt' \in BOOLEAN
      /\ back' \in [Tasks -> LeasePlaces]
  BY <1>2, <1>3 DEF LeaseTypeOK
<1> QED  BY <1>1, <1>2, <1>4, WorkerStepKept

\* A queue of periods of generation g only.
AllOf(s, g) == s \in Seq(Nat) /\ \A i \in DOMAIN s : s[i] = g

\* What is appended to current periods is current.
LEMMA AppendCurrent ==
  ASSUME NEW g \in Nat, NEW r, AllOf(r, g)
  PROVE  AllOf(Append(r, g), g)
<1>1. r \in Seq(Nat) /\ \A i \in DOMAIN r : r[i] = g
  BY DEF AllOf
<1>2. Append(r, g) \in Seq(Nat) /\ Len(Append(r, g)) = Len(r) + 1
  BY <1>1
<1>3. ASSUME NEW i \in DOMAIN Append(r, g) PROVE Append(r, g)[i] = g
  BY <1>1
<1> QED  BY <1>2, <1>3 DEF AllOf

\* What is left of current periods is current.
LEMMA TailCurrent ==
  ASSUME NEW g \in Nat, NEW r, r # << >>, AllOf(r, g)
  PROVE  AllOf(Tail(r), g) /\ Head(r) = g
<1>1. r \in Seq(Nat) /\ \A i \in DOMAIN r : r[i] = g
  BY DEF AllOf
<1>2. Tail(r) \in Seq(Nat) /\ Head(r) = g
  BY <1>1
<1>3. ASSUME NEW i \in DOMAIN Tail(r) PROVE Tail(r)[i] = g
  BY <1>1
<1> QED  BY <1>2, <1>3 DEF AllOf

\* Draining the accumulator keeps what it moves.
LEMMA FlushCurrent ==
  ASSUME NEW g \in Nat, NEW a, NEW r \in Seq(Nat), AllOf(a, g)
  PROVE  /\ AllOf(Flush(a, r)[1], g) /\ Flush(a, r)[2] \in Seq(Nat)
         /\ AllOf(r, g) => AllOf(Flush(a, r)[2], g)
<1>1. CASE Flush(a, r) = <<a, r>>
  BY <1>1
<1>2. CASE a # << >> /\ Flush(a, r) = <<Tail(a), Append(r, Head(a))>>
  <2>1. AllOf(Tail(a), g) /\ Head(a) = g
    BY <1>2, TailCurrent
  <2>2. Append(r, g) \in Seq(Nat)
    OBVIOUS
  <2>3. AllOf(r, g) => AllOf(Append(r, g), g)
    BY AppendCurrent
  <2>4. Flush(a, r)[1] = Tail(a) /\ Flush(a, r)[2] = Append(r, g)
    BY <1>2, <2>1
  <2> QED  BY <2>1, <2>2, <2>3, <2>4
<1> QED  BY <1>1, <1>2 DEF Flush

\* So does a pass that mixes one period between two drains.
LEMMA PassCurrent ==
  ASSUME NEW g \in Nat, NEW a, NEW r \in Seq(Nat), AllOf(a, g),
         NEW m \in {Flush(a, r)[1], Append(Flush(a, r)[1], g)}
  PROVE  /\ AllOf(Flush(m, Flush(a, r)[2])[1], g) /\ Flush(m, Flush(a, r)[2])[2] \in Seq(Nat)
         /\ AllOf(r, g) => AllOf(Flush(m, Flush(a, r)[2])[2], g)
<1> DEFINE c == Flush(a, r)[2]
<1>1. AllOf(Flush(a, r)[1], g) /\ c \in Seq(Nat) /\ (AllOf(r, g) => AllOf(c, g))
  BY FlushCurrent
<1>2. AllOf(Append(Flush(a, r)[1], g), g)
  BY <1>1, AppendCurrent
<1>3. AllOf(m, g)
  BY <1>1, <1>2
<1>4. /\ AllOf(Flush(m, c)[1], g) /\ Flush(m, c)[2] \in Seq(Nat)
      /\ AllOf(c, g) => AllOf(Flush(m, c)[2], g)
  <2> HIDE DEF c
  <2> QED  BY <1>1, <1>3, FlushCurrent
<1> QED  BY <1>1, <1>4

\* A pass of the worker: a revocation is seen, or periods are mixed and sent.
LEMMA CreditsKept ==
  ASSUME LeaseInv, Credits
  PROVE  LeaseInv'
<1>1. /\ at["worker"] = "credits" /\ Go("worker", "wait")
      /\ UNCHANGED <<transport, pending, releasing, acquiring, uncertain, calls, card>>
  BY DEF Credits
<1>2. /\ LeaseTypeOK /\ OneAcquires /\ StopWins /\ PcmCurrent /\ Identities /\ LeaseTracked
      /\ "worker" \in Tasks
  BY DEF LeaseInv, Tasks
<1>3. UNCHANGED <<gen, playing, back, ret, slot, reply, seen, fw, granted, unacked, unusable>>
  BY <1>1 DEF transport, calls, card
<1>4. at["worker"] \notin InRelease /\ at["worker"] \notin AfterTransfer
      /\ at["worker"] \notin InAcquire
  BY <1>1 DEF InRelease, AfterTransfer, InAcquire
<1>5. "wait" \notin InRelease /\ "wait" \notin AfterTransfer /\ "wait" \notin InAcquire
  BY DEF InRelease, AfterTransfer, InAcquire
<1>6. /\ at'["worker"] = "wait" /\ at'["stop"] = at["stop"] /\ at'["start"] = at["start"]
      /\ StopPlaces' /\ StartPlaces' /\ MayPublish' = MayPublish
      /\ StartActive' = StartActive /\ OneReleases'
  BY <1>1, <1>3, <1>4, <1>5, WorkerWalks
<1>7. \A u \in Tasks : u # "worker" => at'[u] = at[u]
  BY <1>1, <1>2, Goes
<1>8. ~Acquiring("worker")' /\ ~Releasing("worker")'
  BY <1>5, <1>6 DEF Acquiring, Releasing
<1>9. LeasePlacesOK'
  <2>1. WorkerPlaces'
    BY <1>6, <1>8 DEF WorkerPlaces
  <2> QED  BY <1>6, <2>1 DEF LeasePlacesOK
<1>10. OneAcquires'
  <2>1. ~Recovering'
    BY <1>6, <1>8 DEF Recovering, For
  <2> QED  BY <1>1, <1>2, <1>6, <2>1 DEF OneAcquires
<1>11. StopWins'
  BY <1>2, <1>3, <1>6 DEF StopWins
<1>12. at' \in [Tasks -> LeasePlaces]
  <2>1. "wait" \in LeasePlaces
    BY DEF LeasePlaces
  <2> QED  BY <1>1, <1>2, <2>1, Goes
<1>13. \A u \in Tasks : at'[u] \in AfterTransfer <=> at[u] \in AfterTransfer
  BY <1>4, <1>5, <1>6, <1>7
<1>14. CASE /\ ~Live(session)
            /\ held' = FALSE /\ session' = 0 /\ mapped' = FALSE /\ retryAt' = FALSE
            /\ accum' = << >> /\ UNCHANGED <<ring, paused>>
  <2>1. accum' \in Seq(Nat) /\ \A i \in DOMAIN accum' : accum'[i] = gen'
    BY <1>14, Drained
  <2>2. /\ held' \in BOOLEAN /\ mapped' \in BOOLEAN /\ retryAt' \in BOOLEAN
        /\ session' \in Nat /\ ~held'
    BY <1>14
  <2>3. LeaseTypeOK'
    BY <1>1, <1>2, <1>3, <1>12, <1>14, <2>1, <2>2 DEF LeaseTypeOK
  <2>4. PcmCurrent'
    BY <2>1, <2>2 DEF PcmCurrent
  <2>5. Identities'
    <3>1. session' <= granted'
      BY <1>2, <1>3, <1>14 DEF LeaseTypeOK
    <3>2. pending' <= granted'
      BY <1>1, <1>2, <1>3 DEF Identities
    <3>3. PendingOwed'
      BY <1>1, <1>2, <1>3, <1>13 DEF Identities, PendingOwed
    <3>4. ASSUME NEW u \in Tasks PROVE ReleaseAnswer(u)' /\ AcquireAnswer(u)' /\ NoUsable(u)'
      <4>1. ReleaseAnswer(u) /\ AcquireAnswer(u)
        BY <1>2 DEF Identities
      <4>2. at'[u] \in {"release answered", "acquire answered"} => at'[u] = at[u]
        BY <1>6, <1>7
      <4> QED  BY <1>1, <1>3, <2>2, <4>1, <4>2 DEF ReleaseAnswer, AcquireAnswer, NoUsable
    <3> QED  BY <3>1, <3>2, <3>3, <3>4 DEF Identities
  <2>6. LeaseTracked'
    <3> SUFFICES ASSUME NEW s \in 1..Slots, fw[s] # 0, fw[s] \notin unacked \cup unusable,
                        pending # fw[s]
                 PROVE  \E u \in Tasks : at'[u] = "acquire answered" /\ reply'[u][2] = fw[s]
      BY <1>1, <1>3 DEF LeaseTracked
    <3>1. session # fw[s]
      BY <1>14 DEF Live
    <3>2. PICK u \in Tasks : at[u] = "acquire answered" /\ reply[u][2] = fw[s]
      BY <1>2, <3>1 DEF LeaseTracked
    <3>3. u # "worker"
      BY <1>1, <3>2
    <3> QED  BY <1>3, <1>7, <3>2, <3>3
  <2> QED  BY <1>6, <1>9, <1>10, <1>11, <2>3, <2>4, <2>5, <2>6 DEF LeaseInv
<1>15. CASE UNCHANGED <<held, session, mapped, retryAt>>
            /\ accum' \in Seq(Nat) /\ ring' \in Seq(Nat) /\ paused' \in BOOLEAN
            /\ \/ UNCHANGED <<accum, ring>>
               \/ /\ playing /\ \A i \in DOMAIN accum' : accum'[i] = gen
                  /\ held /\ mapped => \A i \in DOMAIN ring' : ring'[i] = gen
  <2>1. LeaseTypeOK'
    BY <1>1, <1>2, <1>3, <1>12, <1>15 DEF LeaseTypeOK
  <2>2. PcmCurrent'
    <3>1. CASE UNCHANGED <<accum, ring>>
      BY <1>2, <1>3, <1>6, <1>13, <1>15, <3>1 DEF PcmCurrent
    <3>2. CASE /\ playing /\ \A i \in DOMAIN accum' : accum'[i] = gen
               /\ held /\ mapped => \A i \in DOMAIN ring' : ring'[i] = gen
      <4>1. at["start"] = "idle" /\ at["stop"] = "idle"
        BY <1>2, <3>2 DEF StopWins
      <4>2. \A u \in Tasks : at'[u] \notin AfterTransfer
        BY <1>5, <1>6, <4>1 DEF Tasks, AfterTransfer
      <4> QED  BY <1>3, <1>15, <3>2, <4>2 DEF PcmCurrent
    <3> QED  BY <1>15, <3>1, <3>2
  <2>3. Identities' /\ LeaseTracked'
    BY <1>1, <1>2, <1>3, <1>4, <1>8, <1>15, SameIdentities
  <2> QED  BY <1>6, <1>9, <1>10, <1>11, <2>1, <2>2, <2>3 DEF LeaseInv
<1> QED
  <2> SUFFICES ASSUME Live(session), UNCHANGED <<held, session, mapped, retryAt>>
               PROVE  LeaseInv'
    BY <1>14 DEF Credits
  <2> DEFINE before == Flush(accum, ring)
             mixed  == IF Len(before[1]) < AccumPeriods
                       THEN Append(before[1], gen) ELSE before[1]
             after  == Flush(mixed, before[2])
  <2>1. \/ playing /\ accum' = after[1] /\ ring' = after[2]
           /\ paused' = (paused /\ Len(ring') < RunwayPeriods)
        \/ UNCHANGED pcm
    BY DEF Credits
  <2>2. ASSUME playing
        PROVE  /\ after[1] \in Seq(Nat) /\ after[2] \in Seq(Nat)
               /\ \A i \in DOMAIN after[1] : after[1][i] = gen
               /\ held /\ mapped => \A i \in DOMAIN after[2] : after[2][i] = gen
    <3>1. at["start"] = "idle" /\ at["stop"] = "idle"
      BY <1>2, <2>2 DEF StopWins
    <3>2. accum \in Seq(Nat) /\ ring \in Seq(Nat) /\ gen \in Nat
      BY <1>2 DEF LeaseTypeOK
    <3>3. AllOf(accum, gen) /\ (held /\ mapped => AllOf(ring, gen))
      BY <1>2, <3>1, <3>2 DEF PcmCurrent, AllOf
    <3>4. mixed \in {before[1], Append(before[1], gen)}
      OBVIOUS
    <3> HIDE DEF mixed
    <3>5. /\ AllOf(after[1], gen) /\ after[2] \in Seq(Nat)
          /\ AllOf(ring, gen) => AllOf(after[2], gen)
      BY <3>2, <3>3, <3>4, PassCurrent
    <3> HIDE DEF after, before
    <3> QED  BY <3>3, <3>5 DEF AllOf
  <2> HIDE DEF after, mixed, before
  <2>3. CASE UNCHANGED pcm
    <3>1. UNCHANGED <<accum, ring, paused>>
      BY <2>3 DEF pcm
    <3> QED  BY <1>2, <1>15, <3>1 DEF LeaseTypeOK
  <2>4. CASE playing /\ accum' = after[1] /\ ring' = after[2]
             /\ paused' = (paused /\ Len(ring') < RunwayPeriods)
    <3>1. paused' \in BOOLEAN
      BY <2>4
    <3> QED  BY <1>15, <2>2, <2>4, <3>1
  <2> QED  BY <2>1, <2>3, <2>4

-----------------------------------------------------------------------------
(* The firmware's compositor, and the specification.                       *)

\* The compositor plays the oldest period.
LEMMA FwConsumeKept ==
  ASSUME LeaseInv, FwConsume
  PROVE  LeaseInv'
<1>1. /\ ring # << >> /\ ring' = Tail(ring)
      /\ UNCHANGED <<transport, lease, accum, paused, at, calls, card>>
  BY DEF FwConsume
<1>2. UNCHANGED <<playing, gen, held, session, mapped, pending, releasing, acquiring, uncertain,
                  retryAt, accum, paused, at, back, ret, slot, reply, seen, fw, granted, unacked,
                  unusable>>
  BY <1>1 DEF transport, lease, calls, card
<1>3. LeaseTypeOK /\ PcmCurrent
  BY DEF LeaseInv
<1>4. ring \in Seq(Nat) /\ gen \in Nat
  BY <1>3 DEF LeaseTypeOK
<1>5. ring' \in Seq(Nat)
  BY <1>1, <1>4
<1>6. LeaseTypeOK'
  BY <1>2, <1>3, <1>5 DEF LeaseTypeOK
<1>7. AllOf(ring, gen) => AllOf(ring', gen)
  BY <1>1, <1>4, TailCurrent
<1>8. PcmCurrent'
  <2>1. AllOf(ring, gen) <=> \A i \in DOMAIN ring : ring[i] = gen
    BY <1>4 DEF AllOf
  <2>2. AllOf(ring', gen) <=> \A i \in DOMAIN ring' : ring'[i] = gen
    BY <1>5 DEF AllOf
  <2>3. held /\ mapped => ~\E t \in Tasks : at[t] \in AfterTransfer
    BY <1>1, <1>3 DEF PcmCurrent
  <2> QED  BY <1>2, <1>3, <1>7, <2>1, <2>2, <2>3 DEF PcmCurrent
<1>9. LeasePlacesOK'
  BY <1>2 DEF LeaseInv, LeasePlacesOK, StopPlaces, StartPlaces, WorkerPlaces, Releasing, Acquiring
<1>10. OneReleases' /\ OneAcquires' /\ StopWins'
  BY <1>2 DEF LeaseInv, OneReleases, OneAcquires, StopWins, MayPublish, StartActive, Recovering,
              For, Releasing, Acquiring
<1>11. Identities' /\ LeaseTracked'
  BY <1>2 DEF LeaseInv, Identities, LeaseTracked, PendingOwed, ReleaseAnswer, AcquireAnswer,
              NoUsable, Releasing, Acquiring
<1> QED  BY <1>6, <1>8, <1>9, <1>10, <1>11 DEF LeaseInv

\* The firmware revokes a lease: the driver owes one less.
LEMMA FwRevokeKept ==
  ASSUME LeaseInv, FwRevoke
  PROVE  LeaseInv'
<1>1. UNCHANGED <<transport, lease, pcm, at, calls, granted, unacked, unusable>>
  BY DEF FwRevoke
<1>2. UNCHANGED <<playing, gen, held, session, mapped, pending, releasing, acquiring, uncertain,
                  retryAt, accum, ring, paused, at, back, ret, slot, reply, seen, granted, unacked,
                  unusable>>
  BY <1>1 DEF transport, lease, pcm, calls
<1>3. LeaseTypeOK /\ Identities /\ LeaseTracked
  BY DEF LeaseInv
<1>4. /\ fw' \in [1..Slots -> Nat] /\ \A s \in 1..Slots : fw'[s] = 0 \/ fw'[s] = fw[s]
  BY <1>3 DEF FwRevoke, LeaseTypeOK
<1>5. LeaseTypeOK'
  BY <1>2, <1>3, <1>4 DEF LeaseTypeOK
<1>6. PcmCurrent'
  BY <1>2 DEF LeaseInv, PcmCurrent
<1>7. LeasePlacesOK'
  BY <1>2 DEF LeaseInv, LeasePlacesOK, StopPlaces, StartPlaces, WorkerPlaces, Releasing, Acquiring
<1>8. OneReleases' /\ OneAcquires' /\ StopWins'
  BY <1>2 DEF LeaseInv, OneReleases, OneAcquires, StopWins, MayPublish, StartActive, Recovering,
              For, Releasing, Acquiring
<1>9. Identities'
  <2>1. session' <= granted' /\ pending' <= granted' /\ PendingOwed'
    BY <1>2, <1>3 DEF Identities, PendingOwed
  <2>2. ASSUME NEW t \in Tasks PROVE ReleaseAnswer(t)' /\ AcquireAnswer(t)' /\ NoUsable(t)'
    <3>1. ReleaseAnswer(t) /\ AcquireAnswer(t) /\ NoUsable(t)
      BY <1>3 DEF Identities
    <3>2. ReleaseAnswer(t)'
      BY <1>2, <1>4, <3>1 DEF ReleaseAnswer
    <3> QED  BY <1>2, <3>1, <3>2 DEF AcquireAnswer, NoUsable, Acquiring, Releasing
  <2> QED  BY <2>1, <2>2 DEF Identities
<1>10. LeaseTracked'
  BY <1>2, <1>3, <1>4 DEF LeaseTracked
<1> QED  BY <1>5, <1>6, <1>7, <1>8, <1>9, <1>10 DEF LeaseInv

\* Nothing is held, staged or under way at first.
LEMMA LeaseInvInit ==
  ASSUME LeaseInit
  PROVE  LeaseInv
<1>1. /\ playing = FALSE /\ gen = 0 /\ held = FALSE /\ session = 0 /\ mapped = FALSE
      /\ pending = 0 /\ releasing = FALSE /\ acquiring = FALSE /\ uncertain = FALSE
      /\ retryAt = FALSE /\ accum = << >> /\ ring = << >> /\ paused = FALSE
      /\ at = [t \in Tasks |-> IF t = "worker" THEN "wait" ELSE "idle"]
      /\ back = [t \in Tasks |-> "idle"] /\ ret = [t \in Tasks |-> "idle"]
      /\ slot = [t \in Tasks |-> 1] /\ reply = [t \in Tasks |-> <<"refused", 0>>]
      /\ seen = [t \in Tasks |-> 0]
      /\ fw = [s \in 1..Slots |-> 0] /\ granted = 0 /\ unacked = {} /\ unusable = {}
  BY DEF LeaseInit
<1>2. /\ at["start"] = "idle" /\ at["stop"] = "idle" /\ at["worker"] = "wait"
      /\ at \in [Tasks -> {"idle", "wait"}]
  BY <1>1 DEF Tasks
<1>3. \A t \in Tasks : ~Acquiring(t) /\ ~Releasing(t) /\ at[t] \notin InRelease
  BY <1>2 DEF Acquiring, Releasing, InRelease, InAcquire, AfterTransfer
<1>4. LeaseTypeOK
  <2>1. at \in [Tasks -> LeasePlaces] /\ back \in [Tasks -> LeasePlaces]
        /\ ret \in [Tasks -> LeasePlaces]
    BY <1>1, <1>2 DEF LeasePlaces
  <2>2. reply \in [Tasks -> Answers \X Nat]
    BY <1>1 DEF Answers
  <2>3. slot \in [Tasks -> Nat] /\ seen \in [Tasks -> Nat] /\ fw \in [1..Slots -> Nat]
    BY <1>1
  <2>4. accum \in Seq(Nat) /\ ring \in Seq(Nat)
    BY <1>1
  <2>5. /\ playing \in BOOLEAN /\ held \in BOOLEAN /\ mapped \in BOOLEAN /\ releasing \in BOOLEAN
        /\ acquiring \in BOOLEAN /\ uncertain \in BOOLEAN /\ retryAt \in BOOLEAN
        /\ paused \in BOOLEAN
    BY <1>1
  <2>6. /\ gen \in Nat /\ session \in Nat /\ pending \in Nat /\ granted \in Nat
        /\ unacked \subseteq Nat /\ unusable \subseteq Nat
    BY <1>1
  <2> QED  BY <2>1, <2>2, <2>3, <2>4, <2>5, <2>6 DEF LeaseTypeOK
<1>5. LeasePlacesOK
  BY <1>2, <1>3 DEF LeasePlacesOK, StopPlaces, StartPlaces, WorkerPlaces, InRelease, InAcquire,
                    AfterTransfer, Tasks
<1>6. OneReleases
  BY <1>1, <1>3 DEF OneReleases
<1>7. ~MayPublish /\ ~Recovering
  BY <1>2, <1>3 DEF MayPublish, Recovering, For, Tasks
<1>8. OneAcquires
  BY <1>7 DEF OneAcquires
<1>9. StopWins
  <2>1. seen["start"] <= gen
    BY <1>1 DEF Tasks
  <2> QED  BY <1>2, <1>7, <2>1 DEF StopWins
<1>10. PcmCurrent
  BY <1>1 DEF PcmCurrent
<1>11. Identities
  <2>1. session <= granted /\ pending <= granted
    BY <1>1
  <2>2. \A t \in Tasks : at[t] \in {"idle", "wait"}
    BY <1>2
  <2> QED  BY <1>1, <1>3, <2>1, <2>2 DEF Identities, PendingOwed, ReleaseAnswer, AcquireAnswer,
                                         NoUsable
<1>12. LeaseTracked
  BY <1>1 DEF LeaseTracked
<1> QED  BY <1>4, <1>5, <1>6, <1>8, <1>9, <1>10, <1>11, <1>12 DEF LeaseInv

\* Every step of the three tasks and of the firmware keeps it.
LEMMA LeaseInvNext ==
  ASSUME LeaseInv, [LeaseNext]_leaseVars
  PROVE  LeaseInv'
<1>1. ASSUME NEW t \in Tasks, ReleaseBegin(t) \/ ReleaseTransfer(t) \/ ReleaseSend(t)
                              \/ ReleaseDone(t) \/ FwRelease(t)
      PROVE  LeaseInv'
  BY <1>1, ReleaseBeginKept, ReleaseTransferKept, ReleaseSendKept, ReleaseDoneKept, FwReleaseKept
<1>2. ASSUME NEW t \in Tasks, AcquireSend(t) \/ AcquireDone(t) \/ Rejected(t) \/ FwAcquire(t)
      PROVE  LeaseInv'
  BY <1>2, AcquireSendKept, AcquireDoneKept, RejectedKept, FwAcquireKept
<1>3. CASE Start \/ StartAcquired \/ StartPublish \/ StartStale \/ StopBegin \/ StopSurrender
  BY <1>3, StartKept, StartAcquiredKept, StartPublishKept, StartStaleKept, StopBeginKept,
     StopSurrenderKept
<1>4. CASE FreeBegin \/ FreeRelease \/ FreeJoin
  BY <1>4, FreeBeginKept, FreeReleaseKept, FreeJoinKept
<1>5. CASE Pump \/ Recovered \/ RecoveryStale \/ Credits \/ WorkerQuit
  BY <1>5, PumpKept, RecoveredKept, RecoveryStaleKept, CreditsKept, WorkerQuitKept
<1>6. CASE FwConsume \/ FwRevoke
  BY <1>6, FwConsumeKept, FwRevokeKept
<1>7. CASE UNCHANGED leaseVars
  <2>1. UNCHANGED <<playing, gen, held, session, mapped, pending, releasing, acquiring, uncertain,
                    retryAt, accum, ring, paused, at, back, ret, slot, reply, seen, fw, granted,
                    unacked, unusable>>
    BY <1>7 DEF leaseVars, transport, lease, pcm, calls, card
  <2>2. LeaseTypeOK'
    BY <2>1 DEF LeaseInv, LeaseTypeOK
  <2>3. LeasePlacesOK'
    BY <2>1 DEF LeaseInv, LeasePlacesOK, StopPlaces, StartPlaces, WorkerPlaces, Releasing,
                Acquiring
  <2>4. OneReleases' /\ OneAcquires' /\ StopWins' /\ PcmCurrent'
    BY <2>1 DEF LeaseInv, OneReleases, OneAcquires, StopWins, PcmCurrent, MayPublish, StartActive,
                Recovering, For, Releasing, Acquiring
  <2>5. Identities' /\ LeaseTracked'
    BY <2>1 DEF LeaseInv, Identities, LeaseTracked, PendingOwed, ReleaseAnswer, AcquireAnswer,
                NoUsable, Releasing, Acquiring
  <2> QED  BY <2>2, <2>3, <2>4, <2>5 DEF LeaseInv
<1> QED  BY <1>1, <1>2, <1>3, <1>4, <1>5, <1>6, <1>7 DEF LeaseNext

\* The invariant is what the run checks: while playback runs, what is staged
\* is of this playback, and no lease is forgotten.
LEMMA LeaseInvSafe ==
  ASSUME LeaseInv
  PROVE  LeaseSafe
<1>1. playing => at["start"] = "idle" /\ at["stop"] = "idle"
  BY DEF LeaseInv, StopWins
<1>2. NoStalePcm
  BY <1>1 DEF LeaseInv, PcmCurrent, NoStalePcm
<1> QED  BY <1>2 DEF LeaseInv, LeaseSafe

\* One task at a time is in the release section of fabric_lease_release, and
\* exactly then lease_release_in_progress is set; a Start that may still
\* publish and a recovery of the worker never overlap, and while either runs
\* lease_acquire_in_progress keeps the other out.
THEOREM LeaseCallsExclude == LeaseSpec => [](OneReleases /\ OneAcquires)
<1>1. LeaseInit => LeaseInv
  BY LeaseInvInit
<1>2. LeaseInv /\ [LeaseNext]_leaseVars => LeaseInv'
  BY LeaseInvNext
<1>3. LeaseInv => OneReleases /\ OneAcquires
  BY DEF LeaseInv
<1> QED  BY <1>1, <1>2, <1>3, PTL DEF LeaseSpec

\* Through every race of Start, Stop, FreeAudio and the worker's recovery
\* (zz9000ax-ahi.c), with any number of slots, grants and Stops and any ring:
\* no PCM of a stopped playback reaches the ring of a running one, and no
\* usable lease whose grant and release were answered is forgotten.
THEOREM LeaseIsSafe == LeaseSpec => []LeaseSafe
<1>1. LeaseInit => LeaseInv
  BY LeaseInvInit
<1>2. LeaseInv /\ [LeaseNext]_leaseVars => LeaseInv'
  BY LeaseInvNext
<1>3. LeaseInv => LeaseSafe
  BY LeaseInvSafe
<1> QED  BY <1>1, <1>2, <1>3, PTL DEF LeaseSpec

-----------------------------------------------------------------------------
(* The inductive invariant of the player.                                  *)

FeederLocked ==
  {"scan", "copy", "accepted", "bind", "binding", "drain", "probed", "pace"}
FeederPlaces == FeederLocked \cup {"top", "timed", "idle", "gone"}
PlayerLocked == {"opening", "publish", "rebind", "rebound", "give up"}
PlayerPlaces == PlayerLocked \cup {"idle", "open", "rearm", "resume"}
ControlPlaces == {"idle", "close", "return", "unbind", "retire", "freed"}
Anywhere == FeederPlaces \cup PlayerPlaces \cup ControlPlaces
Draining == {"close", "return", "retire"}

Nodes == [buf : Bufs, handed : BOOLEAN, end : Nat, played : BOOLEAN]

\* The feeder is at work on the stream.
Working == place["feeder"] \in FeederLocked \ {"pace"}

FlagsOK ==
  /\ playPending \in BOOLEAN /\ pausePending \in BOOLEAN /\ haveUnfed \in BOOLEAN
  /\ backpressure \in BOOLEAN /\ eofSent \in BOOLEAN /\ drainAsked \in BOOLEAN
  /\ rings \in BOOLEAN /\ quit \in BOOLEAN /\ wake \in BOOLEAN /\ drainBusy \in BOOLEAN
  /\ revived \in BOOLEAN
Commands == [op : {"play", "stop", "close"}, of : Nat]
OutputOK == bound \in Nat /\ astray \subseteq Nat /\ late \subseteq Commands
CountsOK ==
  /\ stream \in Nat /\ tgen \in Nat /\ lgen \in Nat /\ polls \in Nat /\ fed \in Nat
  /\ playGen \in Nat /\ taken \in Nat /\ eaten \in Nat /\ sessions \in Nat
PlacesOK ==
  /\ status \in {"STOPPED", "PLAYING", "PAUSED", "OUT_OF_DATA"}
  /\ ioLock \in {"free", "feeder", "player"}
  /\ place \in [PlayerTasks -> Anywhere]
  /\ place["feeder"] \in FeederPlaces /\ place["player"] \in PlayerPlaces
  /\ place["control"] \in ControlPlaces
ChunkOK ==
  /\ snap \in [buf : Bufs \cup {"none"}, gen : Nat]
  /\ res \in [st : {"ok", "busy", "failed"}, eaten : Nat, drained : BOOLEAN]
BufsOK == queue \in Seq(Nodes) /\ mine \subseteq Bufs /\ dropped \subseteq Bufs

PlayerTypeOK == FlagsOK /\ OutputOK /\ CountsOK /\ PlacesOK /\ ChunkOK /\ BufsOK

\* io_lock is held by the task that works under it.
IoLocked ==
  /\ ioLock = "feeder" <=> place["feeder"] \in FeederLocked
  /\ ioLock = "player" <=> place["player"] \in PlayerLocked

\* A command still out is of a session that may be astray.
Strayed == \A c \in late : c.of \in astray

\* The session bound to the output, as far as the driver can know.
Known == IF bound \in astray THEN 0 ELSE bound

\* Who needs a session has one, and no other is known to be bound.
Sessioned ==
  /\ Working => stream # 0
  /\ place["player"] = "publish" => stream # 0
  /\ Known \in {0, stream}
  /\ status # "STOPPED" /\ ~revived => stream # 0

\* A feeder at work on a stopped or paused stream: the Stop or Pause waits
\* for io_lock to undo what it still binds.
FeederStops ==
  /\ Working /\ status = "STOPPED" => place["control"] \in {"close", "retire"}
  /\ Working /\ status = "PAUSED" => place["control"] = "unbind"

\* A stopped or paused decoder is bound only while a call will unbind it.
Unbound ==
  status \in {"STOPPED", "PAUSED"} =>
    Known = 0 \/ place["control"] \in {"close", "unbind", "retire"} \/ place["player"] = "rebound"

\* A resume is of a paused decoder no other call works on, or was stopped.
Resuming ==
  /\ place["player"] = "resume" =>
       status = "STOPPED" \/ (status = "PAUSED" /\ place["control"] = "idle")
  /\ place["player"] \in {"rebind", "rebound"} =>
       \/ status = "PAUSED" /\ place["control"] = "idle"
       \/ status = "STOPPED" /\ place["control"] = "close"

\* What a Pause and a Stop leave for a Play that opens a session to find.
Contested ==
  place["player"] \in {"opening", "publish"} =>
    /\ pausePending => Known = 0
    /\ tgen # playGen => status = "STOPPED" /\ \A i \in DOMAIN queue : ~queue[i].handed

\* A Stop has emptied the queue before it closes the session, and
\* FreeDecoder is alone with the feeder.
Closing ==
  /\ place["control"] = "close" => status = "STOPPED" \/ revived
  /\ place["control"] \in Draining \cup {"freed"} => queue = << >>
  /\ place["control"] \in {"retire", "freed"} =>
       status = "STOPPED" /\ place["player"] = "idle" /\ quit
  /\ place["control"] \notin Draining => dropped = {}

\* Each buffer is the application's, in the queue once, or being given back;
\* what was handed over is in the card's session.
Owned ==
  /\ \A i, j \in DOMAIN queue : queue[i].buf = queue[j].buf => i = j
  /\ \A i \in DOMAIN queue : queue[i].buf \notin mine
  /\ dropped \cap mine = {}
Handed ==
  \A i \in DOMAIN queue : /\ queue[i].played => queue[i].handed
                          /\ queue[i].handed => stream # 0 /\ queue[i].end <= taken
UnfedKnown == ~haveUnfed => \A i \in DOMAIN queue : queue[i].handed

\* The chunk the feeder copies is still its own to read.
Copying ==
  place["feeder"] = "copy" =>
    \/ \E i \in DOMAIN queue : ~queue[i].handed /\ queue[i].buf = snap.buf
    \/ snap.buf \in dropped /\ place["control"] \in {"close", "retire"}

\* The card's cursors, and the feeder's knowledge of them.
Counted ==
  /\ eaten <= taken /\ res.eaten <= eaten /\ fed <= taken
  /\ place["feeder"] = "accepted" => fed < taken
  /\ place["feeder"] = "probed" /\ res.st = "ok" /\ res.drained => eaten = taken

\* A feeder asleep without a timer was told, or has nothing to do yet.
Told ==
  place["feeder"] = "idle" /\ ~wake /\ status = "PLAYING" /\ stream # 0 =>
    (~haveUnfed /\ ~playPending) \/ place["player"] = "publish"

PlayerInv ==
  /\ PlayerTypeOK /\ Strayed /\ IoLocked /\ Sessioned /\ FeederStops /\ Unbound /\ Resuming
  /\ Contested /\ Closing /\ Owned /\ Handed /\ UnfedKnown /\ Copying /\ Counted /\ Told

-----------------------------------------------------------------------------
(* What a command and its answer tell of the output.                       *)

\* An answered PLAY or STOP.
LEMMA Answered ==
  ASSUME OutputOK, Strayed, NEW s \in Nat, NEW b \in {s, Without(s)}, Done(s, b)
  PROVE  /\ OutputOK' /\ Strayed' /\ Known' \in {0, Known, s}
         /\ b = Without(s) /\ Known \in {0, s} => Known' = 0
<1>1. late' = late /\ bound' = b /\ b \in {0, s, bound}
  BY DEF Done, Without
<1>2. /\ astray' \subseteq astray /\ (\A x \in astray : x \in astray' \/ x = s)
      /\ (\A c \in late : c.of = s => astray' = astray)
  BY DEF Done, Certain, Outstanding
<1>3. OutputOK'
  BY <1>1, <1>2 DEF OutputOK
<1>4. Strayed'
  BY <1>1, <1>2 DEF Strayed
<1>5. Known' \in {0, Known, s}
  BY <1>1, <1>2 DEF Known
<1>6. ASSUME b = Without(s), Known \in {0, s} PROVE Known' = 0
  BY <1>1, <1>2, <1>6 DEF Known, Without
<1> QED BY <1>3, <1>4, <1>5, <1>6

\* A command that failed, whether or not the card may still carry it out.
LEMMA Failed ==
  ASSUME OutputOK, Strayed, NEW s \in Nat, Doubt(s), NEW ops \in SUBSET {"play", "stop", "close"},
         bound' \in {bound, Without(s)}, late' = late \cup {[op |-> o, of |-> s] : o \in ops}
  PROVE  /\ OutputOK' /\ Strayed' /\ Known' \in {0, Known}
         /\ Known \in {0, s} => Known' = 0
<1>1. astray' = astray \cup {s} /\ bound' \in {0, bound}
  BY DEF Doubt, Without
<1>2. \A o \in ops : [op |-> o, of |-> s] \in Commands
  BY DEF Commands
<1>3. OutputOK'
  BY <1>1, <1>2 DEF OutputOK
<1>4. Strayed'
  BY <1>1 DEF Strayed
<1>5. Known' \in {0, Known} /\ (Known \in {0, s} => Known' = 0)
  BY <1>1 DEF Known
<1> QED BY <1>3, <1>4, <1>5

\* A command that timed out.
LEMMA TimedOutKnown ==
  ASSUME OutputOK, Strayed, NEW s \in Nat, NEW o \in {"play", "stop", "close"}, TimedOut(s, o)
  PROVE  /\ OutputOK' /\ Strayed' /\ Known' \in {0, Known}
         /\ Known \in {0, s} => Known' = 0
<1>1. Doubt(s) /\ bound' = bound /\ late' = late \cup {[op |-> x, of |-> s] : x \in {o}}
  BY DEF TimedOut, Delayed
<1> QED BY <1>1, Failed

\* A command that was refused changes nothing but the driver's knowledge.
LEMMA Refused ==
  ASSUME OutputOK, Strayed, NEW s \in Nat, Doubt(s), UNCHANGED <<bound, late>>
  PROVE  /\ OutputOK' /\ Strayed' /\ Known' \in {0, Known}
         /\ Known \in {0, s} => Known' = 0
<1>1. late' = late \cup {[op |-> x, of |-> s] : x \in {}}
  OBVIOUS
<1> QED BY <1>1, Failed

\* Confirmed or not, a close leaves no session known to be bound.
LEMMA ClosedKnown ==
  ASSUME OutputOK, Strayed, stream \in Nat, Known \in {0, stream}, CloseStream
  PROVE  OutputOK' /\ Strayed' /\ Known' = 0
<1>1. CASE stream = 0 /\ UNCHANGED output
  BY <1>1 DEF output, OutputOK, Strayed, Known
<1>2. CASE Closed
  <2>1. /\ bound' = Without(stream) /\ late' = late \ Outstanding(stream)
        /\ astray' = astray \ {stream}
    BY <1>2 DEF Closed
  <2>2. OutputOK'
    BY <2>1 DEF OutputOK, Without
  <2>3. Strayed'
    BY <2>1 DEF Strayed, Outstanding
  <2>4. Known' = 0
    BY <2>1 DEF Known, Without
  <2> QED BY <2>2, <2>3, <2>4
<1>3. CASE Unconfirmed
  <2>1. PICK ops \in SUBSET {"stop", "close"} : Delayed(stream, ops)
    BY <1>3 DEF Unconfirmed
  <2>2. /\ Doubt(stream) /\ bound' \in {bound, Without(stream)}
        /\ late' = late \cup {[op |-> o, of |-> stream] : o \in ops}
    BY <1>3, <2>1 DEF Unconfirmed, Delayed
  <2>3. ops \in SUBSET {"play", "stop", "close"}
    OBVIOUS
  <2> QED BY <2>2, <2>3, Failed
<1> QED BY <1>1, <1>2, <1>3 DEF CloseStream

\* What the card carries out late is of a session that may be astray.
LEMMA LateKnown ==
  ASSUME OutputOK, Strayed, FwLate
  PROVE  OutputOK' /\ Strayed' /\ Known' \in {0, Known}
<1>1. PICK c \in late :
        /\ bound' = IF c.op = "play" THEN c.of ELSE Without(c.of)
        /\ late' = late \ (IF c.op = "close" THEN Outstanding(c.of) ELSE {c})
        /\ astray' = astray
  BY DEF FwLate
<1>2. c.of \in astray /\ c.of \in Nat /\ late' \subseteq late
  BY <1>1 DEF Strayed, OutputOK, Commands
<1>3. bound' \in {0, bound, c.of}
  BY <1>1 DEF Without
<1>4. OutputOK'
  BY <1>1, <1>2, <1>3 DEF OutputOK
<1>5. Strayed'
  BY <1>1, <1>2 DEF Strayed
<1>6. Known' \in {0, Known}
  BY <1>1, <1>2, <1>3 DEF Known
<1> QED BY <1>4, <1>5, <1>6

\* The step leaves the output alone.
LEMMA OutputSame ==
  ASSUME OutputOK, Strayed, UNCHANGED output
  PROVE  OutputOK' /\ Strayed' /\ Known' = Known
BY DEF output, OutputOK, Strayed, Known

\* Under io_lock the feeder, a Play or an end of stream may bind the session;
\* a Pause, a Stop and FreeDecoder unbind it.
LEMMA OutputMoves ==
  ASSUME PlayerInv, PlayerNext
  PROVE  /\ OutputOK' /\ Strayed' /\ Known' \in {0, Known, stream}
         /\ CloseStream \/ PauseUnbind => Known' = 0
<1>0. OutputOK /\ Strayed /\ stream \in Nat /\ Known \in {0, stream}
  BY DEF PlayerInv, PlayerTypeOK, CountsOK, Sessioned
<1>a. ASSUME CloseStream PROVE OutputOK' /\ Strayed' /\ Known' = 0
  BY <1>0, <1>a, ClosedKnown
<1>b. ASSUME PauseUnbind PROVE OutputOK' /\ Strayed' /\ Known' = 0
  <2>1. CASE stream = 0 /\ UNCHANGED output
    BY <1>0, <2>1, OutputSame
  <2>2. CASE Done(stream, Without(stream))
    BY <1>0, <2>2, Answered
  <2>3. CASE TimedOut(stream, "stop")
    BY <1>0, <2>3, TimedOutKnown
  <2>4. CASE Doubt(stream) /\ UNCHANGED <<bound, late>>
    BY <1>0, <2>4, Refused
  <2> QED BY <1>b, <2>1, <2>2, <2>3, <2>4 DEF PauseUnbind, Unbind
<1>c. ASSUME UNCHANGED output PROVE OutputOK' /\ Strayed' /\ Known' = Known
  BY <1>0, <1>c, OutputSame
<1>d. ASSUME Done(stream, stream) PROVE OutputOK' /\ Strayed' /\ Known' \in {0, Known, stream}
  BY <1>0, <1>d, Answered
<1>e. ASSUME TimedOut(stream, "play") PROVE OutputOK' /\ Strayed' /\ Known' \in {0, Known}
  BY <1>0, <1>e, TimedOutKnown
<1>1. CASE FeederTop
  BY <1>1, <1>a, <1>b, <1>c DEF FeederTop, cardState
<1>2. CASE Scan
  BY <1>2, <1>a, <1>b, <1>c DEF Scan, cardState
<1>3. CASE Feed
  BY <1>3, <1>a, <1>b, <1>c DEF Feed, cardState
<1>4. CASE Accepted
  BY <1>4, <1>a, <1>b, <1>c DEF Accepted, cardState
<1>5. CASE TryBind
  BY <1>5, <1>a, <1>b, <1>c DEF TryBind, cardState
<1>6. CASE DrainAnswered
  BY <1>6, <1>a, <1>b, <1>c DEF DrainAnswered, cardState
<1>7. CASE FeederPace
  BY <1>7, <1>a, <1>b, <1>c DEF FeederPace, cardState
<1>8. CASE FeederWake
  BY <1>8, <1>a, <1>b, <1>c DEF FeederWake, cardState
<1>9. CASE MHIGetEmpty
  BY <1>9, <1>a, <1>b, <1>c DEF MHIGetEmpty, cardState
<1>10. CASE MHIPlay
  BY <1>10, <1>a, <1>b, <1>c DEF MHIPlay, cardState
<1>11. CASE PlayOpen
  BY <1>11, <1>a, <1>b, <1>c DEF PlayOpen, cardState
<1>12. CASE PlayOpened
  BY <1>12, <1>a, <1>b, <1>c DEF PlayOpened, cardState
<1>13. CASE PlayRearm
  BY <1>13, <1>a, <1>b, <1>c DEF PlayRearm, cardState
<1>14. CASE PlayResume
  BY <1>14, <1>a, <1>b, <1>c DEF PlayResume, cardState
<1>15. CASE PlayRebound
  BY <1>15, <1>a, <1>b, <1>c DEF PlayRebound, cardState
<1>16. CASE MHIStop
  BY <1>16, <1>a, <1>b, <1>c DEF MHIStop, cardState
<1>17. CASE StopReturns
  BY <1>17, <1>a, <1>b, <1>c DEF StopReturns, cardState
<1>18. CASE MHIPause
  BY <1>18, <1>a, <1>b, <1>c DEF MHIPause, cardState
<1>19. CASE MHIFreeDecoder
  BY <1>19, <1>a, <1>b, <1>c DEF MHIFreeDecoder, cardState
<1>20. CASE FwDecode
  BY <1>20, <1>a, <1>b, <1>c DEF FwDecode, cardState
<1>21. CASE \E b \in Bufs : MHIQueueBuffer(b)
  BY <1>21, <1>a, <1>b, <1>c DEF MHIQueueBuffer, cardState
<1>22. CASE Bind
  BY <1>22, <1>a, <1>b, <1>c, <1>d, <1>e DEF Bind
<1>23. CASE DrainProbe
  BY <1>23, <1>a, <1>b, <1>c, <1>d, <1>e DEF DrainProbe
<1>24. CASE EndOfStream
  BY <1>24, <1>a, <1>b, <1>c, <1>d, <1>e DEF EndOfStream
<1>25. CASE PlayRebind
  BY <1>25, <1>a, <1>b, <1>c, <1>d, <1>e DEF PlayRebind
<1>26. CASE DrainFailed
  <2>1. UNCHANGED output \/ (Doubt(stream) /\ UNCHANGED <<bound, late>>)
    BY <1>26 DEF DrainFailed, output
  <2>2. ASSUME Doubt(stream), UNCHANGED <<bound, late>>
        PROVE  OutputOK' /\ Strayed' /\ Known' \in {0, Known}
    BY <1>0, <2>2, Refused
  <2> QED BY <2>1, <2>2, <1>a, <1>b, <1>c
<1>27. CASE PlayPublish
  BY <1>27, <1>a, <1>b, <1>c DEF PlayPublish
<1>28. CASE StopClose
  BY <1>28, <1>a, <1>b DEF StopClose
<1>29. CASE PauseUnbind
  BY <1>29, <1>a, <1>b
<1>30. CASE FreeDecoderClose
  BY <1>30, <1>a, <1>b DEF FreeDecoderClose
<1>31. CASE FwLate
  BY <1>31, <1>a, <1>b, <1>0, LateKnown
<1> QED BY <1>1, <1>2, <1>3, <1>4, <1>5, <1>6, <1>7, <1>8, <1>9, <1>10, <1>11, <1>12, <1>13,
       <1>14, <1>15, <1>16, <1>17, <1>18, <1>19, <1>20, <1>21, <1>22, <1>23, <1>24, <1>25,
       <1>26, <1>27, <1>28, <1>29, <1>30, <1>31 DEF PlayerNext

\* A PLAY that is not answered with success binds nothing the player knows of.
LEMMA RebindKnown ==
  ASSUME PlayerInv, PlayRebind
  PROVE  Known' \in {0, Known} \/ To("player", "rebound")
<1>0. OutputOK /\ Strayed /\ stream \in Nat
  BY DEF PlayerInv, PlayerTypeOK, CountsOK
<1>1. CASE TimedOut(stream, "play")
  BY <1>0, <1>1, TimedOutKnown
<1>2. CASE UNCHANGED output
  BY <1>0, <1>2, OutputSame
<1> QED BY <1>1, <1>2 DEF PlayRebind

\* A player stopped by the feeder leaves no session known to be bound.
LEMMA ProbeKnown ==
  ASSUME PlayerInv, DrainFailed
  PROVE  Known' = 0 \/ (Known' = Known /\ status' = status)
<1>0. OutputOK /\ Strayed /\ stream \in Nat /\ Known \in {0, stream}
  BY DEF PlayerInv, PlayerTypeOK, CountsOK, Sessioned
<1>1. CASE Doubt(stream) /\ UNCHANGED <<bound, late>>
  BY <1>0, <1>1, Refused
<1>2. CASE UNCHANGED <<status, bound, late, astray>>
  BY <1>0, <1>2, OutputSame DEF output
<1> QED BY <1>1, <1>2 DEF DrainFailed

-----------------------------------------------------------------------------
(* What happens to the queue.                                              *)

\* Marking what was consumed changes no more than Played, and that only of
\* buffers that were handed over and, unless a drain is over, are behind the
\* cursor.
LEMMA CompleteMarks ==
  ASSUME NEW q \in Seq(Nodes), NEW upTo \in Nat, NEW all \in BOOLEAN
  PROVE  /\ Complete(q, upTo, all) \in Seq(Nodes)
         /\ DOMAIN Complete(q, upTo, all) = DOMAIN q
         /\ \A i \in DOMAIN q :
              LET r == Complete(q, upTo, all)[i]
              IN  /\ r.buf = q[i].buf /\ r.handed = q[i].handed /\ r.end = q[i].end
                  /\ r.played /\ ~q[i].played => q[i].handed /\ (all \/ q[i].end <= upTo)
                  /\ q[i].played => r = q[i]
<1> DEFINE c == Complete(q, upTo, all)
           past(i) == q[i].played \/ \A j \in 1..i :
                        q[j].played \/ (q[j].handed /\ (all \/ q[j].end <= upTo))
<1>1. /\ Len(q) \in Nat /\ DOMAIN q = 1..Len(q) /\ \A i \in DOMAIN q : q[i] \in Nodes
  OBVIOUS
<1>2. c = [i \in 1..Len(q) |-> [q[i] EXCEPT !.played = past(i)]]
  BY <1>1 DEF Complete
<1>3. ASSUME NEW i \in 1..Len(q)
      PROVE  /\ c[i] = [q[i] EXCEPT !.played = past(i)] /\ past(i) \in BOOLEAN
             /\ past(i) /\ ~q[i].played => q[i].handed /\ (all \/ q[i].end <= upTo)
             /\ q[i].played => past(i)
  BY <1>1, <1>2
<1> HIDE DEF c, past
<1>4. ASSUME NEW i \in 1..Len(q)
      PROVE  /\ c[i] \in Nodes /\ c[i].buf = q[i].buf /\ c[i].handed = q[i].handed
             /\ c[i].end = q[i].end /\ c[i].played = past(i)
             /\ q[i].played => c[i] = q[i]
  <2>1. q[i] \in Nodes /\ past(i) \in BOOLEAN /\ c[i] = [q[i] EXCEPT !.played = past(i)]
    BY <1>1, <1>3
  <2>2. c[i] = [buf |-> q[i].buf, handed |-> q[i].handed, end |-> q[i].end, played |-> past(i)]
    BY <2>1 DEF Nodes
  <2>3. /\ c[i].buf = q[i].buf /\ c[i].handed = q[i].handed
        /\ c[i].end = q[i].end /\ c[i].played = past(i)
    BY <2>2
  <2>4. c[i] \in Nodes
    BY <2>1, <2>2 DEF Nodes
  <2>5. ASSUME q[i].played PROVE c[i] = q[i]
    <3>1. past(i) = q[i].played BY <2>1, <2>5, <1>3 DEF Nodes
    <3> QED BY <2>1, <2>2, <3>1 DEF Nodes
  <2> QED BY <2>3, <2>4, <2>5
<1>5. c \in Seq(Nodes) /\ DOMAIN c = 1..Len(q)
  BY <1>1, <1>2, <1>4
<1> QED BY <1>1, <1>3, <1>4, <1>5 DEF c

-----------------------------------------------------------------------------
(* Types.                                                                  *)

\* Flags stay Boolean.
LEMMA FlagsOKKept == ASSUME FlagsOK, PlayerNext PROVE FlagsOK'
<1>1. CASE FeederTop
  BY <1>1 DEF FeederTop, transportState, list, streamState, cardState, output, app, FlagsOK
<1>2. CASE Scan
  BY <1>2 DEF Scan, transportState, streamState, cardState, output, app, FlagsOK
<1>3. CASE Feed
  BY <1>3 DEF Feed, transportState, feeder, app, FlagsOK
<1>4. CASE Accepted
  BY <1>4 DEF Accepted, transportState, cardState, output, app, FlagsOK
<1>5. CASE TryBind
  BY <1>5 DEF TryBind, transportState, list, streamState, feeder, cardState, output, app, FlagsOK
<1>6. CASE Bind
  BY <1>6 DEF Bind, list, streamState, feeder, app, FlagsOK
<1>7. CASE DrainProbe
  BY <1>7 DEF DrainProbe, transportState, list, feeder, app, FlagsOK
<1>8. CASE DrainFailed
  BY <1>8 DEF DrainFailed, list, streamState, app, FlagsOK
<1>9. CASE DrainAnswered
  BY <1>9 DEF DrainAnswered, cardState, output, app, FlagsOK
<1>10. CASE FeederPace
  BY <1>10 DEF FeederPace, transportState, list, streamState, cardState, output, app, FlagsOK
<1>11. CASE FeederWake
  BY <1>11 DEF FeederWake, transportState, list, streamState, feeder, cardState, output, app,
     FlagsOK
<1>12. ASSUME NEW b \in Bufs, MHIQueueBuffer(b) PROVE FlagsOK'
  BY <1>12 DEF MHIQueueBuffer, QueueWake, feeder, cardState, output, FlagsOK
<1>13. CASE MHIGetEmpty
  BY <1>13 DEF MHIGetEmpty, transportState, streamState, feeder, cardState, output, FlagsOK
<1>14. CASE EndOfStream
  BY <1>14 DEF EndOfStream, feeder, cardState, output, app, FlagsOK
<1>15. CASE MHIPlay
  BY <1>15 DEF MHIPlay, transportState, list, streamState, feeder, cardState, output, app, FlagsOK
<1>16. CASE PlayOpen
  BY <1>16 DEF PlayOpen, list, streamState, feeder, cardState, output, app, FlagsOK
<1>17. CASE PlayOpened
  BY <1>17 DEF PlayOpened, transportState, list, streamState, feeder, cardState, output, app,
     FlagsOK
<1>18. CASE PlayPublish
  BY <1>18 DEF PlayPublish, CloseStream, Closed, Unconfirmed, list, streamState, feeder, app,
     FlagsOK
<1>19. CASE PlayRearm
  BY <1>19 DEF PlayRearm, list, streamState, feeder, cardState, output, app, FlagsOK
<1>20. CASE PlayResume
  BY <1>20 DEF PlayResume, transportState, list, streamState, feeder, cardState, output, app,
     FlagsOK
<1>21. CASE PlayRebind
  BY <1>21 DEF PlayRebind, transportState, list, streamState, feeder, app, FlagsOK
<1>22. CASE PlayRebound
  BY <1>22 DEF PlayRebound, list, streamState, feeder, cardState, output, app, FlagsOK
<1>23. CASE MHIStop
  BY <1>23 DEF MHIStop, DrainList, feeder, cardState, output, FlagsOK
<1>24. CASE StopClose
  BY <1>24 DEF StopClose, CloseStream, Closed, Unconfirmed, list, feeder, app, FlagsOK
<1>25. CASE StopReturns
  BY <1>25 DEF StopReturns, transportState, list, streamState, feeder, cardState, output, FlagsOK
<1>26. CASE MHIPause
  BY <1>26 DEF MHIPause, list, streamState, feeder, cardState, output, app, FlagsOK
<1>27. CASE PauseUnbind
  BY <1>27 DEF PauseUnbind, Unbind, transportState, list, streamState, feeder, app, FlagsOK
<1>28. CASE MHIFreeDecoder
  BY <1>28 DEF MHIFreeDecoder, DrainList, streamState, cardState, output, FlagsOK
<1>29. CASE FreeDecoderClose
  BY <1>29 DEF FreeDecoderClose, CloseStream, Closed, Unconfirmed, list, feeder, FlagsOK
<1>30. CASE FwDecode
  BY <1>30 DEF FwDecode, transportState, list, streamState, feeder, app, FlagsOK
<1>31. CASE FwLate
  BY <1>31 DEF FwLate, transportState, list, streamState, feeder, app, FlagsOK
<1> QED BY <1>1, <1>2, <1>3, <1>4, <1>5, <1>6, <1>7, <1>8, <1>9, <1>10, <1>11, <1>12, <1>13,
       <1>14, <1>15, <1>16, <1>17, <1>18, <1>19, <1>20, <1>21, <1>22, <1>23, <1>24, <1>25, <1>26,
       <1>27, <1>28, <1>29, <1>30, <1>31 DEF PlayerNext

\* Counters stay natural numbers.
LEMMA CountsOKKept == ASSUME CountsOK, PlayerNext PROVE CountsOK'
<1>1. CASE FeederTop
  BY <1>1 DEF FeederTop, transportState, list, streamState, cardState, output, app, CountsOK
<1>2. CASE Scan
  BY <1>2 DEF Scan, transportState, streamState, cardState, output, app, CountsOK
<1>3. CASE Feed
  <2>1. /\ taken' \in {taken, taken + 1}
        /\ UNCHANGED <<stream, tgen, lgen, polls, fed, playGen, eaten, sessions>>
    BY <1>3 DEF Feed, transportState, feeder, app
  <2> QED BY <2>1 DEF CountsOK
<1>4. CASE Accepted
  <2>1. /\ polls' \in {0, polls} /\ fed' \in {fed, fed + 1}
        /\ UNCHANGED <<stream, tgen, lgen, playGen, taken, eaten, sessions>>
    BY <1>4 DEF Accepted, transportState, cardState, output, app
  <2> QED BY <2>1 DEF CountsOK
<1>5. CASE TryBind
  BY <1>5 DEF TryBind, transportState, list, streamState, feeder, cardState, output, app, CountsOK
<1>6. CASE Bind
  BY <1>6 DEF Bind, list, streamState, feeder, app, CountsOK
<1>7. CASE DrainProbe
  BY <1>7 DEF DrainProbe, transportState, list, feeder, app, CountsOK
<1>8. CASE DrainFailed
  BY <1>8 DEF DrainFailed, list, streamState, app, CountsOK
<1>9. CASE DrainAnswered
  BY <1>9 DEF DrainAnswered, cardState, output, app, CountsOK
<1>10. CASE FeederPace
  BY <1>10 DEF FeederPace, transportState, list, streamState, cardState, output, app, CountsOK
<1>11. CASE FeederWake
  BY <1>11 DEF FeederWake, transportState, list, streamState, feeder, cardState, output, app,
     CountsOK
<1>12. ASSUME NEW b \in Bufs, MHIQueueBuffer(b) PROVE CountsOK'
  BY <1>12 DEF MHIQueueBuffer, QueueWake, feeder, cardState, output, CountsOK
<1>13. CASE MHIGetEmpty
  BY <1>13 DEF MHIGetEmpty, transportState, streamState, feeder, cardState, output, CountsOK
<1>14. CASE EndOfStream
  BY <1>14 DEF EndOfStream, feeder, cardState, output, app, CountsOK
<1>15. CASE MHIPlay
  BY <1>15 DEF MHIPlay, transportState, list, streamState, feeder, cardState, output, app, CountsOK
<1>16. CASE PlayOpen
  BY <1>16 DEF PlayOpen, list, streamState, feeder, cardState, output, app, CountsOK
<1>17. CASE PlayOpened
  BY <1>17 DEF PlayOpened, transportState, list, streamState, feeder, cardState, output, app,
     CountsOK
<1>18. CASE PlayPublish
  <2>1. /\ stream' \in {0, stream} /\ polls' \in {0, polls} /\ fed' \in {0, fed}
        /\ UNCHANGED <<tgen, lgen, playGen, taken, eaten, sessions>>
    BY <1>18 DEF PlayPublish, CloseStream, list, streamState, feeder, app
  <2> QED BY <2>1 DEF CountsOK
<1>19. CASE PlayRearm
  BY <1>19 DEF PlayRearm, list, streamState, feeder, cardState, output, app, CountsOK
<1>20. CASE PlayResume
  BY <1>20 DEF PlayResume, transportState, list, streamState, feeder, cardState, output, app,
     CountsOK
<1>21. CASE PlayRebind
  BY <1>21 DEF PlayRebind, transportState, list, streamState, feeder, app, CountsOK
<1>22. CASE PlayRebound
  BY <1>22 DEF PlayRebound, list, streamState, feeder, cardState, output, app, CountsOK
<1>23. CASE MHIStop
  BY <1>23 DEF MHIStop, DrainList, feeder, cardState, output, CountsOK
<1>24. CASE StopClose
  BY <1>24 DEF StopClose, CloseStream, list, feeder, app, CountsOK
<1>25. CASE StopReturns
  BY <1>25 DEF StopReturns, transportState, list, streamState, feeder, cardState, output, CountsOK
<1>26. CASE MHIPause
  BY <1>26 DEF MHIPause, list, streamState, feeder, cardState, output, app, CountsOK
<1>27. CASE PauseUnbind
  BY <1>27 DEF PauseUnbind, Unbind, transportState, list, streamState, feeder, app, CountsOK
<1>28. CASE MHIFreeDecoder
  BY <1>28 DEF MHIFreeDecoder, DrainList, streamState, cardState, output, CountsOK
<1>29. CASE FreeDecoderClose
  BY <1>29 DEF FreeDecoderClose, CloseStream, list, feeder, CountsOK
<1>30. CASE FwDecode
  BY <1>30 DEF FwDecode, transportState, list, streamState, feeder, app, CountsOK
<1>31. CASE FwLate
  BY <1>31 DEF FwLate, transportState, list, streamState, feeder, app, CountsOK
<1> QED BY <1>1, <1>2, <1>3, <1>4, <1>5, <1>6, <1>7, <1>8, <1>9, <1>10, <1>11, <1>12, <1>13,
       <1>14, <1>15, <1>16, <1>17, <1>18, <1>19, <1>20, <1>21, <1>22, <1>23, <1>24, <1>25, <1>26,
       <1>27, <1>28, <1>29, <1>30, <1>31 DEF PlayerNext

\* A move of one task leaves the others where they are.
LEMMA Moves ==
  ASSUME PlacesOK, NEW t \in PlayerTasks, NEW p \in Anywhere, To(t, p)
  PROVE  /\ place' \in [PlayerTasks -> Anywhere] /\ place'[t] = p
         /\ \A u \in PlayerTasks : u # t => place'[u] = place[u]
BY DEF PlacesOK, To

\* The tasks.
LEMMA TaskNames ==
  /\ "feeder" \in PlayerTasks /\ "player" \in PlayerTasks /\ "control" \in PlayerTasks
  /\ \A t \in PlayerTasks : t \in {"feeder", "player", "control"}
BY DEF PlayerTasks
\* A move of the feeder.
LEMMA FeederMoves ==
  ASSUME PlacesOK, NEW p \in Anywhere, To("feeder", p)
  PROVE  /\ place' \in [PlayerTasks -> Anywhere] /\ place'["feeder"] = p
         /\ place'["player"] = place["player"] /\ place'["control"] = place["control"]
BY Moves, TaskNames

\* A move of the task that plays.
LEMMA PlayerMoves ==
  ASSUME PlacesOK, NEW p \in Anywhere, To("player", p)
  PROVE  /\ place' \in [PlayerTasks -> Anywhere] /\ place'["player"] = p
         /\ place'["feeder"] = place["feeder"] /\ place'["control"] = place["control"]
BY Moves, TaskNames

\* A move of the task that stops and pauses.
LEMMA ControlMoves ==
  ASSUME PlacesOK, NEW p \in Anywhere, To("control", p)
  PROVE  /\ place' \in [PlayerTasks -> Anywhere] /\ place'["control"] = p
         /\ place'["feeder"] = place["feeder"] /\ place'["player"] = place["player"]
BY Moves, TaskNames

\* The places after a move of the feeder.
LEMMA FeederStep ==
  ASSUME PlacesOK, \E p \in FeederPlaces : To("feeder", p),
         status' \in {"STOPPED", "PLAYING", "PAUSED", "OUT_OF_DATA"},
         ioLock' \in {"free", "feeder", "player"}
  PROVE  PlacesOK'
<1>1. PICK p \in FeederPlaces : To("feeder", p) OBVIOUS
<1>2. p \in Anywhere BY DEF Anywhere
<1> QED BY <1>1, <1>2, FeederMoves DEF PlacesOK

\* The places after a move of the task that plays.
LEMMA PlayerStep ==
  ASSUME PlacesOK, \E p \in PlayerPlaces : To("player", p),
         status' \in {"STOPPED", "PLAYING", "PAUSED", "OUT_OF_DATA"},
         ioLock' \in {"free", "feeder", "player"}
  PROVE  PlacesOK'
<1>1. PICK p \in PlayerPlaces : To("player", p) OBVIOUS
<1>2. p \in Anywhere BY DEF Anywhere
<1> QED BY <1>1, <1>2, PlayerMoves DEF PlacesOK

\* The places after a move of the task that stops and pauses.
LEMMA ControlStep ==
  ASSUME PlacesOK, \E p \in ControlPlaces : To("control", p),
         status' \in {"STOPPED", "PLAYING", "PAUSED", "OUT_OF_DATA"},
         ioLock' \in {"free", "feeder", "player"}
  PROVE  PlacesOK'
<1>1. PICK p \in ControlPlaces : To("control", p) OBVIOUS
<1>2. p \in Anywhere BY DEF Anywhere
<1> QED BY <1>1, <1>2, ControlMoves DEF PlacesOK

\* Where a step takes the tasks.
LEMMA PlacesOKKept == ASSUME PlacesOK, PlayerNext PROVE PlacesOK'
<1>1. CASE FeederTop
  <2>1. \E p \in {"scan", "pace"} : To("feeder", p)
    BY <1>1 DEF FeederTop
  <2>2. /\ status' \in {"STOPPED", "PLAYING", "PAUSED", "OUT_OF_DATA"}
        /\ ioLock' \in {"free", "feeder", "player"}
    BY <1>1 DEF FeederTop, Lock, transportState, list, streamState, cardState, output, app, PlacesOK
  <2> QED BY <2>1, <2>2, FeederStep DEF FeederPlaces, FeederLocked
<1>2. CASE Scan
  <2>1. \E p \in {"bind", "copy"} : To("feeder", p)
    BY <1>2 DEF Scan
  <2>2. /\ status' \in {"STOPPED", "PLAYING", "PAUSED", "OUT_OF_DATA"}
        /\ ioLock' \in {"free", "feeder", "player"}
    BY <1>2 DEF Scan, transportState, streamState, cardState, output, app, PlacesOK
  <2> QED BY <2>1, <2>2, FeederStep DEF FeederPlaces, FeederLocked
<1>3. CASE Feed
  <2>1. \E p \in {"accepted", "bind"} : To("feeder", p)
    BY <1>3 DEF Feed
  <2>2. /\ status' \in {"STOPPED", "PLAYING", "PAUSED", "OUT_OF_DATA"}
        /\ ioLock' \in {"free", "feeder", "player"}
    BY <1>3 DEF Feed, transportState, feeder, app, PlacesOK
  <2> QED BY <2>1, <2>2, FeederStep DEF FeederPlaces, FeederLocked
<1>4. CASE Accepted
  <2>1. \E p \in {"scan", "bind"} : To("feeder", p)
    BY <1>4 DEF Accepted
  <2>2. /\ status' \in {"STOPPED", "PLAYING", "PAUSED", "OUT_OF_DATA"}
        /\ ioLock' \in {"free", "feeder", "player"}
    BY <1>4 DEF Accepted, transportState, cardState, output, app, PlacesOK
  <2> QED BY <2>1, <2>2, FeederStep DEF FeederPlaces, FeederLocked
<1>5. CASE TryBind
  <2>1. \E p \in {"binding", "drain"} : To("feeder", p)
    BY <1>5 DEF TryBind
  <2>2. /\ status' \in {"STOPPED", "PLAYING", "PAUSED", "OUT_OF_DATA"}
        /\ ioLock' \in {"free", "feeder", "player"}
    BY <1>5 DEF TryBind, transportState, list, streamState, feeder, cardState, output, app, PlacesOK
  <2> QED BY <2>1, <2>2, FeederStep DEF FeederPlaces, FeederLocked
<1>6. CASE Bind
  <2>1. \E p \in {"drain"} : To("feeder", p)
    BY <1>6 DEF Bind
  <2>2. /\ status' \in {"STOPPED", "PLAYING", "PAUSED", "OUT_OF_DATA"}
        /\ ioLock' \in {"free", "feeder", "player"}
    BY <1>6 DEF Bind, list, streamState, feeder, app, PlacesOK
  <2> QED BY <2>1, <2>2, FeederStep DEF FeederPlaces, FeederLocked
<1>7. CASE DrainProbe
  <2>1. \E p \in {"probed", "pace"} : To("feeder", p)
    BY <1>7 DEF DrainProbe
  <2>2. /\ status' \in {"STOPPED", "PLAYING", "PAUSED", "OUT_OF_DATA"}
        /\ ioLock' \in {"free", "feeder", "player"}
    BY <1>7 DEF DrainProbe, transportState, list, feeder, app, PlacesOK
  <2> QED BY <2>1, <2>2, FeederStep DEF FeederPlaces, FeederLocked
<1>8. CASE DrainFailed
  <2>1. \E p \in {"pace"} : To("feeder", p)
    BY <1>8 DEF DrainFailed
  <2>2. /\ status' \in {"STOPPED", "PLAYING", "PAUSED", "OUT_OF_DATA"}
        /\ ioLock' \in {"free", "feeder", "player"}
    BY <1>8 DEF DrainFailed, list, streamState, app, PlacesOK
  <2> QED BY <2>1, <2>2, FeederStep DEF FeederPlaces, FeederLocked
<1>9. CASE DrainAnswered
  <2>1. \E p \in {"pace"} : To("feeder", p)
    BY <1>9 DEF DrainAnswered
  <2>2. /\ status' \in {"STOPPED", "PLAYING", "PAUSED", "OUT_OF_DATA"}
        /\ ioLock' \in {"free", "feeder", "player"}
    BY <1>9 DEF DrainAnswered, cardState, output, app, PlacesOK
  <2> QED BY <2>1, <2>2, FeederStep DEF FeederPlaces, FeederLocked
<1>10. CASE FeederPace
  <2>1. \E p \in {"gone", "timed", "idle"} : To("feeder", p)
    BY <1>10 DEF FeederPace
  <2>2. /\ status' \in {"STOPPED", "PLAYING", "PAUSED", "OUT_OF_DATA"}
        /\ ioLock' \in {"free", "feeder", "player"}
    BY <1>10 DEF FeederPace, Unlock, transportState, list, streamState, cardState, output, app,
       PlacesOK
  <2> QED BY <2>1, <2>2, FeederStep DEF FeederPlaces, FeederLocked
<1>11. CASE FeederWake
  <2>1. \E p \in {"top"} : To("feeder", p)
    BY <1>11 DEF FeederWake
  <2>2. /\ status' \in {"STOPPED", "PLAYING", "PAUSED", "OUT_OF_DATA"}
        /\ ioLock' \in {"free", "feeder", "player"}
    BY <1>11 DEF FeederWake, transportState, list, streamState, feeder, cardState, output, app,
       PlacesOK
  <2> QED BY <2>1, <2>2, FeederStep DEF FeederPlaces, FeederLocked
<1>12. ASSUME NEW b \in Bufs, MHIQueueBuffer(b) PROVE PlacesOK'
  BY <1>12 DEF MHIQueueBuffer, QueueWake, feeder, cardState, output, PlacesOK
<1>13. CASE MHIGetEmpty
  BY <1>13 DEF MHIGetEmpty, transportState, streamState, feeder, cardState, output, PlacesOK
<1>14. CASE EndOfStream
  BY <1>14 DEF EndOfStream, feeder, cardState, output, app, PlacesOK
<1>15. CASE MHIPlay
  <2>1. \E p \in {"open", "rearm", "resume"} : To("player", p)
    BY <1>15 DEF MHIPlay
  <2>2. /\ status' \in {"STOPPED", "PLAYING", "PAUSED", "OUT_OF_DATA"}
        /\ ioLock' \in {"free", "feeder", "player"}
    BY <1>15 DEF MHIPlay, transportState, list, streamState, feeder, cardState, output, app,
       PlacesOK
  <2> QED BY <2>1, <2>2, PlayerStep DEF PlayerPlaces, PlayerLocked
<1>16. CASE PlayOpen
  <2>1. \E p \in {"opening"} : To("player", p)
    BY <1>16 DEF PlayOpen
  <2>2. /\ status' \in {"STOPPED", "PLAYING", "PAUSED", "OUT_OF_DATA"}
        /\ ioLock' \in {"free", "feeder", "player"}
    BY <1>16 DEF PlayOpen, Lock, list, streamState, feeder, cardState, output, app, PlacesOK
  <2> QED BY <2>1, <2>2, PlayerStep DEF PlayerPlaces, PlayerLocked
<1>17. CASE PlayOpened
  <2>1. \E p \in {"publish", "idle"} : To("player", p)
    BY <1>17 DEF PlayOpened
  <2>2. /\ status' \in {"STOPPED", "PLAYING", "PAUSED", "OUT_OF_DATA"}
        /\ ioLock' \in {"free", "feeder", "player"}
    BY <1>17 DEF PlayOpened, Unlock, transportState, list, streamState, feeder, cardState, output,
       app, PlacesOK
  <2> QED BY <2>1, <2>2, PlayerStep DEF PlayerPlaces, PlayerLocked
<1>18. CASE PlayPublish
  <2>1. \E p \in {"idle"} : To("player", p)
    BY <1>18 DEF PlayPublish
  <2>2. /\ status' \in {"STOPPED", "PLAYING", "PAUSED", "OUT_OF_DATA"}
        /\ ioLock' \in {"free", "feeder", "player"}
    BY <1>18 DEF PlayPublish, Unlock, CloseStream, list, streamState, feeder, app, PlacesOK
  <2> QED BY <2>1, <2>2, PlayerStep DEF PlayerPlaces, PlayerLocked
<1>19. CASE PlayRearm
  <2>1. \E p \in {"idle"} : To("player", p)
    BY <1>19 DEF PlayRearm
  <2>2. /\ status' \in {"STOPPED", "PLAYING", "PAUSED", "OUT_OF_DATA"}
        /\ ioLock' \in {"free", "feeder", "player"}
    BY <1>19 DEF PlayRearm, list, streamState, feeder, cardState, output, app, PlacesOK
  <2> QED BY <2>1, <2>2, PlayerStep DEF PlayerPlaces, PlayerLocked
<1>20. CASE PlayResume
  <2>1. \E p \in {"rebind", "give up"} : To("player", p)
    BY <1>20 DEF PlayResume
  <2>2. /\ status' \in {"STOPPED", "PLAYING", "PAUSED", "OUT_OF_DATA"}
        /\ ioLock' \in {"free", "feeder", "player"}
    BY <1>20 DEF PlayResume, Lock, transportState, list, streamState, feeder, cardState, output,
       app, PlacesOK
  <2> QED BY <2>1, <2>2, PlayerStep DEF PlayerPlaces, PlayerLocked
<1>21. CASE PlayRebind
  <2>1. \E p \in {"rebound", "give up"} : To("player", p)
    BY <1>21 DEF PlayRebind
  <2>2. /\ status' \in {"STOPPED", "PLAYING", "PAUSED", "OUT_OF_DATA"}
        /\ ioLock' \in {"free", "feeder", "player"}
    BY <1>21 DEF PlayRebind, transportState, list, streamState, feeder, app, PlacesOK
  <2> QED BY <2>1, <2>2, PlayerStep DEF PlayerPlaces, PlayerLocked
<1>22. CASE PlayRebound
  <2>1. \E p \in {"idle"} : To("player", p)
    BY <1>22 DEF PlayRebound
  <2>2. /\ status' \in {"STOPPED", "PLAYING", "PAUSED", "OUT_OF_DATA"}
        /\ ioLock' \in {"free", "feeder", "player"}
    BY <1>22 DEF PlayRebound, Unlock, list, streamState, feeder, cardState, output, app, PlacesOK
  <2> QED BY <2>1, <2>2, PlayerStep DEF PlayerPlaces, PlayerLocked
<1>23. CASE MHIStop
  <2>1. \E p \in {"close", "return"} : To("control", p)
    BY <1>23 DEF MHIStop
  <2>2. /\ status' \in {"STOPPED", "PLAYING", "PAUSED", "OUT_OF_DATA"}
        /\ ioLock' \in {"free", "feeder", "player"}
    BY <1>23 DEF MHIStop, DrainList, feeder, cardState, output, PlacesOK
  <2> QED BY <2>1, <2>2, ControlStep DEF ControlPlaces
<1>24. CASE StopClose
  <2>1. \E p \in {"return"} : To("control", p)
    BY <1>24 DEF StopClose
  <2>2. /\ status' \in {"STOPPED", "PLAYING", "PAUSED", "OUT_OF_DATA"}
        /\ ioLock' \in {"free", "feeder", "player"}
    BY <1>24 DEF StopClose, CloseStream, list, feeder, app, PlacesOK
  <2> QED BY <2>1, <2>2, ControlStep DEF ControlPlaces
<1>25. CASE StopReturns
  <2>1. \E p \in {"idle"} : To("control", p)
    BY <1>25 DEF StopReturns
  <2>2. /\ status' \in {"STOPPED", "PLAYING", "PAUSED", "OUT_OF_DATA"}
        /\ ioLock' \in {"free", "feeder", "player"}
    BY <1>25 DEF StopReturns, transportState, list, streamState, feeder, cardState, output, PlacesOK
  <2> QED BY <2>1, <2>2, ControlStep DEF ControlPlaces
<1>26. CASE MHIPause
  <2>1. (\E p \in {"unbind", "idle"} : To("control", p)) \/ place' = place
    BY <1>26 DEF MHIPause
  <2>2. /\ status' \in {"STOPPED", "PLAYING", "PAUSED", "OUT_OF_DATA"}
        /\ ioLock' \in {"free", "feeder", "player"}
    BY <1>26 DEF MHIPause, list, streamState, feeder, cardState, output, app, PlacesOK
  <2>3. CASE place' = place BY <2>2, <2>3 DEF PlacesOK
  <2> QED BY <2>1, <2>2, <2>3, ControlStep DEF ControlPlaces
<1>27. CASE PauseUnbind
  <2>1. \E p \in {"idle"} : To("control", p)
    BY <1>27 DEF PauseUnbind
  <2>2. /\ status' \in {"STOPPED", "PLAYING", "PAUSED", "OUT_OF_DATA"}
        /\ ioLock' \in {"free", "feeder", "player"}
    BY <1>27 DEF PauseUnbind, Unbind, transportState, list, streamState, feeder, app, PlacesOK
  <2> QED BY <2>1, <2>2, ControlStep DEF ControlPlaces
<1>28. CASE MHIFreeDecoder
  <2>1. \E p \in {"retire"} : To("control", p)
    BY <1>28 DEF MHIFreeDecoder
  <2>2. /\ status' \in {"STOPPED", "PLAYING", "PAUSED", "OUT_OF_DATA"}
        /\ ioLock' \in {"free", "feeder", "player"}
    BY <1>28 DEF MHIFreeDecoder, DrainList, streamState, cardState, output, PlacesOK
  <2> QED BY <2>1, <2>2, ControlStep DEF ControlPlaces
<1>29. CASE FreeDecoderClose
  <2>1. \E p \in {"freed"} : To("control", p)
    BY <1>29 DEF FreeDecoderClose
  <2>2. /\ status' \in {"STOPPED", "PLAYING", "PAUSED", "OUT_OF_DATA"}
        /\ ioLock' \in {"free", "feeder", "player"}
    BY <1>29 DEF FreeDecoderClose, CloseStream, list, feeder, PlacesOK
  <2> QED BY <2>1, <2>2, ControlStep DEF ControlPlaces
<1>30. CASE FwDecode
  BY <1>30 DEF FwDecode, transportState, list, streamState, feeder, app, PlacesOK
<1>31. CASE FwLate
  BY <1>31 DEF FwLate, transportState, list, streamState, feeder, app, PlacesOK
<1> QED BY <1>1, <1>2, <1>3, <1>4, <1>5, <1>6, <1>7, <1>8, <1>9, <1>10, <1>11, <1>12, <1>13,
       <1>14, <1>15, <1>16, <1>17, <1>18, <1>19, <1>20, <1>21, <1>22, <1>23, <1>24, <1>25, <1>26,
       <1>27, <1>28, <1>29, <1>30, <1>31 DEF PlayerNext
\* A drained queue is empty, and its buffers wait to be given back.
LEMMA DrainedBufs ==
  ASSUME BufsOK, DrainList
  PROVE  /\ queue' \in Seq(Nodes) /\ dropped' \subseteq Bufs
         /\ queue' = << >> /\ \A i \in DOMAIN queue : queue[i].buf \in dropped'
<1>1. \A i \in DOMAIN queue : queue[i] \in Nodes
  BY DEF BufsOK
<1>2. \A i \in DOMAIN queue : queue[i].buf \in Bufs
  BY <1>1 DEF Nodes
<1>3. queue' = << >> /\ dropped' = {queue[i].buf : i \in DOMAIN queue}
  BY DEF DrainList
<1> QED BY <1>2, <1>3

\* Handing the chunk over changes no other node.
LEMMA HandOverMarks ==
  ASSUME BufsOK, NEW end \in Nat
  PROVE  /\ HandOver(end) \in Seq(Nodes) /\ DOMAIN HandOver(end) = DOMAIN queue
         /\ \A i \in DOMAIN queue :
              LET r == HandOver(end)[i]
              IN  /\ r.buf = queue[i].buf /\ r.played = queue[i].played
                  /\ queue[i].handed => r = queue[i]
                  /\ r # queue[i] => r.handed /\ r.end = end
                  /\ ~r.handed <=> ~queue[i].handed /\ queue[i].buf # snap.buf
<1>1. /\ Len(queue) \in Nat /\ DOMAIN queue = 1..Len(queue)
      /\ \A i \in DOMAIN queue : queue[i] \in Nodes
  BY DEF BufsOK
<1> DEFINE h == HandOver(end)
<1>2. /\ DOMAIN h = 1..Len(queue)
      /\ h = [i \in 1..Len(queue) |-> h[i]]
  BY <1>1 DEF HandOver
<1>3. ASSUME NEW i \in 1..Len(queue)
      PROVE  h[i] = IF queue[i].buf = snap.buf /\ ~queue[i].handed
                    THEN [queue[i] EXCEPT !.handed = TRUE, !.end = end] ELSE queue[i]
  BY <1>1 DEF HandOver
<1> HIDE DEF h
<1>4. ASSUME NEW i \in 1..Len(queue), queue[i].buf = snap.buf, ~queue[i].handed
      PROVE  h[i] \in Nodes /\ h[i].buf = queue[i].buf /\ h[i].played = queue[i].played
             /\ h[i].handed /\ h[i].end = end
  <2>1. h[i] = [queue[i] EXCEPT !.handed = TRUE, !.end = end] /\ queue[i] \in Nodes
    BY <1>1, <1>3, <1>4
  <2>2. h[i] = [buf |-> queue[i].buf, handed |-> TRUE, end |-> end, played |-> queue[i].played]
    BY <2>1 DEF Nodes
  <2>3. /\ h[i].buf = queue[i].buf /\ h[i].played = queue[i].played
        /\ h[i].handed /\ h[i].end = end
    BY <2>2
  <2>4. h[i] \in Nodes
    BY <2>1, <2>2 DEF Nodes
  <2> QED BY <2>3, <2>4
<1>5. ASSUME NEW i \in 1..Len(queue), ~(queue[i].buf = snap.buf /\ ~queue[i].handed)
      PROVE  h[i] = queue[i]
  BY <1>3, <1>5
<1>6. h \in Seq(Nodes)
  BY <1>1, <1>2, <1>4, <1>5
<1> QED BY <1>1, <1>2, <1>4, <1>5, <1>6 DEF h

\* The feeder's chunk and the last answer.
LEMMA ChunkOKKept == ASSUME PlayerTypeOK, PlayerNext PROVE ChunkOK'
<1>1. CASE FeederTop
  BY <1>1 DEF FeederTop, transportState, list, streamState, cardState, output, app, PlayerTypeOK,
     ChunkOK
<1>2. CASE Scan
  <2>1. /\ UNCHANGED res
        /\ \/ UNCHANGED snap
           \/ \E i \in DOMAIN queue : snap' = [buf |-> queue[i].buf, gen |-> lgen]
    BY <1>2 DEF Scan, Unfed
  <2>2. \A i \in DOMAIN queue : queue[i] \in Nodes
    BY DEF PlayerTypeOK, BufsOK
  <2>3. \A i \in DOMAIN queue : queue[i].buf \in Bufs
    BY <2>2 DEF Nodes
  <2> QED BY <2>1, <2>3 DEF PlayerTypeOK, ChunkOK, CountsOK
<1>3. CASE Feed
  <2>1. UNCHANGED snap /\ (UNCHANGED res \/ res' = [res EXCEPT !.eaten = eaten])
    BY <1>3 DEF Feed, feeder
  <2> QED BY <2>1 DEF PlayerTypeOK, ChunkOK, CountsOK
<1>4. CASE Accepted
  BY <1>4 DEF Accepted, NoSnap, transportState, cardState, output, app, PlayerTypeOK, ChunkOK
<1>5. CASE TryBind
  BY <1>5 DEF TryBind, transportState, list, streamState, feeder, cardState, output, app,
     PlayerTypeOK, ChunkOK
<1>6. CASE Bind
  BY <1>6 DEF Bind, list, streamState, feeder, app, PlayerTypeOK, ChunkOK
<1>7. CASE DrainProbe
  <2>1. /\ UNCHANGED snap
        /\ \/ UNCHANGED res
           \/ res' = [st |-> "ok", eaten |-> eaten, drained |-> drainAsked /\ eaten = taken]
           \/ \E e \in {"busy", "failed"} : res' = [res EXCEPT !.st = e]
    BY <1>7 DEF DrainProbe, feeder
  <2>2. CASE \E d \in BOOLEAN : res' = [st |-> "ok", eaten |-> eaten, drained |-> d]
    BY <2>1, <2>2 DEF PlayerTypeOK, ChunkOK, CountsOK
  <2>3. CASE UNCHANGED res \/ \E e \in {"busy", "failed"} : res' = [res EXCEPT !.st = e]
    BY <2>1, <2>3 DEF PlayerTypeOK, ChunkOK
  <2> QED BY <2>1, <2>2, <2>3
<1>8. CASE DrainFailed
  BY <1>8 DEF DrainFailed, list, streamState, app, PlayerTypeOK, ChunkOK
<1>9. CASE DrainAnswered
  BY <1>9 DEF DrainAnswered, cardState, output, app, PlayerTypeOK, ChunkOK
<1>10. CASE FeederPace
  BY <1>10 DEF FeederPace, NoAnswer, transportState, list, streamState, cardState, output, app,
     PlayerTypeOK, ChunkOK
<1>11. CASE FeederWake
  BY <1>11 DEF FeederWake, transportState, list, streamState, feeder, cardState, output, app,
     PlayerTypeOK, ChunkOK
<1>12. ASSUME NEW b \in Bufs, MHIQueueBuffer(b) PROVE ChunkOK'
  BY <1>12 DEF MHIQueueBuffer, QueueWake, feeder, cardState, output, PlayerTypeOK, ChunkOK
<1>13. CASE MHIGetEmpty
  BY <1>13 DEF MHIGetEmpty, transportState, streamState, feeder, cardState, output, PlayerTypeOK,
     ChunkOK
<1>14. CASE EndOfStream
  BY <1>14 DEF EndOfStream, feeder, cardState, output, app, PlayerTypeOK, ChunkOK
<1>15. CASE MHIPlay
  BY <1>15 DEF MHIPlay, transportState, list, streamState, feeder, cardState, output, app,
     PlayerTypeOK, ChunkOK
<1>16. CASE PlayOpen
  BY <1>16 DEF PlayOpen, list, streamState, feeder, cardState, output, app, PlayerTypeOK, ChunkOK
<1>17. CASE PlayOpened
  <2>1. UNCHANGED snap /\ res' \in {res, NoAnswer}
    BY <1>17 DEF PlayOpened, feeder
  <2>2. NoAnswer \in [st : {"ok", "busy", "failed"}, eaten : Nat, drained : BOOLEAN]
    BY DEF NoAnswer
  <2> QED BY <2>1, <2>2 DEF PlayerTypeOK, ChunkOK
<1>18. CASE PlayPublish
  BY <1>18 DEF PlayPublish, list, streamState, feeder, app, PlayerTypeOK, ChunkOK
<1>19. CASE PlayRearm
  BY <1>19 DEF PlayRearm, list, streamState, feeder, cardState, output, app, PlayerTypeOK, ChunkOK
<1>20. CASE PlayResume
  BY <1>20 DEF PlayResume, transportState, list, streamState, feeder, cardState, output, app,
     PlayerTypeOK, ChunkOK
<1>21. CASE PlayRebind
  BY <1>21 DEF PlayRebind, transportState, list, streamState, feeder, app, PlayerTypeOK, ChunkOK
<1>22. CASE PlayRebound
  BY <1>22 DEF PlayRebound, list, streamState, feeder, cardState, output, app, PlayerTypeOK, ChunkOK
<1>23. CASE MHIStop
  BY <1>23 DEF MHIStop, feeder, cardState, output, PlayerTypeOK, ChunkOK
<1>24. CASE StopClose
  BY <1>24 DEF StopClose, list, feeder, app, PlayerTypeOK, ChunkOK
<1>25. CASE StopReturns
  BY <1>25 DEF StopReturns, transportState, list, streamState, feeder, cardState, output,
     PlayerTypeOK, ChunkOK
<1>26. CASE MHIPause
  BY <1>26 DEF MHIPause, list, streamState, feeder, cardState, output, app, PlayerTypeOK, ChunkOK
<1>27. CASE PauseUnbind
  BY <1>27 DEF PauseUnbind, Unbind, transportState, list, streamState, feeder, app, PlayerTypeOK,
     ChunkOK
<1>28. CASE MHIFreeDecoder
  BY <1>28 DEF MHIFreeDecoder, streamState, cardState, output, PlayerTypeOK, ChunkOK
<1>29. CASE FreeDecoderClose
  BY <1>29 DEF FreeDecoderClose, list, feeder, PlayerTypeOK, ChunkOK
<1>30. CASE FwDecode
  BY <1>30 DEF FwDecode, transportState, list, streamState, feeder, app, PlayerTypeOK, ChunkOK
<1>31. CASE FwLate
  BY <1>31 DEF FwLate, transportState, list, streamState, feeder, app, PlayerTypeOK, ChunkOK
<1> QED BY <1>1, <1>2, <1>3, <1>4, <1>5, <1>6, <1>7, <1>8, <1>9, <1>10, <1>11, <1>12, <1>13,
       <1>14, <1>15, <1>16, <1>17, <1>18, <1>19, <1>20, <1>21, <1>22, <1>23, <1>24, <1>25, <1>26,
       <1>27, <1>28, <1>29, <1>30, <1>31 DEF PlayerNext

\* A queue of no nodes is the empty one.
LEMMA NoNodes ==
  ASSUME NEW q \in Seq(Nodes), NEW r \in Seq(Nodes), DOMAIN r = DOMAIN q, q = << >>
  PROVE  r = << >>
OBVIOUS

\* What consuming leaves of each node.
LEMMA Consumed ==
  ASSUME PlayerTypeOK, NEW upTo \in Nat, NEW all \in BOOLEAN,
         queue' = Complete(queue, upTo, all)
  PROVE  /\ DOMAIN queue' = DOMAIN queue /\ (queue = << >> => queue' = << >>)
         /\ \A i \in DOMAIN queue :
              /\ queue'[i].buf = queue[i].buf /\ queue'[i].handed = queue[i].handed
              /\ queue'[i].end = queue[i].end
              /\ queue[i].played => queue'[i] = queue[i]
              /\ queue'[i].played /\ ~queue[i].played =>
                   queue[i].handed /\ (all \/ queue[i].end <= upTo)
<1>1. queue \in Seq(Nodes) BY DEF PlayerTypeOK, BufsOK
<1>2. queue' \in Seq(Nodes) /\ DOMAIN queue' = DOMAIN queue
  BY <1>1, CompleteMarks
<1>3. queue = << >> => queue' = << >>
  BY <1>1, <1>2, NoNodes
<1> QED BY <1>1, <1>2, <1>3, CompleteMarks

\* What handing the chunk over, and consuming, leaves of each node.
LEMMA HandedOver ==
  ASSUME PlayerTypeOK, NEW end \in Nat, NEW upTo \in Nat,
         queue' = Complete(HandOver(end), upTo, FALSE)
  PROVE  /\ DOMAIN queue' = DOMAIN queue /\ (queue = << >> => queue' = << >>)
         /\ \A i \in DOMAIN queue :
              /\ queue'[i].buf = queue[i].buf
              /\ queue[i].handed => queue'[i].handed /\ queue'[i].end = queue[i].end
              /\ queue'[i].handed /\ ~queue[i].handed => queue'[i].end = end
              /\ ~queue'[i].handed <=> ~queue[i].handed /\ queue[i].buf # snap.buf
              /\ queue[i].played /\ queue[i].handed => queue'[i] = queue[i]
              /\ queue'[i].played /\ ~queue[i].played =>
                   queue'[i].handed /\ queue'[i].end <= upTo
<1> DEFINE h == HandOver(end)
<1>1. queue \in Seq(Nodes) /\ BufsOK BY DEF PlayerTypeOK, BufsOK
<1>2. /\ h \in Seq(Nodes) /\ DOMAIN h = DOMAIN queue
      /\ \A i \in DOMAIN queue :
           /\ h[i].buf = queue[i].buf /\ h[i].played = queue[i].played
           /\ queue[i].handed => h[i] = queue[i]
           /\ h[i] # queue[i] => h[i].handed /\ h[i].end = end
           /\ ~h[i].handed <=> ~queue[i].handed /\ queue[i].buf # snap.buf
  BY <1>1, HandOverMarks
<1> HIDE DEF h
<1>3. queue' = Complete(h, upTo, FALSE) BY DEF h
<1>4. /\ queue' \in Seq(Nodes) /\ DOMAIN queue' = DOMAIN queue
      /\ \A i \in DOMAIN queue :
           /\ queue'[i].buf = h[i].buf /\ queue'[i].handed = h[i].handed
           /\ queue'[i].end = h[i].end
           /\ queue'[i].played /\ ~h[i].played => h[i].handed /\ h[i].end <= upTo
           /\ h[i].played => queue'[i] = h[i]
  <2>1. h \in Seq(Nodes) /\ FALSE \in BOOLEAN BY <1>2
  <2>2. /\ queue' \in Seq(Nodes) /\ DOMAIN queue' = DOMAIN h
        /\ \A i \in DOMAIN h :
             /\ queue'[i].buf = h[i].buf /\ queue'[i].handed = h[i].handed
             /\ queue'[i].end = h[i].end
             /\ queue'[i].played /\ ~h[i].played => h[i].handed /\ (FALSE \/ h[i].end <= upTo)
             /\ h[i].played => queue'[i] = h[i]
    <3> DEFINE Marks(q, all, r) ==
          /\ r \in Seq(Nodes) /\ DOMAIN r = DOMAIN q
          /\ \A i \in DOMAIN q :
               /\ r[i].buf = q[i].buf /\ r[i].handed = q[i].handed /\ r[i].end = q[i].end
               /\ r[i].played /\ ~q[i].played => q[i].handed /\ (all \/ q[i].end <= upTo)
               /\ q[i].played => r[i] = q[i]
    <3>1. \A all \in BOOLEAN, q \in Seq(Nodes) : Marks(q, all, Complete(q, upTo, all))
      BY CompleteMarks
    <3> HIDE DEF Marks
    <3>2. Marks(h, FALSE, queue')
      BY <2>1, <1>3, <3>1, Zenon
    <3> QED BY <3>2 DEF Marks
  <2> QED BY <2>2, <1>2
<1>5. queue = << >> => queue' = << >>
  BY <1>1, <1>4, NoNodes
<1>6. ASSUME NEW i \in DOMAIN queue
      PROVE  /\ queue'[i].buf = queue[i].buf
             /\ ~queue'[i].handed <=> ~queue[i].handed /\ queue[i].buf # snap.buf
             /\ queue[i].played /\ queue[i].handed => queue'[i] = queue[i]
             /\ queue'[i].played /\ ~queue[i].played =>
                  queue'[i].handed /\ queue'[i].end <= upTo
  BY <1>2, <1>4
<1>7. ASSUME NEW i \in DOMAIN queue
      PROVE  /\ queue[i].handed => queue'[i].handed /\ queue'[i].end = queue[i].end
             /\ queue'[i].handed /\ ~queue[i].handed => queue'[i].end = end
  BY <1>2, <1>4
<1> QED BY <1>4, <1>5, <1>6, <1>7

\* What queueing a buffer does to the queue.
LEMMA Queued ==
  ASSUME PlayerTypeOK, NEW n \in Nodes, queue' = Append(queue, n)
  PROVE  /\ \A i \in DOMAIN queue' : \/ i \in DOMAIN queue /\ queue'[i] = queue[i]
                                     \/ i \notin DOMAIN queue /\ queue'[i] = n
         /\ \A i \in DOMAIN queue : i \in DOMAIN queue' /\ queue'[i] = queue[i]
         /\ \A i, j \in DOMAIN queue' : i \notin DOMAIN queue /\ j \notin DOMAIN queue => i = j
<1>1. queue \in Seq(Nodes) BY DEF PlayerTypeOK, BufsOK
<1>2. /\ Len(queue) \in Nat /\ DOMAIN queue = 1..Len(queue)
      /\ DOMAIN queue' = 1..Len(queue) + 1
      /\ \A i \in 1..Len(queue) : queue'[i] = queue[i]
      /\ queue'[Len(queue) + 1] = n
  BY <1>1
<1> QED BY <1>2

\* What taking the first buffer off does.
LEMMA Dequeued ==
  ASSUME PlayerTypeOK, queue # << >>, queue' = Tail(queue)
  PROVE  /\ 1 \in DOMAIN queue /\ Head(queue) = queue[1]
         /\ \A i \in DOMAIN queue' : /\ i \in Nat /\ i + 1 \in DOMAIN queue /\ i + 1 # 1
                                     /\ queue'[i] = queue[i + 1]
         /\ \A i \in DOMAIN queue : i # 1 =>
              \E j \in DOMAIN queue' : queue'[j] = queue[i]
<1>1. queue \in Seq(Nodes) BY DEF PlayerTypeOK, BufsOK
<1>2. /\ Len(queue) \in Nat \ {0} /\ DOMAIN queue = 1..Len(queue)
      /\ DOMAIN queue' = 1..Len(queue) - 1 /\ Head(queue) = queue[1]
      /\ \A i \in 1..Len(queue) - 1 : queue'[i] = queue[i + 1]
  BY <1>1
<1>3. ASSUME NEW i \in DOMAIN queue, i # 1
      PROVE  \E j \in DOMAIN queue' : queue'[j] = queue[i]
  <2>1. i \in Nat /\ i - 1 \in DOMAIN queue' /\ (i - 1) + 1 = i BY <1>2, <1>3
  <2>2. queue'[i - 1] = queue[i] BY <2>1, <1>2
  <2> QED BY <2>1, <2>2
<1> QED BY <1>2, <1>3

\* The queue and the application's buffers.
LEMMA BufsOKKept == ASSUME PlayerTypeOK, PlayerNext PROVE BufsOK'
<1>1. CASE FeederTop
  BY <1>1 DEF FeederTop, transportState, list, streamState, cardState, output, app, PlayerTypeOK,
     BufsOK
<1>2. CASE Scan
  BY <1>2 DEF Scan, transportState, streamState, cardState, output, app, PlayerTypeOK, BufsOK
<1>3. CASE Feed
  <2>1. UNCHANGED <<mine, dropped>> /\ (UNCHANGED queue \/ queue' = Complete(queue, eaten, FALSE))
    BY <1>3 DEF Feed, app
  <2>2. Complete(queue, eaten, FALSE) \in Seq(Nodes)
    BY CompleteMarks DEF PlayerTypeOK, BufsOK, CountsOK
  <2> QED BY <2>1, <2>2 DEF PlayerTypeOK, BufsOK
<1>4. CASE Accepted
  <2>1. UNCHANGED <<mine, dropped>>
    BY <1>4 DEF Accepted, app
  <2>2. CASE UNCHANGED queue
    BY <2>1, <2>2 DEF PlayerTypeOK, BufsOK
  <2>3. CASE fed' = fed + 1 /\ queue' = Complete(HandOver(fed'), res.eaten, FALSE)
    <3>1. res.eaten \in Nat /\ fed' \in Nat
      BY <2>3 DEF PlayerTypeOK, ChunkOK, CountsOK
    <3>2. Complete(HandOver(fed'), res.eaten, FALSE) \in Seq(Nodes)
      BY <3>1, HandOverMarks, CompleteMarks DEF PlayerTypeOK
    <3> QED BY <2>1, <2>3, <3>2 DEF PlayerTypeOK, BufsOK
  <2> QED BY <1>4, <2>2, <2>3 DEF Accepted
<1>5. CASE TryBind
  BY <1>5 DEF TryBind, transportState, list, streamState, feeder, cardState, output, app,
     PlayerTypeOK, BufsOK
<1>6. CASE Bind
  BY <1>6 DEF Bind, list, streamState, feeder, app, PlayerTypeOK, BufsOK
<1>7. CASE DrainProbe
  BY <1>7 DEF DrainProbe, transportState, list, feeder, app, PlayerTypeOK, BufsOK
<1>8. CASE DrainFailed
  BY <1>8 DEF DrainFailed, list, streamState, app, PlayerTypeOK, BufsOK
<1>9. CASE DrainAnswered
  <2>1. UNCHANGED <<mine, dropped>> /\ \E all \in BOOLEAN : queue' = Complete(queue, res.eaten, all)
    BY <1>9 DEF DrainAnswered, app
  <2>2. res.eaten \in Nat
    BY DEF PlayerTypeOK, ChunkOK
  <2>3. \A all \in BOOLEAN : Complete(queue, res.eaten, all) \in Seq(Nodes)
    BY <2>2, CompleteMarks DEF PlayerTypeOK, BufsOK
  <2> QED BY <2>1, <2>3 DEF PlayerTypeOK, BufsOK
<1>10. CASE FeederPace
  BY <1>10 DEF FeederPace, transportState, list, streamState, cardState, output, app,
     PlayerTypeOK, BufsOK
<1>11. CASE FeederWake
  BY <1>11 DEF FeederWake, transportState, list, streamState, feeder, cardState, output, app,
     PlayerTypeOK, BufsOK
<1>12. ASSUME NEW b \in Bufs, MHIQueueBuffer(b) PROVE BufsOK'
  <2>1. /\ mine' \subseteq mine /\ UNCHANGED dropped
        /\ queue' = Append(queue, [buf |-> b, handed |-> FALSE, end |-> 0, played |-> FALSE])
    BY <1>12 DEF MHIQueueBuffer
  <2>2. [buf |-> b, handed |-> FALSE, end |-> 0, played |-> FALSE] \in Nodes
    BY DEF Nodes
  <2> QED BY <2>1, <2>2 DEF PlayerTypeOK, BufsOK
<1>13. CASE MHIGetEmpty
  <2>1. queue # << >> /\ queue \in Seq(Nodes)
    BY <1>13 DEF MHIGetEmpty, PlayerTypeOK, BufsOK
  <2>2. Head(queue) \in Nodes /\ Tail(queue) \in Seq(Nodes)
    BY <2>1
  <2>3. Head(queue).buf \in Bufs
    BY <2>2 DEF Nodes
  <2>4. queue' = Tail(queue) /\ mine' = mine \cup {Head(queue).buf} /\ UNCHANGED dropped
    BY <1>13 DEF MHIGetEmpty
  <2> QED BY <2>2, <2>3, <2>4 DEF PlayerTypeOK, BufsOK
<1>14. CASE EndOfStream
  <2>1. UNCHANGED <<mine, dropped>> /\ queue' = Complete(queue, eaten, FALSE)
    BY <1>14 DEF EndOfStream, app
  <2>2. Complete(queue, eaten, FALSE) \in Seq(Nodes)
    BY CompleteMarks DEF PlayerTypeOK, BufsOK, CountsOK
  <2> QED BY <2>1, <2>2 DEF PlayerTypeOK, BufsOK
<1>15. CASE MHIPlay
  BY <1>15 DEF MHIPlay, transportState, list, streamState, feeder, cardState, output, app,
     PlayerTypeOK, BufsOK
<1>16. CASE PlayOpen
  BY <1>16 DEF PlayOpen, list, streamState, feeder, cardState, output, app, PlayerTypeOK, BufsOK
<1>17. CASE PlayOpened
  BY <1>17 DEF PlayOpened, transportState, list, streamState, feeder, cardState, output, app,
     PlayerTypeOK, BufsOK
<1>18. CASE PlayPublish
  BY <1>18 DEF PlayPublish, list, streamState, feeder, app, PlayerTypeOK, BufsOK
<1>19. CASE PlayRearm
  BY <1>19 DEF PlayRearm, list, streamState, feeder, cardState, output, app, PlayerTypeOK, BufsOK
<1>20. CASE PlayResume
  BY <1>20 DEF PlayResume, transportState, list, streamState, feeder, cardState, output, app,
     PlayerTypeOK, BufsOK
<1>21. CASE PlayRebind
  BY <1>21 DEF PlayRebind, transportState, list, streamState, feeder, app, PlayerTypeOK, BufsOK
<1>22. CASE PlayRebound
  BY <1>22 DEF PlayRebound, list, streamState, feeder, cardState, output, app, PlayerTypeOK, BufsOK
<1>23. CASE MHIStop
  <2>1. UNCHANGED mine /\ DrainList
    BY <1>23 DEF MHIStop
  <2> QED BY <2>1, DrainedBufs DEF PlayerTypeOK, BufsOK
<1>24. CASE StopClose
  BY <1>24 DEF StopClose, list, feeder, app, PlayerTypeOK, BufsOK
<1>25. CASE StopReturns
  BY <1>25 DEF StopReturns, transportState, list, streamState, feeder, cardState, output,
     PlayerTypeOK, BufsOK
<1>26. CASE MHIPause
  BY <1>26 DEF MHIPause, list, streamState, feeder, cardState, output, app, PlayerTypeOK, BufsOK
<1>27. CASE PauseUnbind
  BY <1>27 DEF PauseUnbind, Unbind, transportState, list, streamState, feeder, app, PlayerTypeOK,
     BufsOK
<1>28. CASE MHIFreeDecoder
  <2>1. UNCHANGED mine /\ DrainList
    BY <1>28 DEF MHIFreeDecoder
  <2> QED BY <2>1, DrainedBufs DEF PlayerTypeOK, BufsOK
<1>29. CASE FreeDecoderClose
  BY <1>29 DEF FreeDecoderClose, list, feeder, PlayerTypeOK, BufsOK
<1>30. CASE FwDecode
  BY <1>30 DEF FwDecode, transportState, list, streamState, feeder, app, PlayerTypeOK, BufsOK
<1>31. CASE FwLate
  BY <1>31 DEF FwLate, transportState, list, streamState, feeder, app, PlayerTypeOK, BufsOK
<1> QED BY <1>1, <1>2, <1>3, <1>4, <1>5, <1>6, <1>7, <1>8, <1>9, <1>10, <1>11, <1>12, <1>13,
       <1>14, <1>15, <1>16, <1>17, <1>18, <1>19, <1>20, <1>21, <1>22, <1>23, <1>24, <1>25, <1>26,
       <1>27, <1>28, <1>29, <1>30, <1>31 DEF PlayerNext
\* Types are kept.
LEMMA TypeKept == ASSUME PlayerInv, PlayerNext PROVE PlayerTypeOK'
BY OutputMoves, FlagsOKKept, CountsOKKept, PlacesOKKept, ChunkOKKept, BufsOKKept
DEF PlayerInv, PlayerTypeOK

-----------------------------------------------------------------------------
(* The parts of the invariant.                                             *)


\* A step that marks what was consumed touches nothing else, and marks only
\* what the card has consumed.
LEMMA Consuming ==
  ASSUME PlayerInv, Feed \/ DrainAnswered \/ EndOfStream
  PROVE  /\ DOMAIN queue' = DOMAIN queue
         /\ \A i \in DOMAIN queue :
              /\ queue'[i].buf = queue[i].buf /\ queue'[i].handed = queue[i].handed
              /\ queue'[i].end = queue[i].end
              /\ queue[i].played => queue'[i] = queue[i]
              /\ queue'[i].played /\ ~queue[i].played => queue[i].handed /\ queue[i].end <= eaten
<1>1. PlayerTypeOK /\ eaten \in Nat /\ res.eaten \in Nat /\ FALSE \in BOOLEAN
  BY DEF PlayerInv, PlayerTypeOK, CountsOK, ChunkOK
<1>2. CASE UNCHANGED queue
  BY <1>2
<1>3. CASE queue' = Complete(queue, eaten, FALSE)
  BY <1>1, <1>3, Consumed
<1>4. CASE DrainAnswered
  <2> DEFINE over == IF eofSent THEN res.eaten = taken ELSE drainAsked /\ res.drained
  <2>1. /\ queue' = Complete(queue, res.eaten, over /\ ~eofSent)
        /\ place["feeder"] = "probed" /\ res.st = "ok"
    BY <1>4 DEF DrainAnswered
  <2>2. over /\ ~eofSent => eaten = taken
    BY <2>1 DEF PlayerInv, Counted
  <2>3. res.eaten <= eaten
    BY DEF PlayerInv, Counted
  <2>4. ASSUME NEW all \in BOOLEAN, queue' = Complete(queue, res.eaten, all), all => eaten = taken
        PROVE  /\ DOMAIN queue' = DOMAIN queue
               /\ \A i \in DOMAIN queue :
                    /\ queue'[i].buf = queue[i].buf /\ queue'[i].handed = queue[i].handed
                    /\ queue'[i].end = queue[i].end
                    /\ queue[i].played => queue'[i] = queue[i]
                    /\ queue'[i].played /\ ~queue[i].played =>
                         queue[i].handed /\ queue[i].end <= eaten
    <3>1. /\ DOMAIN queue' = DOMAIN queue
          /\ \A i \in DOMAIN queue :
               /\ queue'[i].buf = queue[i].buf /\ queue'[i].handed = queue[i].handed
               /\ queue'[i].end = queue[i].end
               /\ queue[i].played => queue'[i] = queue[i]
               /\ queue'[i].played /\ ~queue[i].played =>
                    queue[i].handed /\ (all \/ queue[i].end <= res.eaten)
      BY <1>1, <2>4, Consumed
    <3>2. ASSUME NEW i \in DOMAIN queue, queue[i].handed, all \/ queue[i].end <= res.eaten
          PROVE  queue[i].end <= eaten
      <4>1. queue[i] \in Nodes
        BY <1>1 DEF PlayerTypeOK, BufsOK
      <4>2. queue[i].end \in Nat
        BY <4>1 DEF Nodes
      <4>3. queue[i].end <= taken
        BY <3>2 DEF PlayerInv, Handed
      <4> QED BY <1>1, <2>3, <2>4, <3>2, <4>2, <4>3
    <3> QED BY <3>1, <3>2
  <2>5. (over /\ ~eofSent) \in BOOLEAN OBVIOUS
  <2> HIDE DEF over
  <2> QED BY <2>1, <2>2, <2>4, <2>5
<1> QED BY <1>2, <1>3, <1>4 DEF Feed, EndOfStream

\* The step that marks the accepted chunk as handed over.
LEMMA Accepting ==
  ASSUME PlayerInv, Accepted
  PROVE  /\ DOMAIN queue' = DOMAIN queue
         /\ \A i \in DOMAIN queue :
              /\ queue'[i].buf = queue[i].buf
              /\ queue[i].handed => queue'[i].handed /\ queue'[i].end = queue[i].end
              /\ queue'[i].handed /\ ~queue[i].handed => queue'[i].end <= taken
              /\ queue[i].played => queue'[i] = queue[i]
              /\ queue'[i].played /\ ~queue[i].played =>
                   queue'[i].handed /\ queue'[i].end <= eaten
<1>1. CASE UNCHANGED queue
  BY <1>1
<1>2. CASE fed' = fed + 1 /\ queue' = Complete(HandOver(fed'), res.eaten, FALSE)
  <2>1. fed' \in Nat /\ res.eaten \in Nat /\ eaten \in Nat /\ taken \in Nat /\ PlayerTypeOK
    BY <1>2 DEF PlayerInv, PlayerTypeOK, CountsOK, ChunkOK
  <2>2. place["feeder"] = "accepted" BY DEF Accepted
  <2>3. fed' <= taken /\ res.eaten <= eaten
    BY <1>2, <2>1, <2>2 DEF PlayerInv, PlayerTypeOK, CountsOK, Counted
  <2>4. /\ DOMAIN queue' = DOMAIN queue
        /\ \A i \in DOMAIN queue :
             /\ queue'[i].buf = queue[i].buf
             /\ queue[i].handed => queue'[i].handed /\ queue'[i].end = queue[i].end
             /\ queue'[i].handed /\ ~queue[i].handed => queue'[i].end = fed'
             /\ queue[i].played /\ queue[i].handed => queue'[i] = queue[i]
             /\ queue'[i].played /\ ~queue[i].played =>
                  queue'[i].handed /\ queue'[i].end <= res.eaten
    BY <1>2, <2>1, HandedOver
  <2>5. queue' \in Seq(Nodes)
    BY <2>1, BufsOKKept DEF PlayerNext, BufsOK
  <2>6. ASSUME NEW i \in DOMAIN queue, queue'[i].end <= res.eaten
        PROVE  queue'[i].end <= eaten
    <3>1. queue'[i] \in Nodes BY <2>4, <2>5
    <3>2. queue'[i].end \in Nat BY <3>1 DEF Nodes
    <3> QED BY <2>1, <2>3, <2>6, <3>2
  <2>7. \A i \in DOMAIN queue : queue[i].played => queue[i].handed
    BY DEF PlayerInv, Handed
  <2> QED BY <2>3, <2>4, <2>6, <2>7
<1> QED BY <1>1, <1>2 DEF Accepted

\* io_lock changes hands with the places it is held at.
LEMMA IoLockedKept ==
  ASSUME PlacesOK, IoLocked, PlayerNext
  PROVE  IoLocked'
<1>1. CASE FeederTop
  BY <1>1 DEF FeederTop, To, Lock, PlacesOK, IoLocked, PlayerTasks, FeederLocked
<1>2. CASE Scan
  BY <1>2 DEF Scan, To, PlacesOK, IoLocked, PlayerTasks, FeederLocked
<1>3. CASE Feed
  BY <1>3 DEF Feed, To, PlacesOK, IoLocked, PlayerTasks, FeederLocked
<1>4. CASE Accepted
  BY <1>4 DEF Accepted, To, PlacesOK, IoLocked, PlayerTasks, FeederLocked
<1>5. CASE TryBind
  BY <1>5 DEF TryBind, To, PlacesOK, IoLocked, PlayerTasks, FeederLocked
<1>6. CASE Bind
  BY <1>6 DEF Bind, To, PlacesOK, IoLocked, PlayerTasks, FeederLocked
<1>7. CASE DrainProbe
  BY <1>7 DEF DrainProbe, To, PlacesOK, IoLocked, PlayerTasks, FeederLocked
<1>8. CASE DrainFailed
  BY <1>8 DEF DrainFailed, To, PlacesOK, IoLocked, PlayerTasks, FeederLocked
<1>9. CASE DrainAnswered
  BY <1>9 DEF DrainAnswered, To, PlacesOK, IoLocked, PlayerTasks, FeederLocked
<1>10. CASE FeederPace
  BY <1>10 DEF FeederPace, To, Unlock, PlacesOK, IoLocked, PlayerTasks, FeederLocked
<1>11. CASE FeederWake
  BY <1>11 DEF FeederWake, To, PlacesOK, IoLocked, PlayerTasks, FeederLocked
<1>12. ASSUME NEW b \in Bufs, MHIQueueBuffer(b) PROVE IoLocked'
  BY <1>12 DEF MHIQueueBuffer, QueueWake, IoLocked
<1>13. CASE MHIGetEmpty
  BY <1>13 DEF MHIGetEmpty, IoLocked
<1>14. CASE EndOfStream
  BY <1>14 DEF EndOfStream, IoLocked
<1>15. CASE MHIPlay
  BY <1>15 DEF MHIPlay, To, PlacesOK, IoLocked, PlayerTasks, PlayerLocked
<1>16. CASE PlayOpen
  BY <1>16 DEF PlayOpen, To, Lock, PlacesOK, IoLocked, PlayerTasks, PlayerLocked
<1>17. CASE PlayOpened
  BY <1>17 DEF PlayOpened, To, Unlock, PlacesOK, IoLocked, PlayerTasks, PlayerLocked
<1>18. CASE PlayPublish
  BY <1>18 DEF PlayPublish, To, Unlock, PlacesOK, IoLocked, PlayerTasks, PlayerLocked
<1>19. CASE PlayRearm
  BY <1>19 DEF PlayRearm, To, PlacesOK, IoLocked, PlayerTasks, PlayerLocked
<1>20. CASE PlayResume
  BY <1>20 DEF PlayResume, To, Lock, PlacesOK, IoLocked, PlayerTasks, PlayerLocked
<1>21. CASE PlayRebind
  BY <1>21 DEF PlayRebind, To, PlacesOK, IoLocked, PlayerTasks, PlayerLocked
<1>22. CASE PlayRebound
  BY <1>22 DEF PlayRebound, To, Unlock, PlacesOK, IoLocked, PlayerTasks, PlayerLocked
<1>23. CASE MHIStop
  BY <1>23 DEF MHIStop, To, PlacesOK, IoLocked, PlayerTasks
<1>24. CASE StopClose
  BY <1>24 DEF StopClose, To, PlacesOK, IoLocked, PlayerTasks
<1>25. CASE StopReturns
  BY <1>25 DEF StopReturns, To, PlacesOK, IoLocked, PlayerTasks
<1>26. CASE MHIPause
  BY <1>26 DEF MHIPause, To, PlacesOK, IoLocked, PlayerTasks
<1>27. CASE PauseUnbind
  BY <1>27 DEF PauseUnbind, To, Unbind, PlacesOK, IoLocked, PlayerTasks
<1>28. CASE MHIFreeDecoder
  BY <1>28 DEF MHIFreeDecoder, To, PlacesOK, IoLocked, PlayerTasks
<1>29. CASE FreeDecoderClose
  BY <1>29 DEF FreeDecoderClose, To, PlacesOK, IoLocked, PlayerTasks
<1>30. CASE FwDecode
  BY <1>30 DEF FwDecode, IoLocked
<1>31. CASE FwLate
  BY <1>31 DEF FwLate, transportState, list, streamState, feeder, app, IoLocked
<1> QED BY <1>1, <1>2, <1>3, <1>4, <1>5, <1>6, <1>7, <1>8, <1>9, <1>10, <1>11, <1>12, <1>13,
       <1>14, <1>15, <1>16, <1>17, <1>18, <1>19, <1>20, <1>21, <1>22, <1>23, <1>24, <1>25, <1>26,
       <1>27, <1>28, <1>29, <1>30, <1>31 DEF PlayerNext
\* Sessions are opened and closed where nothing needs another.
LEMMA SessionedKept ==
  ASSUME PlayerInv, PlayerNext
  PROVE  Sessioned'
<1>0. /\ Known' \in {0, Known, stream}
      /\ CloseStream \/ PauseUnbind => Known' = 0
  BY OutputMoves
<1>1. CASE FeederTop
  BY <1>1 DEF FeederTop, To, Lock, transportState, streamState, cardState, output, Known, PlayerInv,
     PlayerTypeOK, PlacesOK, Sessioned, Working, PlayerTasks
<1>2. CASE Scan
  BY <1>2 DEF Scan, To, transportState, streamState, cardState, output, Known, PlayerInv,
     PlayerTypeOK, PlacesOK, Sessioned, Working, PlayerTasks, FeederLocked
<1>3. CASE Feed
  BY <1>3 DEF Feed, To, output, Known, transportState, PlayerInv, PlayerTypeOK, PlacesOK,
     Sessioned, Working, PlayerTasks, FeederLocked
<1>4. CASE Accepted
  BY <1>4 DEF Accepted, To, transportState, cardState, output, Known, PlayerInv, PlayerTypeOK,
     PlacesOK, Sessioned, Working, PlayerTasks, FeederLocked
<1>5. CASE TryBind
  BY <1>5 DEF TryBind, To, transportState, streamState, cardState, output, Known, PlayerInv,
     PlayerTypeOK, PlacesOK, Sessioned, Working, PlayerTasks, FeederLocked
<1>6. CASE Bind
  BY <1>6, <1>0 DEF Bind, To, streamState, PlayerInv, PlayerTypeOK, PlacesOK, Sessioned, Working,
     PlayerTasks, FeederLocked
<1>7. CASE DrainProbe
  BY <1>7, <1>0 DEF DrainProbe, To, transportState, PlayerInv, PlayerTypeOK, PlacesOK, Sessioned,
     Working, PlayerTasks, FeederLocked
<1>8. CASE DrainFailed
  BY <1>8, <1>0 DEF DrainFailed, To, streamState, PlayerInv, PlayerTypeOK, PlacesOK, Sessioned,
     Working, PlayerTasks
<1>9. CASE DrainAnswered
  BY <1>9 DEF DrainAnswered, To, cardState, output, Known, PlayerInv, PlayerTypeOK, PlacesOK,
     Sessioned, Working, PlayerTasks
<1>10. CASE FeederPace
  BY <1>10 DEF FeederPace, To, Unlock, transportState, streamState, cardState, output, Known,
     PlayerInv, PlayerTypeOK, PlacesOK, Sessioned, Working, PlayerTasks, FeederLocked
<1>11. CASE FeederWake
  BY <1>11 DEF FeederWake, To, transportState, streamState, cardState, output, Known, PlayerInv,
     PlayerTypeOK, PlacesOK, Sessioned, Working, PlayerTasks, FeederLocked
<1>12. ASSUME NEW b \in Bufs, MHIQueueBuffer(b) PROVE Sessioned'
  BY <1>12 DEF MHIQueueBuffer, QueueWake, cardState, output, Known, PlayerInv, PlayerTypeOK,
     PlacesOK, Sessioned, Working, PlayerTasks
<1>13. CASE MHIGetEmpty
  BY <1>13 DEF MHIGetEmpty, transportState, streamState, cardState, output, Known, PlayerInv,
     PlayerTypeOK, PlacesOK, Sessioned, Working, PlayerTasks
<1>14. CASE EndOfStream
  BY <1>14, <1>0 DEF EndOfStream, cardState, output, Known, PlayerInv, Sessioned
<1>15. CASE MHIPlay
  BY <1>15 DEF MHIPlay, To, transportState, streamState, cardState, output, Known, PlayerInv,
     PlayerTypeOK, PlacesOK, Sessioned, Working, PlayerTasks
<1>16. CASE PlayOpen
  BY <1>16 DEF PlayOpen, To, Lock, streamState, cardState, output, Known, PlayerInv, PlayerTypeOK,
     PlacesOK, Sessioned, Working, PlayerTasks
<1>17. CASE PlayOpened
  BY <1>17 DEF PlayOpened, To, Unlock, transportState, streamState, cardState, output, Known,
     PlayerInv, PlayerTypeOK, PlacesOK, CountsOK, Sessioned, Working, PlayerTasks
<1>18. CASE PlayPublish
  <2>1. place["player"] = "publish" /\ place'["player"] = "idle" /\ ~Working /\ ~Working'
    BY <1>18 DEF PlayPublish, To, PlayerInv, PlayerTypeOK, PlacesOK, IoLocked, Working, PlayerTasks,
       FeederLocked, PlayerLocked
  <2>2. CASE PlayUncontested
    BY <1>18, <2>1, <2>2 DEF PlayPublish, streamState, output, Known, PlayerInv, Sessioned
  <2>3. CASE ~PlayUncontested
    <3>1. status' = "STOPPED"
      BY <1>18, <2>1, <2>3 DEF PlayPublish, PlayUncontested, PlayerInv, Contested
    <3>2. CloseStream
      BY <1>18, <2>3 DEF PlayPublish
    <3>3. Known' = 0
      BY <1>0, <3>2
    <3> QED BY <2>1, <3>1, <3>2, <3>3 DEF CloseStream, Sessioned
  <2> QED BY <2>2, <2>3
<1>19. CASE PlayRearm
  BY <1>19 DEF PlayRearm, To, streamState, cardState, output, Known, PlayerInv, PlayerTypeOK,
     PlacesOK, Sessioned, Working, PlayerTasks
<1>20. CASE PlayResume
  BY <1>20 DEF PlayResume, To, Lock, transportState, streamState, cardState, output, Known,
     PlayerInv, PlayerTypeOK, PlacesOK, Sessioned, Working, PlayerTasks
<1>21. CASE PlayRebind
  BY <1>21, <1>0 DEF PlayRebind, To, transportState, streamState, PlayerInv, PlayerTypeOK, PlacesOK,
     Sessioned, Working, PlayerTasks
<1>22. CASE PlayRebound
  BY <1>22 DEF PlayRebound, To, Unlock, streamState, cardState, output, Known, PlayerInv,
     PlayerTypeOK, PlacesOK, Sessioned, Working, PlayerTasks
<1>23. CASE MHIStop
  BY <1>23 DEF MHIStop, To, cardState, output, Known, PlayerInv, PlayerTypeOK, PlacesOK,
     Sessioned, Working, PlayerTasks
<1>24. CASE StopClose
  BY <1>24, <1>0 DEF StopClose, To, CloseStream, PlayerInv, PlayerTypeOK, PlacesOK, IoLocked,
     Sessioned, Closing, Working, PlayerTasks, PlayerLocked
<1>25. CASE StopReturns
  BY <1>25 DEF StopReturns, To, transportState, streamState, cardState, output, Known, PlayerInv,
     PlayerTypeOK, PlacesOK, Sessioned, Working, PlayerTasks
<1>26. CASE MHIPause
  BY <1>26 DEF MHIPause, To, streamState, cardState, output, Known, PlayerInv, PlayerTypeOK,
     PlacesOK, Sessioned, Working, PlayerTasks
<1>27. CASE PauseUnbind
  BY <1>27, <1>0 DEF PauseUnbind, To, Unbind, transportState, streamState, PlayerInv, PlayerTypeOK,
     PlacesOK, Sessioned, Working, PlayerTasks
<1>28. CASE MHIFreeDecoder
  BY <1>28 DEF MHIFreeDecoder, To, streamState, cardState, output, Known, PlayerInv, PlayerTypeOK,
     PlacesOK, Sessioned, Working, PlayerTasks
<1>29. CASE FreeDecoderClose
  BY <1>29, <1>0 DEF FreeDecoderClose, To, CloseStream, PlayerInv, PlayerTypeOK, PlacesOK,
     Sessioned, Closing, Working, PlayerTasks, FeederLocked
<1>30. CASE FwDecode
  BY <1>30 DEF FwDecode, output, Known, transportState, streamState, PlayerInv, PlayerTypeOK,
     PlacesOK, Sessioned, Working, PlayerTasks
<1>31. CASE FwLate
  BY <1>31, <1>0 DEF FwLate, transportState, list, streamState, feeder, app, PlayerInv,
     PlayerTypeOK, PlacesOK, Sessioned, Working, PlayerTasks
<1> QED BY <1>1, <1>2, <1>3, <1>4, <1>5, <1>6, <1>7, <1>8, <1>9, <1>10, <1>11, <1>12, <1>13,
       <1>14, <1>15, <1>16, <1>17, <1>18, <1>19, <1>20, <1>21, <1>22, <1>23, <1>24, <1>25, <1>26,
       <1>27, <1>28, <1>29, <1>30, <1>31 DEF PlayerNext

\* A feeder at work meets a Stop or Pause that is not over.
LEMMA FeederStopsKept ==
  ASSUME PlayerInv, PlayerNext
  PROVE  FeederStops'
<1>1. CASE FeederTop
  BY <1>1 DEF FeederTop, To, Lock, transportState, PlayerInv, PlayerTypeOK, PlacesOK, FeederStops,
     Working, PlayerTasks
<1>2. CASE Scan
  BY <1>2 DEF Scan, To, transportState, PlayerInv, PlayerTypeOK, PlacesOK, FeederStops, Working,
     PlayerTasks, FeederLocked
<1>3. CASE Feed
  BY <1>3 DEF Feed, To, transportState, PlayerInv, PlayerTypeOK, PlacesOK, FeederStops, Working,
     PlayerTasks, FeederLocked
<1>4. CASE Accepted
  BY <1>4 DEF Accepted, To, transportState, PlayerInv, PlayerTypeOK, PlacesOK, FeederStops,
     Working, PlayerTasks, FeederLocked
<1>5. CASE TryBind
  BY <1>5 DEF TryBind, To, transportState, PlayerInv, PlayerTypeOK, PlacesOK, FeederStops,
     Working, PlayerTasks, FeederLocked
<1>6. CASE Bind
  BY <1>6 DEF Bind, To, PlayerInv, PlayerTypeOK, PlacesOK, FeederStops, Working, PlayerTasks,
     FeederLocked
<1>7. CASE DrainProbe
  BY <1>7 DEF DrainProbe, To, transportState, PlayerInv, PlayerTypeOK, PlacesOK, FeederStops,
     Working, PlayerTasks
<1>8. CASE DrainFailed
  BY <1>8 DEF DrainFailed, To, PlayerInv, PlayerTypeOK, PlacesOK, FeederStops, Working,
     PlayerTasks
<1>9. CASE DrainAnswered
  BY <1>9 DEF DrainAnswered, To, PlayerInv, PlayerTypeOK, PlacesOK, FeederStops, Working,
     PlayerTasks
<1>10. CASE FeederPace
  BY <1>10 DEF FeederPace, To, Unlock, transportState, PlayerInv, PlayerTypeOK, PlacesOK,
     FeederStops, Working, PlayerTasks, FeederLocked
<1>11. CASE FeederWake
  BY <1>11 DEF FeederWake, To, transportState, PlayerInv, PlayerTypeOK, PlacesOK, FeederStops,
     Working, PlayerTasks, FeederLocked
<1>12. ASSUME NEW b \in Bufs, MHIQueueBuffer(b) PROVE FeederStops'
  BY <1>12 DEF MHIQueueBuffer, QueueWake, PlayerInv, PlayerTypeOK, PlacesOK, FeederStops, Working,
     PlayerTasks
<1>13. CASE MHIGetEmpty
  BY <1>13 DEF MHIGetEmpty, transportState, PlayerInv, PlayerTypeOK, PlacesOK, FeederStops,
     Working, PlayerTasks
<1>14. CASE EndOfStream
  BY <1>14 DEF EndOfStream, PlayerInv, FeederStops
<1>15. CASE MHIPlay
  BY <1>15 DEF MHIPlay, To, transportState, PlayerInv, PlayerTypeOK, PlacesOK, FeederStops,
     Working, PlayerTasks
<1>16. CASE PlayOpen
  BY <1>16 DEF PlayOpen, To, Lock, PlayerInv, PlayerTypeOK, PlacesOK, FeederStops, Working,
     PlayerTasks
<1>17. CASE PlayOpened
  BY <1>17 DEF PlayOpened, To, Unlock, transportState, PlayerInv, PlayerTypeOK, PlacesOK,
     FeederStops, Working, PlayerTasks
<1>18. CASE PlayPublish
  BY <1>18 DEF PlayPublish, To, Unlock, PlayerInv, PlayerTypeOK, PlacesOK, IoLocked, FeederStops,
     Working, PlayerTasks, PlayerLocked
<1>19. CASE PlayRearm
  BY <1>19 DEF PlayRearm, PlayerInv, FeederStops
<1>20. CASE PlayResume
  BY <1>20 DEF PlayResume, To, Lock, transportState, PlayerInv, PlayerTypeOK, PlacesOK,
     FeederStops, Working, PlayerTasks
<1>21. CASE PlayRebind
  BY <1>21 DEF PlayRebind, To, transportState, PlayerInv, PlayerTypeOK, PlacesOK, FeederStops,
     Working, PlayerTasks
<1>22. CASE PlayRebound
  BY <1>22 DEF PlayRebound, To, Unlock, PlayerInv, PlayerTypeOK, PlacesOK, FeederStops, Working,
     PlayerTasks
<1>23. CASE MHIStop
  BY <1>23 DEF MHIStop, To, PlayerInv, PlayerTypeOK, PlacesOK, FeederStops, Working, PlayerTasks
<1>24. CASE StopClose
  BY <1>24 DEF StopClose, To, PlayerInv, PlayerTypeOK, PlacesOK, IoLocked, FeederStops, Working,
     PlayerTasks
<1>25. CASE StopReturns
  BY <1>25 DEF StopReturns, To, transportState, PlayerInv, PlayerTypeOK, PlacesOK, FeederStops,
     Working, PlayerTasks
<1>26. CASE MHIPause
  BY <1>26 DEF MHIPause, To, PlayerInv, PlayerTypeOK, PlacesOK, Sessioned, FeederStops, Working,
     PlayerTasks
<1>27. CASE PauseUnbind
  BY <1>27 DEF PauseUnbind, To, Unbind, transportState, PlayerInv, PlayerTypeOK, PlacesOK,
     IoLocked, FeederStops, Working, PlayerTasks
<1>28. CASE MHIFreeDecoder
  BY <1>28 DEF MHIFreeDecoder, To, PlayerInv, PlayerTypeOK, PlacesOK, FeederStops, PlayerTasks
<1>29. CASE FreeDecoderClose
  BY <1>29 DEF FreeDecoderClose, To, PlayerInv, PlayerTypeOK, PlacesOK, FeederStops, Working,
     PlayerTasks, FeederLocked
<1>30. CASE FwDecode
  BY <1>30 DEF FwDecode, transportState, PlayerInv, PlayerTypeOK, PlacesOK, FeederStops, Working,
     PlayerTasks
<1>31. CASE FwLate
  BY <1>31 DEF FwLate, transportState, list, streamState, feeder, app, PlayerInv,
     PlayerTypeOK, PlacesOK, FeederStops, Working, PlayerTasks
<1> QED BY <1>1, <1>2, <1>3, <1>4, <1>5, <1>6, <1>7, <1>8, <1>9, <1>10, <1>11, <1>12, <1>13,
       <1>14, <1>15, <1>16, <1>17, <1>18, <1>19, <1>20, <1>21, <1>22, <1>23, <1>24, <1>25, <1>26,
       <1>27, <1>28, <1>29, <1>30, <1>31 DEF PlayerNext

\* Every bind that a Stop or Pause came before is undone.
LEMMA UnboundKept ==
  ASSUME PlayerInv, PlayerNext
  PROVE  Unbound'
<1>0. /\ Known' \in {0, Known, stream}
      /\ CloseStream \/ PauseUnbind => Known' = 0
  BY OutputMoves
<1>1. CASE FeederTop
  BY <1>1 DEF FeederTop, To, transportState, streamState, cardState, output, Known, PlayerInv,
     PlayerTypeOK, PlacesOK, Unbound, PlayerTasks
<1>2. CASE Scan
  BY <1>2 DEF Scan, To, transportState, streamState, cardState, output, Known, PlayerInv,
     PlayerTypeOK, PlacesOK, Unbound, PlayerTasks
<1>3. CASE Feed
  BY <1>3 DEF Feed, To, output, Known, transportState, PlayerInv, PlayerTypeOK, PlacesOK, Unbound,
     PlayerTasks
<1>4. CASE Accepted
  BY <1>4 DEF Accepted, To, transportState, cardState, output, Known, PlayerInv, PlayerTypeOK,
     PlacesOK, Unbound, PlayerTasks
<1>5. CASE TryBind
  BY <1>5 DEF TryBind, To, transportState, streamState, cardState, output, Known, PlayerInv,
     PlayerTypeOK, PlacesOK, Unbound, PlayerTasks
<1>6. CASE Bind
  BY <1>6, <1>0 DEF Bind, To, streamState, PlayerInv, PlayerTypeOK, PlacesOK, FeederStops, Unbound,
     Working, PlayerTasks, FeederLocked
<1>7. CASE DrainProbe
  BY <1>7, <1>0 DEF DrainProbe, To, transportState, output, Known, PlayerInv, PlayerTypeOK,
     PlacesOK, Unbound, PlayerTasks
<1>8. CASE DrainFailed
  BY <1>8, ProbeKnown DEF DrainFailed, To, streamState, PlayerInv, PlayerTypeOK, PlacesOK, Unbound,
     PlayerTasks
<1>9. CASE DrainAnswered
  BY <1>9 DEF DrainAnswered, To, cardState, output, Known, PlayerInv, PlayerTypeOK, PlacesOK,
     Unbound, PlayerTasks
<1>10. CASE FeederPace
  BY <1>10 DEF FeederPace, To, transportState, streamState, cardState, output, Known, PlayerInv,
     PlayerTypeOK, PlacesOK, Unbound, PlayerTasks
<1>11. CASE FeederWake
  BY <1>11 DEF FeederWake, To, transportState, streamState, cardState, output, Known, PlayerInv,
     PlayerTypeOK, PlacesOK, Unbound, PlayerTasks
<1>12. ASSUME NEW b \in Bufs, MHIQueueBuffer(b) PROVE Unbound'
  BY <1>12 DEF MHIQueueBuffer, QueueWake, cardState, output, Known, PlayerInv, Unbound
<1>13. CASE MHIGetEmpty
  BY <1>13 DEF MHIGetEmpty, transportState, streamState, cardState, output, Known, PlayerInv,
     Unbound
<1>14. CASE EndOfStream
  BY <1>14, <1>0 DEF EndOfStream, cardState, output, Known, PlayerInv, Unbound
<1>15. CASE MHIPlay
  BY <1>15 DEF MHIPlay, transportState, streamState, cardState, output, Known, PlayerInv, Unbound
<1>16. CASE PlayOpen
  BY <1>16 DEF PlayOpen, To, streamState, cardState, output, Known, PlayerInv, PlayerTypeOK,
     PlacesOK, Unbound, PlayerTasks
<1>17. CASE PlayOpened
  BY <1>17 DEF PlayOpened, To, transportState, streamState, cardState, output, Known, PlayerInv,
     PlayerTypeOK, PlacesOK, Unbound, PlayerTasks
<1>18. CASE PlayPublish
  BY <1>18, <1>0 DEF PlayPublish, To, Unlock, streamState, output, Known, PlayerInv, PlayerTypeOK,
     PlacesOK, Unbound, Contested, PlayerTasks
<1>19. CASE PlayRearm
  BY <1>19 DEF PlayRearm, streamState, cardState, output, Known, PlayerInv, Unbound
<1>20. CASE PlayResume
  BY <1>20 DEF PlayResume, To, transportState, streamState, cardState, output, Known, PlayerInv,
     PlayerTypeOK, PlacesOK, Unbound, PlayerTasks
<1>21. CASE PlayRebind
  BY <1>21, RebindKnown DEF PlayRebind, To, transportState, streamState, PlayerInv, PlayerTypeOK,
     PlacesOK, Unbound, PlayerTasks
<1>22. CASE PlayRebound
  BY <1>22 DEF PlayRebound, To, Unlock, streamState, cardState, output, Known, PlayerInv,
     PlayerTypeOK, PlacesOK, Unbound, Resuming, PlayerTasks
<1>23. CASE MHIStop
  BY <1>23 DEF MHIStop, To, cardState, output, Known, PlayerInv, PlayerTypeOK, PlacesOK, Unbound,
     PlayerTasks
<1>24. CASE StopClose
  BY <1>24, <1>0 DEF StopClose, To, CloseStream, PlayerInv, PlayerTypeOK, PlacesOK, Sessioned,
     Unbound, PlayerTasks
<1>25. CASE StopReturns
  BY <1>25 DEF StopReturns, To, transportState, streamState, cardState, output, Known, PlayerInv,
     PlayerTypeOK, PlacesOK, Unbound, PlayerTasks
<1>26. CASE MHIPause
  BY <1>26 DEF MHIPause, To, streamState, cardState, output, Known, PlayerInv, PlayerTypeOK,
     PlacesOK, Sessioned, Unbound, PlayerTasks
<1>27. CASE PauseUnbind
  BY <1>27, <1>0 DEF PauseUnbind, To, Unbind, transportState, streamState, PlayerInv, PlayerTypeOK,
     PlacesOK, Sessioned, Unbound, PlayerTasks
<1>28. CASE MHIFreeDecoder
  BY <1>28 DEF MHIFreeDecoder, To, streamState, cardState, output, Known, PlayerInv, PlayerTypeOK,
     PlacesOK, Unbound, PlayerTasks
<1>29. CASE FreeDecoderClose
  BY <1>29, <1>0 DEF FreeDecoderClose, To, CloseStream, PlayerInv, PlayerTypeOK, PlacesOK,
     Sessioned, Unbound, PlayerTasks
<1>30. CASE FwDecode
  BY <1>30 DEF FwDecode, output, Known, transportState, streamState, PlayerInv, Unbound
<1>31. CASE FwLate
  BY <1>31, LateKnown DEF FwLate, transportState, list, streamState, feeder, app, PlayerInv,
     PlayerTypeOK, Unbound
<1> QED BY <1>1, <1>2, <1>3, <1>4, <1>5, <1>6, <1>7, <1>8, <1>9, <1>10, <1>11, <1>12, <1>13,
       <1>14, <1>15, <1>16, <1>17, <1>18, <1>19, <1>20, <1>21, <1>22, <1>23, <1>24, <1>25, <1>26,
       <1>27, <1>28, <1>29, <1>30, <1>31 DEF PlayerNext

\* A resume meets a Stop at most.
LEMMA ResumingKept ==
  ASSUME PlayerInv, PlayerNext
  PROVE  Resuming'
<1>1. CASE FeederTop
  BY <1>1 DEF FeederTop, To, transportState, PlayerInv, PlayerTypeOK, PlacesOK, Resuming,
     PlayerTasks
<1>2. CASE Scan
  BY <1>2 DEF Scan, To, transportState, PlayerInv, PlayerTypeOK, PlacesOK, Resuming, PlayerTasks
<1>3. CASE Feed
  BY <1>3 DEF Feed, To, transportState, PlayerInv, PlayerTypeOK, PlacesOK, Resuming, PlayerTasks
<1>4. CASE Accepted
  BY <1>4 DEF Accepted, To, transportState, PlayerInv, PlayerTypeOK, PlacesOK, Resuming,
     PlayerTasks
<1>5. CASE TryBind
  BY <1>5 DEF TryBind, To, transportState, PlayerInv, PlayerTypeOK, PlacesOK, Resuming,
     PlayerTasks
<1>6. CASE Bind
  BY <1>6 DEF Bind, To, PlayerInv, PlayerTypeOK, PlacesOK, Resuming, PlayerTasks
<1>7. CASE DrainProbe
  BY <1>7 DEF DrainProbe, To, transportState, PlayerInv, PlayerTypeOK, PlacesOK, Resuming,
     PlayerTasks
<1>8. CASE DrainFailed
  BY <1>8 DEF DrainFailed, To, PlayerInv, PlayerTypeOK, PlacesOK, Resuming, PlayerTasks
<1>9. CASE DrainAnswered
  BY <1>9 DEF DrainAnswered, To, PlayerInv, PlayerTypeOK, PlacesOK, Resuming, PlayerTasks
<1>10. CASE FeederPace
  BY <1>10 DEF FeederPace, To, transportState, PlayerInv, PlayerTypeOK, PlacesOK, Resuming,
     PlayerTasks
<1>11. CASE FeederWake
  BY <1>11 DEF FeederWake, To, transportState, PlayerInv, PlayerTypeOK, PlacesOK, Resuming,
     PlayerTasks
<1>12. ASSUME NEW b \in Bufs, MHIQueueBuffer(b) PROVE Resuming'
  BY <1>12 DEF MHIQueueBuffer, QueueWake, PlayerInv, Resuming
<1>13. CASE MHIGetEmpty
  BY <1>13 DEF MHIGetEmpty, transportState, PlayerInv, Resuming
<1>14. CASE EndOfStream
  BY <1>14 DEF EndOfStream, PlayerInv, Resuming
<1>15. CASE MHIPlay
  BY <1>15 DEF MHIPlay, To, transportState, PlayerInv, PlayerTypeOK, PlacesOK, Resuming,
     PlayerTasks
<1>16. CASE PlayOpen
  BY <1>16 DEF PlayOpen, To, PlayerInv, PlayerTypeOK, PlacesOK, Resuming, PlayerTasks
<1>17. CASE PlayOpened
  BY <1>17 DEF PlayOpened, To, transportState, PlayerInv, PlayerTypeOK, PlacesOK, Resuming,
     PlayerTasks
<1>18. CASE PlayPublish
  BY <1>18 DEF PlayPublish, To, PlayerInv, PlayerTypeOK, PlacesOK, Resuming, PlayerTasks
<1>19. CASE PlayRearm
  BY <1>19 DEF PlayRearm, To, PlayerInv, PlayerTypeOK, PlacesOK, Resuming, PlayerTasks
<1>20. CASE PlayResume
  BY <1>20 DEF PlayResume, To, transportState, PlayerInv, PlayerTypeOK, PlacesOK, Resuming,
     PlayerTasks
<1>21. CASE PlayRebind
  BY <1>21 DEF PlayRebind, To, transportState, PlayerInv, PlayerTypeOK, PlacesOK, Resuming,
     PlayerTasks
<1>22. CASE PlayRebound
  BY <1>22 DEF PlayRebound, To, PlayerInv, PlayerTypeOK, PlacesOK, Resuming, PlayerTasks
<1>23. CASE MHIStop
  BY <1>23 DEF MHIStop, To, PlayerInv, PlayerTypeOK, PlacesOK, Resuming, PlayerTasks
<1>24. CASE StopClose
  BY <1>24 DEF StopClose, To, PlayerInv, PlayerTypeOK, PlacesOK, IoLocked, Resuming, PlayerTasks,
     PlayerLocked
<1>25. CASE StopReturns
  BY <1>25 DEF StopReturns, To, transportState, PlayerInv, PlayerTypeOK, PlacesOK, Resuming,
     PlayerTasks
<1>26. CASE MHIPause
  BY <1>26 DEF MHIPause, To, PlayerInv, PlayerTypeOK, PlacesOK, Resuming, PlayerTasks
<1>27. CASE PauseUnbind
  BY <1>27 DEF PauseUnbind, To, Unbind, transportState, PlayerInv, PlayerTypeOK, PlacesOK,
     Resuming, PlayerTasks
<1>28. CASE MHIFreeDecoder
  BY <1>28 DEF MHIFreeDecoder, To, PlayerInv, PlayerTypeOK, PlacesOK, Resuming, PlayerTasks
<1>29. CASE FreeDecoderClose
  BY <1>29 DEF FreeDecoderClose, To, PlayerInv, PlayerTypeOK, PlacesOK, Resuming, PlayerTasks
<1>30. CASE FwDecode
  BY <1>30 DEF FwDecode, transportState, PlayerInv, Resuming
<1>31. CASE FwLate
  BY <1>31 DEF FwLate, transportState, list, streamState, feeder, app, PlayerInv, Resuming
<1> QED BY <1>1, <1>2, <1>3, <1>4, <1>5, <1>6, <1>7, <1>8, <1>9, <1>10, <1>11, <1>12, <1>13,
       <1>14, <1>15, <1>16, <1>17, <1>18, <1>19, <1>20, <1>21, <1>22, <1>23, <1>24, <1>25, <1>26,
       <1>27, <1>28, <1>29, <1>30, <1>31 DEF PlayerNext

\* The queue stays empty until a Stop is over, and FreeDecoder has no company.
LEMMA ClosingKept ==
  ASSUME PlayerInv, PlayerNext
  PROVE  Closing'
<1>1. CASE FeederTop
  BY <1>1 DEF FeederTop, To, transportState, list, app, PlayerInv, PlayerTypeOK, PlacesOK,
     Closing, PlayerTasks
<1>2. CASE Scan
  BY <1>2 DEF Scan, To, transportState, app, PlayerInv, PlayerTypeOK, PlacesOK, Closing,
     PlayerTasks
<1>3. CASE Feed
  <2>1. queue = << >> => queue' = << >>
    <3>1. eaten \in Nat /\ (UNCHANGED queue \/ queue' = Complete(queue, eaten, FALSE))
      BY <1>3 DEF Feed, PlayerInv, PlayerTypeOK, CountsOK
    <3> QED BY <3>1, Consumed DEF PlayerInv
  <2>2. /\ place'["control"] = place["control"] /\ place'["player"] = place["player"]
        /\ UNCHANGED <<status, quit, dropped, revived>>
    BY <1>3 DEF Feed, To, transportState, feeder, app, PlayerInv, PlayerTypeOK, PlacesOK,
       PlayerTasks
  <2> QED BY <2>1, <2>2 DEF PlayerInv, Closing
<1>4. CASE Accepted
  <2>1. queue = << >> => queue' = << >>
    <3>1. CASE fed' = fed + 1 /\ queue' = Complete(HandOver(fed'), res.eaten, FALSE)
      <4>1. fed' \in Nat /\ res.eaten \in Nat
        BY <3>1 DEF PlayerInv, PlayerTypeOK, CountsOK, ChunkOK
      <4> QED BY <3>1, <4>1, HandedOver DEF PlayerInv
    <3> QED BY <1>4, <3>1 DEF Accepted
  <2>2. /\ place'["control"] = place["control"] /\ place'["player"] = place["player"]
        /\ UNCHANGED <<status, quit, dropped, revived>>
    BY <1>4 DEF Accepted, To, transportState, app, PlayerInv, PlayerTypeOK, PlacesOK, PlayerTasks
  <2> QED BY <2>1, <2>2 DEF PlayerInv, Closing
<1>5. CASE TryBind
  BY <1>5 DEF TryBind, To, transportState, list, feeder, app, PlayerInv, PlayerTypeOK, PlacesOK,
     Closing, PlayerTasks
<1>6. CASE Bind
  BY <1>6 DEF Bind, To, list, feeder, app, PlayerInv, PlayerTypeOK, PlacesOK, Closing, PlayerTasks
<1>7. CASE DrainProbe
  BY <1>7 DEF DrainProbe, To, transportState, list, feeder, app, PlayerInv, PlayerTypeOK,
     PlacesOK, Closing, PlayerTasks
<1>8. CASE DrainFailed
  BY <1>8 DEF DrainFailed, To, list, app, PlayerInv, PlayerTypeOK, PlacesOK, Closing, PlayerTasks
<1>9. CASE DrainAnswered
  <2>1. queue = << >> => queue' = << >>
    <3>1. res.eaten \in Nat /\ \E all \in BOOLEAN : queue' = Complete(queue, res.eaten, all)
      BY <1>9 DEF DrainAnswered, PlayerInv, PlayerTypeOK, ChunkOK
    <3> QED BY <3>1, Consumed DEF PlayerInv
  <2>2. /\ place'["control"] = place["control"] /\ place'["player"] = place["player"]
        /\ status' = status \/ status = "PLAYING"
        /\ UNCHANGED <<quit, dropped, revived>>
    BY <1>9 DEF DrainAnswered, To, app, PlayerInv, PlayerTypeOK, PlacesOK, PlayerTasks
  <2> QED BY <2>1, <2>2 DEF PlayerInv, Closing
<1>10. CASE FeederPace
  BY <1>10 DEF FeederPace, To, transportState, list, app, PlayerInv, PlayerTypeOK, PlacesOK,
     Closing, PlayerTasks
<1>11. CASE FeederWake
  BY <1>11 DEF FeederWake, To, transportState, list, feeder, app, PlayerInv, PlayerTypeOK,
     PlacesOK, Closing, PlayerTasks
<1>12. ASSUME NEW b \in Bufs, MHIQueueBuffer(b) PROVE Closing'
  BY <1>12 DEF MHIQueueBuffer, QueueWake, Alive, feeder, PlayerInv, PlayerTypeOK, PlacesOK,
     Closing, PlayerTasks, Draining
<1>13. CASE MHIGetEmpty
  BY <1>13 DEF MHIGetEmpty, Alive, transportState, feeder, PlayerInv, Closing
<1>14. CASE EndOfStream
  <2>1. queue = << >> => queue' = << >>
    <3>1. eaten \in Nat /\ queue' = Complete(queue, eaten, FALSE)
      BY <1>14 DEF EndOfStream, PlayerInv, PlayerTypeOK, CountsOK
    <3> QED BY <3>1, Consumed DEF PlayerInv
  <2>2. /\ status # "STOPPED" /\ UNCHANGED <<quit, dropped, revived, place>>
    BY <1>14 DEF EndOfStream, feeder, app
  <2> QED BY <2>1, <2>2 DEF PlayerInv, Closing
<1>15. CASE MHIPlay
  BY <1>15 DEF MHIPlay, To, Alive, transportState, list, feeder, app, PlayerInv, PlayerTypeOK,
     PlacesOK, Closing, PlayerTasks
<1>16. CASE PlayOpen
  BY <1>16 DEF PlayOpen, To, list, feeder, app, PlayerInv, PlayerTypeOK, PlacesOK, Closing,
     PlayerTasks
<1>17. CASE PlayOpened
  BY <1>17 DEF PlayOpened, To, transportState, list, feeder, app, PlayerInv, PlayerTypeOK,
     PlacesOK, Closing, PlayerTasks
<1>18. CASE PlayPublish
  BY <1>18 DEF PlayPublish, To, Unlock, list, feeder, app, PlayerInv, PlayerTypeOK, PlacesOK,
     Closing, PlayerTasks
<1>19. CASE PlayRearm
  BY <1>19 DEF PlayRearm, To, list, feeder, app, PlayerInv, PlayerTypeOK, PlacesOK, Closing,
     PlayerTasks
<1>20. CASE PlayResume
  BY <1>20 DEF PlayResume, To, transportState, list, feeder, app, PlayerInv, PlayerTypeOK,
     PlacesOK, Closing, PlayerTasks
<1>21. CASE PlayRebind
  BY <1>21 DEF PlayRebind, To, transportState, list, feeder, app, PlayerInv, PlayerTypeOK,
     PlacesOK, Closing, PlayerTasks
<1>22. CASE PlayRebound
  BY <1>22 DEF PlayRebound, To, list, feeder, app, PlayerInv, PlayerTypeOK, PlacesOK, Closing,
     PlayerTasks
<1>23. CASE MHIStop
  BY <1>23 DEF MHIStop, To, DrainList, Alive, feeder, PlayerInv, PlayerTypeOK, PlacesOK, Closing,
     PlayerTasks, Draining
<1>24. CASE StopClose
  BY <1>24 DEF StopClose, To, list, feeder, app, PlayerInv, PlayerTypeOK, PlacesOK, Closing,
     PlayerTasks, Draining
<1>25. CASE StopReturns
  BY <1>25 DEF StopReturns, To, transportState, list, feeder, PlayerInv, PlayerTypeOK, PlacesOK,
     Closing, PlayerTasks, Draining
<1>26. CASE MHIPause
  BY <1>26 DEF MHIPause, To, Alive, list, feeder, app, PlayerInv, PlayerTypeOK, PlacesOK, Closing,
     PlayerTasks, Draining
<1>27. CASE PauseUnbind
  BY <1>27 DEF PauseUnbind, To, Unbind, transportState, list, feeder, app, PlayerInv,
     PlayerTypeOK, PlacesOK, Closing, PlayerTasks, Draining
<1>28. CASE MHIFreeDecoder
  BY <1>28 DEF MHIFreeDecoder, To, DrainList, Alive, PlayerInv, PlayerTypeOK, PlacesOK, Closing,
     PlayerTasks, Draining
<1>29. CASE FreeDecoderClose
  BY <1>29 DEF FreeDecoderClose, To, list, feeder, PlayerInv, PlayerTypeOK, PlacesOK, Closing,
     PlayerTasks, Draining
<1>30. CASE FwDecode
  BY <1>30 DEF FwDecode, transportState, list, feeder, app, PlayerInv, Closing
<1>31. CASE FwLate
  BY <1>31 DEF FwLate, transportState, list, streamState, feeder, app, PlayerInv, Closing
<1> QED BY <1>1, <1>2, <1>3, <1>4, <1>5, <1>6, <1>7, <1>8, <1>9, <1>10, <1>11, <1>12, <1>13,
       <1>14, <1>15, <1>16, <1>17, <1>18, <1>19, <1>20, <1>21, <1>22, <1>23, <1>24, <1>25, <1>26,
       <1>27, <1>28, <1>29, <1>30, <1>31 DEF PlayerNext

\* The card's cursors.
LEMMA CountedKept ==
  ASSUME PlayerInv, PlayerNext
  PROVE  Counted'
<1>1. CASE FeederTop
  BY <1>1 DEF FeederTop, To, streamState, cardState, output, PlayerInv, PlayerTypeOK, PlacesOK,
     Counted, PlayerTasks
<1>2. CASE Scan
  BY <1>2 DEF Scan, To, streamState, cardState, output, PlayerInv, PlayerTypeOK, PlacesOK, Counted,
     PlayerTasks
<1>3. CASE Feed
  <2>1. /\ place["feeder"] = "copy" /\ place'["feeder"] \in {"accepted", "bind"}
        /\ UNCHANGED <<fed, eaten>>
        /\ \/ taken' = taken + 1 /\ res' = [res EXCEPT !.eaten = eaten]
           \/ place'["feeder"] = "bind" /\ taken' = taken /\ res' = [res EXCEPT !.eaten = eaten]
           \/ place'["feeder"] = "bind" /\ taken' = taken /\ res' = res
    BY <1>3 DEF Feed, To, PlayerInv, PlayerTypeOK, PlacesOK, PlayerTasks
  <2>2. [res EXCEPT !.eaten = eaten].eaten = eaten
    BY DEF PlayerInv, PlayerTypeOK, ChunkOK
  <2>3. res'.eaten \in {res.eaten, eaten}
    BY <2>1, <2>2
  <2>4. fed \in Nat /\ taken \in Nat /\ eaten \in Nat /\ res.eaten \in Nat
    BY DEF PlayerInv, PlayerTypeOK, CountsOK, ChunkOK
  <2> QED BY <2>1, <2>3, <2>4 DEF PlayerInv, Counted
<1>4. CASE Accepted
  <2>1. /\ place["feeder"] = "accepted" /\ place'["feeder"] \in {"scan", "bind"}
        /\ UNCHANGED <<taken, eaten, res>> /\ (fed' = fed + 1 \/ fed' = fed)
    BY <1>4 DEF Accepted, To, cardState, output, PlayerInv, PlayerTypeOK, PlacesOK, PlayerTasks
  <2>2. fed \in Nat /\ taken \in Nat
    BY DEF PlayerInv, PlayerTypeOK, CountsOK
  <2> QED BY <2>1, <2>2 DEF PlayerInv, Counted
<1>5. CASE TryBind
  BY <1>5 DEF TryBind, To, streamState, cardState, output, PlayerInv, PlayerTypeOK, PlacesOK,
     Counted, PlayerTasks
<1>6. CASE Bind
  BY <1>6 DEF Bind, To, streamState, PlayerInv, PlayerTypeOK, PlacesOK, Counted, PlayerTasks
<1>7. CASE DrainProbe
  <2>1. /\ place'["feeder"] \in {"probed", "pace"} /\ UNCHANGED <<fed, taken, eaten>>
        /\ \/ res' = [st |-> "ok", eaten |-> eaten, drained |-> drainAsked /\ eaten = taken]
           \/ \E e \in {"busy", "failed"} : res' = [res EXCEPT !.st = e]
           \/ place'["feeder"] = "pace" /\ res' = res
    BY <1>7 DEF DrainProbe, To, PlayerInv, PlayerTypeOK, PlacesOK, PlayerTasks
  <2>2. CASE res' = [st |-> "ok", eaten |-> eaten, drained |-> drainAsked /\ eaten = taken]
    <3>1. res'.eaten = eaten /\ (res'.drained => eaten = taken)
      BY <2>2
    <3> QED BY <2>1, <3>1 DEF PlayerInv, PlayerTypeOK, CountsOK, Counted
  <2>3. CASE \E e \in {"busy", "failed"} : res' = [res EXCEPT !.st = e]
    <3>1. res'.eaten = res.eaten /\ res'.st # "ok"
      BY <2>3 DEF PlayerInv, PlayerTypeOK, ChunkOK
    <3> QED BY <2>1, <3>1 DEF PlayerInv, Counted
  <2>4. CASE place'["feeder"] = "pace" /\ res' = res
    BY <2>1, <2>4 DEF PlayerInv, Counted
  <2> QED BY <2>1, <2>2, <2>3, <2>4
<1>8. CASE DrainFailed
  BY <1>8 DEF DrainFailed, To, streamState, PlayerInv, PlayerTypeOK, PlacesOK, Counted,
     PlayerTasks
<1>9. CASE DrainAnswered
  BY <1>9 DEF DrainAnswered, To, cardState, output, PlayerInv, PlayerTypeOK, PlacesOK, Counted,
     PlayerTasks
<1>10. CASE FeederPace
  <2>1. res'.eaten = 0 /\ ~res'.drained /\ UNCHANGED <<fed, taken, eaten>>
    BY <1>10 DEF FeederPace, NoAnswer, streamState, cardState, output
  <2>2. place'["feeder"] \notin {"accepted", "probed"}
    BY <1>10 DEF FeederPace, To, PlayerInv, PlayerTypeOK, PlacesOK, PlayerTasks
  <2> QED BY <2>1, <2>2 DEF PlayerInv, PlayerTypeOK, CountsOK, Counted
<1>11. CASE FeederWake
  BY <1>11 DEF FeederWake, To, streamState, cardState, output, PlayerInv, PlayerTypeOK, PlacesOK,
     Counted, PlayerTasks
<1>12. ASSUME NEW b \in Bufs, MHIQueueBuffer(b) PROVE Counted'
  BY <1>12 DEF MHIQueueBuffer, QueueWake, cardState, output, PlayerInv, Counted
<1>13. CASE MHIGetEmpty
  BY <1>13 DEF MHIGetEmpty, streamState, cardState, output, PlayerInv, Counted
<1>14. CASE EndOfStream
  BY <1>14 DEF EndOfStream, cardState, output, PlayerInv, Counted
<1>15. CASE MHIPlay
  BY <1>15 DEF MHIPlay, To, streamState, cardState, output, PlayerInv, PlayerTypeOK, PlacesOK,
     Counted, PlayerTasks
<1>16. CASE PlayOpen
  BY <1>16 DEF PlayOpen, To, streamState, cardState, output, PlayerInv, PlayerTypeOK, PlacesOK,
     Counted, PlayerTasks
<1>17. CASE PlayOpened
  BY <1>17 DEF PlayOpened, To, Unlock, NoAnswer, streamState, cardState, output, PlayerInv,
     PlayerTypeOK, PlacesOK, IoLocked, Counted, PlayerTasks, FeederLocked, PlayerLocked
<1>18. CASE PlayPublish
  <2>1. place["feeder"] \notin {"accepted", "probed"} /\ place'["feeder"] = place["feeder"]
    BY <1>18 DEF PlayPublish, To, PlayerInv, PlayerTypeOK, PlacesOK, IoLocked, PlayerTasks,
       FeederLocked, PlayerLocked
  <2>2. fed' \in {fed, 0} /\ UNCHANGED <<taken, eaten, res>>
    BY <1>18 DEF PlayPublish, CloseStream, streamState
  <2> QED BY <2>1, <2>2 DEF PlayerInv, PlayerTypeOK, CountsOK, Counted
<1>19. CASE PlayRearm
  BY <1>19 DEF PlayRearm, To, streamState, cardState, output, PlayerInv, PlayerTypeOK, PlacesOK,
     Counted, PlayerTasks
<1>20. CASE PlayResume
  BY <1>20 DEF PlayResume, To, streamState, cardState, output, PlayerInv, PlayerTypeOK, PlacesOK,
     Counted, PlayerTasks
<1>21. CASE PlayRebind
  BY <1>21 DEF PlayRebind, To, streamState, PlayerInv, PlayerTypeOK, PlacesOK, Counted,
     PlayerTasks
<1>22. CASE PlayRebound
  BY <1>22 DEF PlayRebound, To, streamState, cardState, output, PlayerInv, PlayerTypeOK, PlacesOK,
     Counted, PlayerTasks
<1>23. CASE MHIStop
  BY <1>23 DEF MHIStop, To, cardState, output, PlayerInv, PlayerTypeOK, PlacesOK, Counted,
     PlayerTasks
<1>24. CASE StopClose
  <2>1. place["feeder"] \notin {"accepted", "probed"} /\ place'["feeder"] = place["feeder"]
    BY <1>24 DEF StopClose, To, PlayerInv, PlayerTypeOK, PlacesOK, IoLocked, PlayerTasks,
       FeederLocked
  <2>2. fed' \in {fed, 0} /\ UNCHANGED <<taken, eaten, res>>
    BY <1>24 DEF StopClose, CloseStream
  <2> QED BY <2>1, <2>2 DEF PlayerInv, PlayerTypeOK, CountsOK, Counted
<1>25. CASE StopReturns
  BY <1>25 DEF StopReturns, To, streamState, cardState, output, PlayerInv, PlayerTypeOK, PlacesOK,
     Counted, PlayerTasks
<1>26. CASE MHIPause
  BY <1>26 DEF MHIPause, To, streamState, cardState, output, PlayerInv, PlayerTypeOK, PlacesOK,
     Counted, PlayerTasks
<1>27. CASE PauseUnbind
  BY <1>27 DEF PauseUnbind, To, Unbind, streamState, PlayerInv, PlayerTypeOK, PlacesOK, Counted,
     PlayerTasks
<1>28. CASE MHIFreeDecoder
  BY <1>28 DEF MHIFreeDecoder, To, streamState, cardState, output, PlayerInv, PlayerTypeOK,
     PlacesOK, Counted, PlayerTasks
<1>29. CASE FreeDecoderClose
  <2>1. place["feeder"] = "gone" /\ place'["feeder"] = place["feeder"]
    BY <1>29 DEF FreeDecoderClose, To, PlayerInv, PlayerTypeOK, PlacesOK, PlayerTasks
  <2>2. fed' \in {fed, 0} /\ UNCHANGED <<taken, eaten, res>>
    BY <1>29 DEF FreeDecoderClose, CloseStream
  <2> QED BY <2>1, <2>2 DEF PlayerInv, PlayerTypeOK, CountsOK, Counted
<1>30. CASE FwDecode
  <2>1. eaten < taken /\ eaten' = eaten + 1 /\ UNCHANGED <<fed, taken, res, place>>
    BY <1>30 DEF FwDecode, streamState
  <2>2. fed \in Nat /\ taken \in Nat /\ eaten \in Nat /\ res.eaten \in Nat
    BY DEF PlayerInv, PlayerTypeOK, CountsOK, ChunkOK
  <2> QED BY <2>1, <2>2 DEF PlayerInv, Counted
<1>31. CASE FwLate
  BY <1>31 DEF FwLate, transportState, list, streamState, feeder, app, PlayerInv,
     PlayerTypeOK, CountsOK, ChunkOK, Counted
<1> QED BY <1>1, <1>2, <1>3, <1>4, <1>5, <1>6, <1>7, <1>8, <1>9, <1>10, <1>11, <1>12, <1>13,
       <1>14, <1>15, <1>16, <1>17, <1>18, <1>19, <1>20, <1>21, <1>22, <1>23, <1>24, <1>25, <1>26,
       <1>27, <1>28, <1>29, <1>30, <1>31 DEF PlayerNext

\* Whoever gives a sleeping feeder something to do tells it.
LEMMA ToldKept ==
  ASSUME PlayerInv, PlayerNext
  PROVE  Told'
<1>1. CASE FeederTop
  BY <1>1 DEF FeederTop, To, transportState, list, streamState, PlayerInv, PlayerTypeOK, PlacesOK,
     Told, PlayerTasks
<1>2. CASE Scan
  BY <1>2 DEF Scan, To, transportState, streamState, PlayerInv, PlayerTypeOK, PlacesOK, Told,
     PlayerTasks
<1>3. CASE Feed
  BY <1>3 DEF Feed, To, transportState, PlayerInv, PlayerTypeOK, PlacesOK, Told, PlayerTasks
<1>4. CASE Accepted
  BY <1>4 DEF Accepted, To, transportState, PlayerInv, PlayerTypeOK, PlacesOK, Told, PlayerTasks
<1>5. CASE TryBind
  BY <1>5 DEF TryBind, To, transportState, list, streamState, PlayerInv, PlayerTypeOK, PlacesOK,
     Told, PlayerTasks
<1>6. CASE Bind
  BY <1>6 DEF Bind, To, list, streamState, PlayerInv, PlayerTypeOK, PlacesOK, Told, PlayerTasks
<1>7. CASE DrainProbe
  BY <1>7 DEF DrainProbe, To, transportState, list, PlayerInv, PlayerTypeOK, PlacesOK, Told,
     PlayerTasks
<1>8. CASE DrainFailed
  BY <1>8 DEF DrainFailed, To, list, streamState, PlayerInv, PlayerTypeOK, PlacesOK, Told,
     PlayerTasks
<1>9. CASE DrainAnswered
  BY <1>9 DEF DrainAnswered, To, PlayerInv, PlayerTypeOK, PlacesOK, Told, PlayerTasks
<1>10. CASE FeederPace
  BY <1>10 DEF FeederPace, To, transportState, list, streamState, PlayerInv, PlayerTypeOK,
     PlacesOK, Told, PlayerTasks
<1>11. CASE FeederWake
  BY <1>11 DEF FeederWake, To, transportState, list, streamState, PlayerInv, PlayerTypeOK,
     PlacesOK, Told, PlayerTasks
<1>12. ASSUME NEW b \in Bufs, MHIQueueBuffer(b) PROVE Told'
  BY <1>12 DEF MHIQueueBuffer, QueueWake, PlayerInv, Told
<1>13. CASE MHIGetEmpty
  BY <1>13 DEF MHIGetEmpty, transportState, streamState, PlayerInv, Told
<1>14. CASE EndOfStream
  BY <1>14 DEF EndOfStream, PlayerInv, Told
<1>15. CASE MHIPlay
  BY <1>15 DEF MHIPlay, transportState, list, streamState, PlayerInv, Told
<1>16. CASE PlayOpen
  BY <1>16 DEF PlayOpen, To, list, streamState, PlayerInv, PlayerTypeOK, PlacesOK, Told,
     PlayerTasks
<1>17. CASE PlayOpened
  BY <1>17 DEF PlayOpened, To, transportState, list, streamState, PlayerInv, PlayerTypeOK,
     PlacesOK, Told, PlayerTasks
<1>18. CASE PlayPublish
  BY <1>18 DEF PlayPublish, CloseStream, list, streamState, PlayerInv, Told
<1>19. CASE PlayRearm
  BY <1>19 DEF PlayRearm, list, streamState, PlayerInv, Told
<1>20. CASE PlayResume
  BY <1>20 DEF PlayResume, To, transportState, list, streamState, PlayerInv, PlayerTypeOK,
     PlacesOK, Told, PlayerTasks
<1>21. CASE PlayRebind
  BY <1>21 DEF PlayRebind, To, transportState, list, streamState, PlayerInv, PlayerTypeOK,
     PlacesOK, Told, PlayerTasks
<1>22. CASE PlayRebound
  BY <1>22 DEF PlayRebound, To, list, streamState, PlayerInv, PlayerTypeOK, PlacesOK, Told,
     PlayerTasks
<1>23. CASE MHIStop
  BY <1>23 DEF MHIStop, DrainList, PlayerInv, Told
<1>24. CASE StopClose
  BY <1>24 DEF StopClose, CloseStream, list, PlayerInv, Told
<1>25. CASE StopReturns
  BY <1>25 DEF StopReturns, To, transportState, list, streamState, PlayerInv, PlayerTypeOK,
     PlacesOK, Told, PlayerTasks
<1>26. CASE MHIPause
  BY <1>26 DEF MHIPause, list, streamState, PlayerInv, Told
<1>27. CASE PauseUnbind
  BY <1>27 DEF PauseUnbind, To, Unbind, transportState, list, streamState, PlayerInv,
     PlayerTypeOK, PlacesOK, Told, PlayerTasks
<1>28. CASE MHIFreeDecoder
  BY <1>28 DEF MHIFreeDecoder, DrainList, streamState, PlayerInv, Told
<1>29. CASE FreeDecoderClose
  BY <1>29 DEF FreeDecoderClose, CloseStream, list, PlayerInv, Told
<1>30. CASE FwDecode
  BY <1>30 DEF FwDecode, transportState, list, streamState, PlayerInv, Told
<1>31. CASE FwLate
  BY <1>31 DEF FwLate, transportState, list, streamState, feeder, app, PlayerInv, Told
<1> QED BY <1>1, <1>2, <1>3, <1>4, <1>5, <1>6, <1>7, <1>8, <1>9, <1>10, <1>11, <1>12, <1>13,
       <1>14, <1>15, <1>16, <1>17, <1>18, <1>19, <1>20, <1>21, <1>22, <1>23, <1>24, <1>25, <1>26,
       <1>27, <1>28, <1>29, <1>30, <1>31 DEF PlayerNext

\* A drained queue's buffers were not the application's.
LEMMA DrainedOwned == ASSUME PlayerInv, DrainList, UNCHANGED mine PROVE Owned'
<1>1. queue' = << >> /\ dropped' = {queue[i].buf : i \in DOMAIN queue}
  BY DEF DrainList
<1>2. dropped' \cap mine' = {}
  BY <1>1 DEF PlayerInv, Owned
<1> QED BY <1>1, <1>2 DEF Owned

\* What is handed over stays behind a cursor that only grows.
LEMMA HandedStays ==
  ASSUME PlayerInv, taken' = taken \/ taken' = taken + 1
  PROVE  \A i \in DOMAIN queue : queue[i].end <= taken => queue[i].end <= taken'
<1>1. ASSUME NEW i \in DOMAIN queue, queue[i].end <= taken
      PROVE  queue[i].end <= taken'
  <2>1. queue[i] \in Nodes
    BY DEF PlayerInv, PlayerTypeOK, BufsOK
  <2>2. queue[i].end \in Nat /\ taken \in Nat
    BY <2>1 DEF Nodes, PlayerInv, PlayerTypeOK, CountsOK
  <2> QED BY <1>1, <2>2
<1> QED BY <1>1

\* A Play that opens a session finds what a Stop or Pause left.
LEMMA ContestedKept ==
  ASSUME PlayerInv, PlayerNext
  PROVE  Contested'
<1>0. /\ Known' \in {0, Known, stream}
      /\ CloseStream \/ PauseUnbind => Known' = 0
  BY OutputMoves
<1>1. CASE FeederTop
  BY <1>1 DEF FeederTop, To, transportState, list, cardState, output, Known, PlayerInv,
     PlayerTypeOK, PlacesOK, Contested, PlayerTasks
<1>2. CASE Scan
  BY <1>2 DEF Scan, To, transportState, cardState, output, Known, PlayerInv, PlayerTypeOK,
     PlacesOK, Contested, PlayerTasks
<1>3. CASE Feed
  BY <1>3 DEF Feed, To, output, Known, transportState, PlayerInv, PlayerTypeOK, PlacesOK,
     IoLocked, Contested, PlayerTasks, FeederLocked, PlayerLocked
<1>4. CASE Accepted
  BY <1>4 DEF Accepted, To, transportState, cardState, output, Known, PlayerInv, PlayerTypeOK,
     PlacesOK, IoLocked, Contested, PlayerTasks, FeederLocked, PlayerLocked
<1>5. CASE TryBind
  BY <1>5 DEF TryBind, To, transportState, list, cardState, output, Known, PlayerInv,
     PlayerTypeOK, PlacesOK, Contested, PlayerTasks
<1>6. CASE Bind
  BY <1>6 DEF Bind, To, list, PlayerInv, PlayerTypeOK, PlacesOK, IoLocked, Contested, PlayerTasks,
     FeederLocked, PlayerLocked
<1>7. CASE DrainProbe
  BY <1>7 DEF DrainProbe, To, transportState, list, PlayerInv, PlayerTypeOK, PlacesOK, IoLocked,
     Contested, PlayerTasks, FeederLocked, PlayerLocked
<1>8. CASE DrainFailed
  BY <1>8, ProbeKnown DEF DrainFailed, To, list, PlayerInv, PlayerTypeOK, PlacesOK, Contested,
     PlayerTasks
<1>9. CASE DrainAnswered
  BY <1>9 DEF DrainAnswered, To, cardState, output, Known, PlayerInv, PlayerTypeOK, PlacesOK,
     IoLocked, Contested, PlayerTasks, FeederLocked, PlayerLocked
<1>10. CASE FeederPace
  BY <1>10 DEF FeederPace, To, transportState, list, cardState, output, Known, PlayerInv,
     PlayerTypeOK, PlacesOK, Contested, PlayerTasks
<1>11. CASE FeederWake
  BY <1>11 DEF FeederWake, To, transportState, list, cardState, output, Known, PlayerInv,
     PlayerTypeOK, PlacesOK, Contested, PlayerTasks
<1>12. ASSUME NEW b \in Bufs, MHIQueueBuffer(b) PROVE Contested'
  <2>1. \A i \in DOMAIN queue' : (i \in DOMAIN queue /\ queue'[i] = queue[i]) \/ ~queue'[i].handed
    <3>1. [buf |-> b, handed |-> FALSE, end |-> 0, played |-> FALSE] \in Nodes
      BY DEF Nodes
    <3>2. queue' = Append(queue, [buf |-> b, handed |-> FALSE, end |-> 0, played |-> FALSE])
      BY <1>12 DEF MHIQueueBuffer
    <3> QED BY <3>1, <3>2, Queued DEF PlayerInv
  <2>2. /\ UNCHANGED <<pausePending, tgen, place, playGen, Known>>
        /\ status = "STOPPED" => status' = status
    BY <1>12 DEF MHIQueueBuffer, cardState, output, Known
  <2> QED BY <2>1, <2>2 DEF PlayerInv, Contested
<1>13. CASE MHIGetEmpty
  <2>1. \A i \in DOMAIN queue' : \E j \in DOMAIN queue : queue'[i] = queue[j]
    BY <1>13, Dequeued DEF MHIGetEmpty, PlayerInv
  <2>2. UNCHANGED <<status, pausePending, tgen, place, playGen, Known>>
    BY <1>13 DEF MHIGetEmpty, transportState, cardState, output, Known
  <2> QED BY <2>1, <2>2 DEF PlayerInv, Contested
<1>14. CASE EndOfStream
  BY <1>14 DEF EndOfStream, cardState, output, Known, PlayerInv, Contested
<1>15. CASE MHIPlay
  BY <1>15 DEF MHIPlay, To, transportState, list, cardState, output, Known, PlayerInv,
     PlayerTypeOK, PlacesOK, Contested, PlayerTasks
<1>16. CASE PlayOpen
  BY <1>16 DEF PlayOpen, list, cardState, output, Known, PlayerInv, Contested
<1>17. CASE PlayOpened
  BY <1>17 DEF PlayOpened, transportState, list, cardState, output, Known, PlayerInv, Contested
<1>18. CASE PlayPublish
  BY <1>18 DEF PlayPublish, To, CloseStream, list, PlayerInv, PlayerTypeOK, PlacesOK, Contested,
     PlayerTasks
<1>19. CASE PlayRearm
  BY <1>19 DEF PlayRearm, To, list, cardState, output, Known, PlayerInv, PlayerTypeOK, PlacesOK,
     Contested, PlayerTasks
<1>20. CASE PlayResume
  BY <1>20 DEF PlayResume, To, transportState, list, cardState, output, Known, PlayerInv,
     PlayerTypeOK, PlacesOK, Contested, PlayerTasks
<1>21. CASE PlayRebind
  BY <1>21 DEF PlayRebind, To, transportState, list, PlayerInv, PlayerTypeOK, PlacesOK, Contested,
     PlayerTasks
<1>22. CASE PlayRebound
  BY <1>22 DEF PlayRebound, To, list, cardState, output, Known, PlayerInv, PlayerTypeOK, PlacesOK,
     Contested, PlayerTasks
<1>23. CASE MHIStop
  <2>1. status' = "STOPPED" /\ pausePending' = FALSE /\ place'["player"] = place["player"]
    BY <1>23 DEF MHIStop, To, PlayerInv, PlayerTypeOK, PlacesOK, PlayerTasks
  <2>2. \A i \in DOMAIN queue' : ~queue'[i].handed
    <3>1. queue' = << >> BY <1>23 DEF MHIStop, DrainList
    <3> QED BY <3>1
  <2> QED BY <2>1, <2>2 DEF Contested
<1>24. CASE StopClose
  BY <1>24, <1>0 DEF StopClose, To, CloseStream, list, PlayerInv, PlayerTypeOK, PlacesOK, Contested,
     PlayerTasks
<1>25. CASE StopReturns
  BY <1>25 DEF StopReturns, To, transportState, list, cardState, output, Known, PlayerInv,
     PlayerTypeOK, PlacesOK, Contested, PlayerTasks
<1>26. CASE MHIPause
  BY <1>26 DEF MHIPause, To, list, cardState, output, Known, PlayerInv, PlayerTypeOK, PlacesOK,
     Contested, Unbound, PlayerTasks
<1>27. CASE PauseUnbind
  BY <1>27, <1>0 DEF PauseUnbind, To, Unbind, transportState, list, PlayerInv, PlayerTypeOK,
     PlacesOK, Contested, PlayerTasks
<1>28. CASE MHIFreeDecoder
  BY <1>28 DEF MHIFreeDecoder, DrainList, cardState, output, Known, PlayerInv, Contested
<1>29. CASE FreeDecoderClose
  BY <1>29, <1>0 DEF FreeDecoderClose, To, CloseStream, list, PlayerInv, PlayerTypeOK, PlacesOK,
     Contested, PlayerTasks
<1>30. CASE FwDecode
  BY <1>30 DEF FwDecode, output, Known, transportState, list, PlayerInv, Contested
<1>31. CASE FwLate
  BY <1>31, LateKnown DEF FwLate, transportState, list, streamState, feeder, app, PlayerInv,
     PlayerTypeOK, Contested
<1> QED BY <1>1, <1>2, <1>3, <1>4, <1>5, <1>6, <1>7, <1>8, <1>9, <1>10, <1>11, <1>12, <1>13,
       <1>14, <1>15, <1>16, <1>17, <1>18, <1>19, <1>20, <1>21, <1>22, <1>23, <1>24, <1>25, <1>26,
       <1>27, <1>28, <1>29, <1>30, <1>31 DEF PlayerNext

\* A buffer is in one place.
LEMMA OwnedKept ==
  ASSUME PlayerInv, PlayerNext
  PROVE  Owned'
<1>1. CASE FeederTop
  BY <1>1 DEF FeederTop, list, app, PlayerInv, Owned
<1>2. CASE Scan
  BY <1>2 DEF Scan, app, PlayerInv, Owned
<1>3. CASE Feed
  <2>1. UNCHANGED <<mine, dropped>> BY <1>3 DEF Feed, app
  <2> QED BY <1>3, <2>1, Consuming DEF PlayerInv, Owned
<1>4. CASE Accepted
  <2>1. UNCHANGED <<mine, dropped>> BY <1>4 DEF Accepted, app
  <2> QED BY <1>4, <2>1, Accepting DEF PlayerInv, Owned
<1>5. CASE TryBind
  BY <1>5 DEF TryBind, list, app, PlayerInv, Owned
<1>6. CASE Bind
  BY <1>6 DEF Bind, list, app, PlayerInv, Owned
<1>7. CASE DrainProbe
  BY <1>7 DEF DrainProbe, list, app, PlayerInv, Owned
<1>8. CASE DrainFailed
  BY <1>8 DEF DrainFailed, list, app, PlayerInv, Owned
<1>9. CASE DrainAnswered
  <2>1. UNCHANGED <<mine, dropped>> BY <1>9 DEF DrainAnswered, app
  <2> QED BY <1>9, <2>1, Consuming DEF PlayerInv, Owned
<1>10. CASE FeederPace
  BY <1>10 DEF FeederPace, list, app, PlayerInv, Owned
<1>11. CASE FeederWake
  BY <1>11 DEF FeederWake, list, app, PlayerInv, Owned
<1>12. ASSUME NEW b \in Bufs, MHIQueueBuffer(b) PROVE Owned'
  BY <1>12 DEF MHIQueueBuffer, QueueWake, PlayerInv, Owned
<1>13. CASE MHIGetEmpty
  <2>1. /\ 1 \in DOMAIN queue /\ Head(queue) = queue[1]
        /\ \A i \in DOMAIN queue' : /\ i \in Nat /\ i + 1 \in DOMAIN queue /\ i + 1 # 1
                                    /\ queue'[i] = queue[i + 1]
    BY <1>13, Dequeued DEF MHIGetEmpty, PlayerInv
  <2>2. mine' = mine \cup {queue[1].buf} /\ UNCHANGED dropped
    BY <1>13, <2>1 DEF MHIGetEmpty
  <2>3. dropped = {}
    BY <1>13 DEF MHIGetEmpty, PlayerInv, Closing
  <2>4. ASSUME NEW i \in DOMAIN queue', NEW j \in DOMAIN queue', queue'[i].buf = queue'[j].buf
        PROVE  i = j
    <3>1. i + 1 = j + 1
      BY <2>1, <2>4 DEF PlayerInv, Owned
    <3> QED BY <2>1, <3>1
  <2>5. ASSUME NEW i \in DOMAIN queue' PROVE queue'[i].buf \notin mine'
    BY <2>1, <2>2 DEF PlayerInv, Owned
  <2> QED BY <2>2, <2>3, <2>4, <2>5 DEF Owned
<1>14. CASE EndOfStream
  <2>1. UNCHANGED <<mine, dropped>> BY <1>14 DEF EndOfStream, app
  <2> QED BY <1>14, <2>1, Consuming DEF PlayerInv, Owned
<1>15. CASE MHIPlay
  BY <1>15 DEF MHIPlay, list, app, PlayerInv, Owned
<1>16. CASE PlayOpen
  BY <1>16 DEF PlayOpen, list, app, PlayerInv, Owned
<1>17. CASE PlayOpened
  BY <1>17 DEF PlayOpened, list, app, PlayerInv, Owned
<1>18. CASE PlayPublish
  BY <1>18 DEF PlayPublish, list, app, PlayerInv, Owned
<1>19. CASE PlayRearm
  BY <1>19 DEF PlayRearm, list, app, PlayerInv, Owned
<1>20. CASE PlayResume
  BY <1>20 DEF PlayResume, list, app, PlayerInv, Owned
<1>21. CASE PlayRebind
  BY <1>21 DEF PlayRebind, list, app, PlayerInv, Owned
<1>22. CASE PlayRebound
  BY <1>22 DEF PlayRebound, list, app, PlayerInv, Owned
<1>23. CASE MHIStop
  <2>1. DrainList /\ UNCHANGED mine BY <1>23 DEF MHIStop
  <2> QED BY <2>1, DrainedOwned
<1>24. CASE StopClose
  BY <1>24 DEF StopClose, list, app, PlayerInv, Owned
<1>25. CASE StopReturns
  <2>1. queue' = << >> /\ dropped' = {}
    BY <1>25 DEF StopReturns, list, PlayerInv, Closing, Draining
  <2> QED BY <2>1 DEF Owned
<1>26. CASE MHIPause
  BY <1>26 DEF MHIPause, list, app, PlayerInv, Owned
<1>27. CASE PauseUnbind
  BY <1>27 DEF PauseUnbind, Unbind, list, app, PlayerInv, Owned
<1>28. CASE MHIFreeDecoder
  <2>1. DrainList /\ UNCHANGED mine BY <1>28 DEF MHIFreeDecoder
  <2> QED BY <2>1, DrainedOwned
<1>29. CASE FreeDecoderClose
  <2>1. queue' = << >> /\ dropped' = {}
    BY <1>29 DEF FreeDecoderClose, list, PlayerInv, Closing, Draining
  <2> QED BY <2>1 DEF Owned
<1>30. CASE FwDecode
  BY <1>30 DEF FwDecode, list, app, PlayerInv, Owned
<1>31. CASE FwLate
  BY <1>31 DEF FwLate, transportState, list, streamState, feeder, app, PlayerInv, Owned
<1> QED BY <1>1, <1>2, <1>3, <1>4, <1>5, <1>6, <1>7, <1>8, <1>9, <1>10, <1>11, <1>12, <1>13,
       <1>14, <1>15, <1>16, <1>17, <1>18, <1>19, <1>20, <1>21, <1>22, <1>23, <1>24, <1>25, <1>26,
       <1>27, <1>28, <1>29, <1>30, <1>31 DEF PlayerNext

\* What is handed over is in the session.
LEMMA HandedKept ==
  ASSUME PlayerInv, PlayerNext
  PROVE  Handed'
<1>1. CASE FeederTop
  BY <1>1 DEF FeederTop, list, streamState, cardState, output, PlayerInv, Handed
<1>2. CASE Scan
  BY <1>2 DEF Scan, streamState, cardState, output, PlayerInv, Handed
<1>3. CASE Feed
  <2>1. UNCHANGED stream /\ (taken' = taken \/ taken' = taken + 1) BY <1>3 DEF Feed
  <2> QED BY <1>3, <2>1, HandedStays, Consuming DEF PlayerInv, Handed
<1>4. CASE Accepted
  <2>1. UNCHANGED <<stream, taken>> BY <1>4 DEF Accepted, cardState, output
  <2>2. stream # 0
    BY <1>4 DEF Accepted, PlayerInv, Sessioned, Working, FeederLocked
  <2> QED BY <1>4, <2>1, <2>2, Accepting DEF PlayerInv, Handed
<1>5. CASE TryBind
  BY <1>5 DEF TryBind, list, streamState, cardState, output, PlayerInv, Handed
<1>6. CASE Bind
  BY <1>6 DEF Bind, list, streamState, PlayerInv, Handed
<1>7. CASE DrainProbe
  BY <1>7 DEF DrainProbe, list, PlayerInv, Handed
<1>8. CASE DrainFailed
  BY <1>8 DEF DrainFailed, list, streamState, PlayerInv, Handed
<1>9. CASE DrainAnswered
  <2>1. UNCHANGED <<stream, taken>> BY <1>9 DEF DrainAnswered, cardState, output
  <2> QED BY <1>9, <2>1, HandedStays, Consuming DEF PlayerInv, Handed
<1>10. CASE FeederPace
  BY <1>10 DEF FeederPace, list, streamState, cardState, output, PlayerInv, Handed
<1>11. CASE FeederWake
  BY <1>11 DEF FeederWake, list, streamState, cardState, output, PlayerInv, Handed
<1>12. ASSUME NEW b \in Bufs, MHIQueueBuffer(b) PROVE Handed'
  BY <1>12 DEF MHIQueueBuffer, QueueWake, cardState, output, PlayerInv, Handed
<1>13. CASE MHIGetEmpty
  BY <1>13 DEF MHIGetEmpty, streamState, cardState, output, PlayerInv, Handed
<1>14. CASE EndOfStream
  <2>1. UNCHANGED <<stream, taken>> BY <1>14 DEF EndOfStream, cardState, output
  <2> QED BY <1>14, <2>1, HandedStays, Consuming DEF PlayerInv, Handed
<1>15. CASE MHIPlay
  BY <1>15 DEF MHIPlay, list, streamState, cardState, output, PlayerInv, Handed
<1>16. CASE PlayOpen
  BY <1>16 DEF PlayOpen, list, streamState, cardState, output, PlayerInv, Handed
<1>17. CASE PlayOpened
  BY <1>17 DEF PlayOpened, list, streamState, cardState, output, PlayerInv, Handed
<1>18. CASE PlayPublish
  <2>1. UNCHANGED <<queue, taken>> BY <1>18 DEF PlayPublish, list
  <2>2. CASE stream' = stream
    BY <2>1, <2>2 DEF PlayerInv, Handed
  <2>3. CASE ~PlayUncontested
    <3>1. \A i \in DOMAIN queue : ~queue[i].handed
      BY <1>18, <2>3 DEF PlayPublish, PlayUncontested, PlayerInv, Contested
    <3> QED BY <2>1, <3>1 DEF PlayerInv, Handed
  <2> QED BY <1>18, <2>2, <2>3 DEF PlayPublish, streamState
<1>19. CASE PlayRearm
  BY <1>19 DEF PlayRearm, list, streamState, cardState, output, PlayerInv, Handed
<1>20. CASE PlayResume
  BY <1>20 DEF PlayResume, list, streamState, cardState, output, PlayerInv, Handed
<1>21. CASE PlayRebind
  BY <1>21 DEF PlayRebind, list, streamState, PlayerInv, Handed
<1>22. CASE PlayRebound
  BY <1>22 DEF PlayRebound, list, streamState, cardState, output, PlayerInv, Handed
<1>23. CASE MHIStop
  <2>1. queue' = << >> BY <1>23 DEF MHIStop, DrainList
  <2> QED BY <2>1 DEF Handed
<1>24. CASE StopClose
  <2>1. queue' = << >>
    BY <1>24 DEF StopClose, list, PlayerInv, Closing, Draining
  <2> QED BY <2>1 DEF Handed
<1>25. CASE StopReturns
  BY <1>25 DEF StopReturns, list, streamState, cardState, output, PlayerInv, Handed
<1>26. CASE MHIPause
  BY <1>26 DEF MHIPause, list, streamState, cardState, output, PlayerInv, Handed
<1>27. CASE PauseUnbind
  BY <1>27 DEF PauseUnbind, Unbind, list, streamState, PlayerInv, Handed
<1>28. CASE MHIFreeDecoder
  <2>1. queue' = << >> BY <1>28 DEF MHIFreeDecoder, DrainList
  <2> QED BY <2>1 DEF Handed
<1>29. CASE FreeDecoderClose
  <2>1. queue' = << >>
    BY <1>29 DEF FreeDecoderClose, list, PlayerInv, Closing, Draining
  <2> QED BY <2>1 DEF Handed
<1>30. CASE FwDecode
  BY <1>30 DEF FwDecode, list, streamState, PlayerInv, Handed
<1>31. CASE FwLate
  BY <1>31 DEF FwLate, transportState, list, streamState, feeder, app, PlayerInv, Handed
<1> QED BY <1>1, <1>2, <1>3, <1>4, <1>5, <1>6, <1>7, <1>8, <1>9, <1>10, <1>11, <1>12, <1>13,
       <1>14, <1>15, <1>16, <1>17, <1>18, <1>19, <1>20, <1>21, <1>22, <1>23, <1>24, <1>25, <1>26,
       <1>27, <1>28, <1>29, <1>30, <1>31 DEF PlayerNext

\* The feeder knows that something is left.
LEMMA UnfedKnownKept ==
  ASSUME PlayerInv, PlayerNext
  PROVE  UnfedKnown'
<1>1. CASE FeederTop
  BY <1>1 DEF FeederTop, list, PlayerInv, UnfedKnown
<1>2. CASE Scan
  BY <1>2 DEF Scan, Unfed, PlayerInv, UnfedKnown
<1>3. CASE Feed
  <2>1. UNCHANGED haveUnfed BY <1>3 DEF Feed
  <2> QED BY <1>3, <2>1, Consuming DEF PlayerInv, UnfedKnown
<1>4. CASE Accepted
  <2>1. UNCHANGED haveUnfed BY <1>4 DEF Accepted
  <2> QED BY <1>4, <2>1, Accepting DEF PlayerInv, UnfedKnown
<1>5. CASE TryBind
  BY <1>5 DEF TryBind, list, PlayerInv, UnfedKnown
<1>6. CASE Bind
  BY <1>6 DEF Bind, list, PlayerInv, UnfedKnown
<1>7. CASE DrainProbe
  BY <1>7 DEF DrainProbe, list, PlayerInv, UnfedKnown
<1>8. CASE DrainFailed
  BY <1>8 DEF DrainFailed, list, PlayerInv, UnfedKnown
<1>9. CASE DrainAnswered
  <2>1. UNCHANGED haveUnfed BY <1>9 DEF DrainAnswered
  <2> QED BY <1>9, <2>1, Consuming DEF PlayerInv, UnfedKnown
<1>10. CASE FeederPace
  BY <1>10 DEF FeederPace, list, PlayerInv, UnfedKnown
<1>11. CASE FeederWake
  BY <1>11 DEF FeederWake, list, PlayerInv, UnfedKnown
<1>12. ASSUME NEW b \in Bufs, MHIQueueBuffer(b) PROVE UnfedKnown'
  BY <1>12 DEF MHIQueueBuffer, QueueWake, PlayerInv, UnfedKnown
<1>13. CASE MHIGetEmpty
  BY <1>13 DEF MHIGetEmpty, PlayerInv, UnfedKnown
<1>14. CASE EndOfStream
  <2>1. UNCHANGED haveUnfed BY <1>14 DEF EndOfStream
  <2> QED BY <1>14, <2>1, Consuming DEF PlayerInv, UnfedKnown
<1>15. CASE MHIPlay
  BY <1>15 DEF MHIPlay, list, PlayerInv, UnfedKnown
<1>16. CASE PlayOpen
  BY <1>16 DEF PlayOpen, list, PlayerInv, UnfedKnown
<1>17. CASE PlayOpened
  BY <1>17 DEF PlayOpened, list, PlayerInv, UnfedKnown
<1>18. CASE PlayPublish
  BY <1>18 DEF PlayPublish, list, PlayerInv, UnfedKnown
<1>19. CASE PlayRearm
  BY <1>19 DEF PlayRearm, list, PlayerInv, UnfedKnown
<1>20. CASE PlayResume
  BY <1>20 DEF PlayResume, list, PlayerInv, UnfedKnown
<1>21. CASE PlayRebind
  BY <1>21 DEF PlayRebind, list, PlayerInv, UnfedKnown
<1>22. CASE PlayRebound
  BY <1>22 DEF PlayRebound, list, PlayerInv, UnfedKnown
<1>23. CASE MHIStop
  BY <1>23 DEF MHIStop, DrainList, PlayerInv, UnfedKnown
<1>24. CASE StopClose
  BY <1>24 DEF StopClose, list, PlayerInv, UnfedKnown
<1>25. CASE StopReturns
  BY <1>25 DEF StopReturns, list, PlayerInv, UnfedKnown
<1>26. CASE MHIPause
  BY <1>26 DEF MHIPause, list, PlayerInv, UnfedKnown
<1>27. CASE PauseUnbind
  BY <1>27 DEF PauseUnbind, Unbind, list, PlayerInv, UnfedKnown
<1>28. CASE MHIFreeDecoder
  BY <1>28 DEF MHIFreeDecoder, DrainList, PlayerInv, UnfedKnown
<1>29. CASE FreeDecoderClose
  BY <1>29 DEF FreeDecoderClose, list, PlayerInv, UnfedKnown
<1>30. CASE FwDecode
  BY <1>30 DEF FwDecode, list, PlayerInv, UnfedKnown
<1>31. CASE FwLate
  BY <1>31 DEF FwLate, transportState, list, streamState, feeder, app, PlayerInv, UnfedKnown
<1> QED BY <1>1, <1>2, <1>3, <1>4, <1>5, <1>6, <1>7, <1>8, <1>9, <1>10, <1>11, <1>12, <1>13,
       <1>14, <1>15, <1>16, <1>17, <1>18, <1>19, <1>20, <1>21, <1>22, <1>23, <1>24, <1>25, <1>26,
       <1>27, <1>28, <1>29, <1>30, <1>31 DEF PlayerNext

\* The feeder's chunk stays its own.
LEMMA CopyingKept ==
  ASSUME PlayerInv, PlayerNext
  PROVE  Copying'
<1>1. CASE FeederTop
  BY <1>1 DEF FeederTop, To, list, app, PlayerInv, PlayerTypeOK, PlacesOK, Copying, PlayerTasks
<1>2. CASE Scan
  <2>1. CASE place'["feeder"] = "copy"
    <3>1. \E i \in DOMAIN queue : ~queue[i].handed /\ snap' = [buf |-> queue[i].buf, gen |-> lgen]
      BY <1>2, <2>1 DEF Scan, To, Unfed, PlayerInv, PlayerTypeOK, PlacesOK, PlayerTasks
    <3>2. \E i \in DOMAIN queue : ~queue[i].handed /\ queue[i].buf = snap'.buf
      BY <3>1
    <3>3. UNCHANGED queue BY <1>2 DEF Scan
    <3> QED BY <3>2, <3>3 DEF Copying
  <2> QED BY <2>1 DEF Copying
<1>3. CASE Feed
  BY <1>3 DEF Feed, To, feeder, app, PlayerInv, PlayerTypeOK, PlacesOK, Copying, PlayerTasks
<1>4. CASE Accepted
  BY <1>4 DEF Accepted, To, app, PlayerInv, PlayerTypeOK, PlacesOK, Copying, PlayerTasks
<1>5. CASE TryBind
  BY <1>5 DEF TryBind, To, list, feeder, app, PlayerInv, PlayerTypeOK, PlacesOK, Copying,
     PlayerTasks
<1>6. CASE Bind
  BY <1>6 DEF Bind, To, list, feeder, app, PlayerInv, PlayerTypeOK, PlacesOK, Copying, PlayerTasks
<1>7. CASE DrainProbe
  BY <1>7 DEF DrainProbe, To, list, feeder, app, PlayerInv, PlayerTypeOK, PlacesOK, Copying,
     PlayerTasks
<1>8. CASE DrainFailed
  BY <1>8 DEF DrainFailed, To, list, app, PlayerInv, PlayerTypeOK, PlacesOK, Copying, PlayerTasks
<1>9. CASE DrainAnswered
  BY <1>9 DEF DrainAnswered, To, app, PlayerInv, PlayerTypeOK, PlacesOK, Copying, PlayerTasks
<1>10. CASE FeederPace
  BY <1>10 DEF FeederPace, To, list, app, PlayerInv, PlayerTypeOK, PlacesOK, Copying, PlayerTasks
<1>11. CASE FeederWake
  BY <1>11 DEF FeederWake, To, list, feeder, app, PlayerInv, PlayerTypeOK, PlacesOK, Copying,
     PlayerTasks
<1>12. ASSUME NEW b \in Bufs, MHIQueueBuffer(b) PROVE Copying'
  <2>1. \A i \in DOMAIN queue : i \in DOMAIN queue' /\ queue'[i] = queue[i]
    <3>1. [buf |-> b, handed |-> FALSE, end |-> 0, played |-> FALSE] \in Nodes
      BY DEF Nodes
    <3>2. queue' = Append(queue, [buf |-> b, handed |-> FALSE, end |-> 0, played |-> FALSE])
      BY <1>12 DEF MHIQueueBuffer
    <3> QED BY <3>1, <3>2, Queued DEF PlayerInv
  <2>2. UNCHANGED <<place, snap, dropped>>
    BY <1>12 DEF MHIQueueBuffer, feeder
  <2> QED BY <2>1, <2>2 DEF PlayerInv, Copying
<1>13. CASE MHIGetEmpty
  <2>1. UNCHANGED <<place, snap, dropped>>
    BY <1>13 DEF MHIGetEmpty, feeder
  <2>2. /\ 1 \in DOMAIN queue /\ queue[1].played
        /\ \A i \in DOMAIN queue : i # 1 => \E j \in DOMAIN queue' : queue'[j] = queue[i]
    BY <1>13, Dequeued DEF MHIGetEmpty, PlayerInv
  <2>3. \A i \in DOMAIN queue : ~queue[i].handed => i # 1
    BY <2>2 DEF PlayerInv, Handed
  <2> QED BY <2>1, <2>2, <2>3 DEF PlayerInv, Copying
<1>14. CASE EndOfStream
  BY <1>14 DEF EndOfStream, feeder, app, PlayerInv, PlayerTypeOK, PlacesOK, IoLocked, Copying,
     PlayerTasks, FeederLocked
<1>15. CASE MHIPlay
  BY <1>15 DEF MHIPlay, To, list, feeder, app, PlayerInv, PlayerTypeOK, PlacesOK, Copying,
     PlayerTasks
<1>16. CASE PlayOpen
  BY <1>16 DEF PlayOpen, To, list, feeder, app, PlayerInv, PlayerTypeOK, PlacesOK, Copying,
     PlayerTasks
<1>17. CASE PlayOpened
  BY <1>17 DEF PlayOpened, To, list, feeder, app, PlayerInv, PlayerTypeOK, PlacesOK, Copying,
     PlayerTasks
<1>18. CASE PlayPublish
  BY <1>18 DEF PlayPublish, To, list, feeder, app, PlayerInv, PlayerTypeOK, PlacesOK, Copying,
     PlayerTasks
<1>19. CASE PlayRearm
  BY <1>19 DEF PlayRearm, To, list, feeder, app, PlayerInv, PlayerTypeOK, PlacesOK, Copying,
     PlayerTasks
<1>20. CASE PlayResume
  BY <1>20 DEF PlayResume, To, list, feeder, app, PlayerInv, PlayerTypeOK, PlacesOK, Copying,
     PlayerTasks
<1>21. CASE PlayRebind
  BY <1>21 DEF PlayRebind, To, list, feeder, app, PlayerInv, PlayerTypeOK, PlacesOK, Copying,
     PlayerTasks
<1>22. CASE PlayRebound
  BY <1>22 DEF PlayRebound, To, list, feeder, app, PlayerInv, PlayerTypeOK, PlacesOK, Copying,
     PlayerTasks
<1>23. CASE MHIStop
  <2>1. CASE place'["feeder"] = "copy"
    <3>1. place["feeder"] = "copy" /\ place["control"] = "idle" /\ UNCHANGED snap
      BY <1>23, <2>1 DEF MHIStop, To, feeder, PlayerInv, PlayerTypeOK, PlacesOK, PlayerTasks
    <3>2. \E i \in DOMAIN queue : queue[i].buf = snap.buf
      BY <3>1 DEF PlayerInv, Copying
    <3>3. snap'.buf \in dropped'
      BY <1>23, <3>1, <3>2 DEF MHIStop, DrainList
    <3>4. status # "STOPPED"
      BY <3>1 DEF PlayerInv, FeederStops, Working, FeederLocked
    <3>5. place'["control"] = "close"
      BY <1>23, <3>4 DEF MHIStop, To, PlayerInv, PlayerTypeOK, PlacesOK, PlayerTasks
    <3> QED BY <3>3, <3>5 DEF Copying
  <2> QED BY <2>1 DEF Copying
<1>24. CASE StopClose
  BY <1>24 DEF StopClose, To, list, feeder, app, PlayerInv, PlayerTypeOK, PlacesOK, IoLocked,
     Copying, PlayerTasks, FeederLocked
<1>25. CASE StopReturns
  BY <1>25 DEF StopReturns, To, list, feeder, PlayerInv, PlayerTypeOK, PlacesOK, Copying,
     PlayerTasks
<1>26. CASE MHIPause
  BY <1>26 DEF MHIPause, To, list, feeder, app, PlayerInv, PlayerTypeOK, PlacesOK, Copying,
     PlayerTasks
<1>27. CASE PauseUnbind
  BY <1>27 DEF PauseUnbind, To, Unbind, list, feeder, app, PlayerInv, PlayerTypeOK, PlacesOK,
     Copying, PlayerTasks
<1>28. CASE MHIFreeDecoder
  BY <1>28 DEF MHIFreeDecoder, To, DrainList, PlayerInv, PlayerTypeOK, PlacesOK, Copying,
     PlayerTasks
<1>29. CASE FreeDecoderClose
  BY <1>29 DEF FreeDecoderClose, To, list, feeder, PlayerInv, PlayerTypeOK, PlacesOK, Copying,
     PlayerTasks
<1>30. CASE FwDecode
  BY <1>30 DEF FwDecode, list, feeder, app, PlayerInv, Copying
<1>31. CASE FwLate
  BY <1>31 DEF FwLate, transportState, list, streamState, feeder, app, PlayerInv, Copying
<1> QED BY <1>1, <1>2, <1>3, <1>4, <1>5, <1>6, <1>7, <1>8, <1>9, <1>10, <1>11, <1>12, <1>13,
       <1>14, <1>15, <1>16, <1>17, <1>18, <1>19, <1>20, <1>21, <1>22, <1>23, <1>24, <1>25, <1>26,
       <1>27, <1>28, <1>29, <1>30, <1>31 DEF PlayerNext
-----------------------------------------------------------------------------
(* The invariant, and what it says.                                        *)

\* It holds at first.
LEMMA PlayerStarts == PlayerInit => PlayerInv
<1> SUFFICES ASSUME PlayerInit PROVE PlayerInv OBVIOUS
<1>1. /\ place \in [PlayerTasks -> Anywhere] /\ place["feeder"] = "top"
      /\ place["player"] = "idle" /\ place["control"] = "idle"
  BY DEF PlayerInit, PlayerTasks, Anywhere, FeederPlaces, PlayerPlaces, ControlPlaces
<1>2. FlagsOK /\ OutputOK /\ CountsOK /\ Strayed /\ Known = 0
  BY DEF PlayerInit, FlagsOK, OutputOK, CountsOK, Strayed, Known
<1>3. PlacesOK
  BY <1>1 DEF PlayerInit, PlacesOK, FeederPlaces, PlayerPlaces, ControlPlaces
<1>4. ChunkOK
  BY DEF PlayerInit, ChunkOK, NoSnap, NoAnswer
<1>5. BufsOK /\ DOMAIN queue = {}
  BY DEF PlayerInit, BufsOK
<1>6. IoLocked /\ Sessioned /\ FeederStops
  BY <1>1, <1>2 DEF PlayerInit, IoLocked, Sessioned, FeederStops, Working, FeederLocked,
     PlayerLocked
<1>7. Unbound /\ Resuming /\ Contested /\ Told
  BY <1>1, <1>2 DEF PlayerInit, Unbound, Resuming, Contested, Told
<1>8. Closing /\ Owned /\ Handed /\ UnfedKnown /\ Copying
  BY <1>1, <1>5 DEF PlayerInit, Closing, Draining, Owned, Handed, UnfedKnown, Copying
<1>9. Counted
  BY <1>1 DEF PlayerInit, Counted, NoAnswer
<1> QED BY <1>2, <1>3, <1>4, <1>5, <1>6, <1>7, <1>8, <1>9 DEF PlayerInv, PlayerTypeOK

\* Every step keeps it.
LEMMA PlayerSteps == PlayerInv /\ [PlayerNext]_playerVars => PlayerInv'
<1>1. ASSUME PlayerInv, PlayerNext PROVE PlayerInv'
  BY <1>1, TypeKept, OutputMoves, IoLockedKept, SessionedKept, FeederStopsKept, UnboundKept,
     ResumingKept, ContestedKept, ClosingKept, OwnedKept, HandedKept, UnfedKnownKept, CopyingKept,
     CountedKept, ToldKept DEF PlayerInv, PlayerTypeOK
<1>2. ASSUME PlayerInv, UNCHANGED playerVars PROVE PlayerInv'
  BY <1>2 DEF playerVars, transportState, list, streamState, feeder, cardState, output, app,
     PlayerInv, PlayerTypeOK, FlagsOK, OutputOK, CountsOK, PlacesOK, ChunkOK, BufsOK, IoLocked,
     Sessioned, FeederStops, Working, Strayed, Known, Unbound, Resuming, Contested, Closing,
     Owned, Handed, UnfedKnown, Copying, Counted, Told
<1> QED BY <1>1, <1>2

\* Between calls it makes the card and the feeder agree with Status.
LEMMA PlayerInvIsSafe == PlayerInv => PlayerSafe
<1> SUFFICES ASSUME PlayerInv PROVE PlayerSafe OBVIOUS
<1>1. TransportMatchesCard
  BY DEF PlayerInv, Unbound, Known, Sessioned, TransportMatchesCard, Settled
<1>2. ASSUME place["feeder"] = "idle", ~wake, Settled, status = "PLAYING", stream # 0
      PROVE  Unfed(queue) = {} /\ ~playPending
  <2>1. ~haveUnfed /\ ~playPending
    BY <1>2 DEF PlayerInv, Told, Settled
  <2> QED BY <2>1 DEF PlayerInv, UnfedKnown, Unfed
<1> QED BY <1>1, <1>2 DEF FeederNotStranded, PlayerSafe

\* What the feeder reads is not the application's.
LEMMA ReadsItsOwn ==
  ASSUME PlayerInv, place["feeder"] = "copy"
  PROVE  snap.buf \notin mine
BY DEF PlayerInv, Copying, Owned

\* The newly played nodes of a step are what the card has consumed.
PlaysConsumed ==
  \A j \in DOMAIN queue' :
    queue'[j].played /\ (\A i \in DOMAIN queue : queue[i] # queue'[j])
      => queue'[j].handed /\ queue'[j].end <= eaten'

\* A buffer is given back when the card has consumed it.
LEMMA MarksConsumed ==
  ASSUME PlayerInv, PlayerNext
  PROVE  PlaysConsumed
<1>1. CASE FeederTop
  BY <1>1 DEF FeederTop, list, PlaysConsumed
<1>2. CASE Scan
  BY <1>2 DEF Scan, PlaysConsumed
<1>3. CASE Feed
  <2>1. UNCHANGED eaten BY <1>3 DEF Feed
  <2> QED BY <1>3, <2>1, Consuming DEF PlaysConsumed
<1>4. CASE Accepted
  <2>1. UNCHANGED eaten BY <1>4 DEF Accepted, cardState, output
  <2> QED BY <1>4, <2>1, Accepting DEF PlaysConsumed
<1>5. CASE TryBind
  BY <1>5 DEF TryBind, list, PlaysConsumed
<1>6. CASE Bind
  BY <1>6 DEF Bind, list, PlaysConsumed
<1>7. CASE DrainProbe
  BY <1>7 DEF DrainProbe, list, PlaysConsumed
<1>8. CASE DrainFailed
  BY <1>8 DEF DrainFailed, list, PlaysConsumed
<1>9. CASE DrainAnswered
  <2>1. UNCHANGED eaten BY <1>9 DEF DrainAnswered, cardState, output
  <2> QED BY <1>9, <2>1, Consuming DEF PlaysConsumed
<1>10. CASE FeederPace
  BY <1>10 DEF FeederPace, list, PlaysConsumed
<1>11. CASE FeederWake
  BY <1>11 DEF FeederWake, list, PlaysConsumed
<1>12. ASSUME NEW b \in Bufs, MHIQueueBuffer(b) PROVE PlaysConsumed
  <2>1. \A i \in DOMAIN queue' : (i \in DOMAIN queue /\ queue'[i] = queue[i]) \/ ~queue'[i].played
    <3>1. [buf |-> b, handed |-> FALSE, end |-> 0, played |-> FALSE] \in Nodes
      BY DEF Nodes
    <3>2. queue' = Append(queue, [buf |-> b, handed |-> FALSE, end |-> 0, played |-> FALSE])
      BY <1>12 DEF MHIQueueBuffer
    <3> QED BY <3>1, <3>2, Queued DEF PlayerInv
  <2> QED BY <2>1 DEF PlaysConsumed
<1>13. CASE MHIGetEmpty
  <2>1. \A i \in DOMAIN queue' : \E j \in DOMAIN queue : queue'[i] = queue[j]
    BY <1>13, Dequeued DEF MHIGetEmpty, PlayerInv
  <2> QED BY <2>1 DEF PlaysConsumed
<1>14. CASE EndOfStream
  <2>1. UNCHANGED eaten BY <1>14 DEF EndOfStream, cardState, output
  <2> QED BY <1>14, <2>1, Consuming DEF PlaysConsumed
<1>15. CASE MHIPlay
  BY <1>15 DEF MHIPlay, list, PlaysConsumed
<1>16. CASE PlayOpen
  BY <1>16 DEF PlayOpen, list, PlaysConsumed
<1>17. CASE PlayOpened
  BY <1>17 DEF PlayOpened, list, PlaysConsumed
<1>18. CASE PlayPublish
  BY <1>18 DEF PlayPublish, list, PlaysConsumed
<1>19. CASE PlayRearm
  BY <1>19 DEF PlayRearm, list, PlaysConsumed
<1>20. CASE PlayResume
  BY <1>20 DEF PlayResume, list, PlaysConsumed
<1>21. CASE PlayRebind
  BY <1>21 DEF PlayRebind, list, PlaysConsumed
<1>22. CASE PlayRebound
  BY <1>22 DEF PlayRebound, list, PlaysConsumed
<1>23. CASE MHIStop
  <2>1. queue' = << >> BY <1>23 DEF MHIStop, DrainList
  <2> QED BY <2>1 DEF PlaysConsumed
<1>24. CASE StopClose
  BY <1>24 DEF StopClose, list, PlaysConsumed
<1>25. CASE StopReturns
  BY <1>25 DEF StopReturns, list, PlaysConsumed
<1>26. CASE MHIPause
  BY <1>26 DEF MHIPause, list, PlaysConsumed
<1>27. CASE PauseUnbind
  BY <1>27 DEF PauseUnbind, Unbind, list, PlaysConsumed
<1>28. CASE MHIFreeDecoder
  <2>1. queue' = << >> BY <1>28 DEF MHIFreeDecoder, DrainList
  <2> QED BY <2>1 DEF PlaysConsumed
<1>29. CASE FreeDecoderClose
  BY <1>29 DEF FreeDecoderClose, list, PlaysConsumed
<1>30. CASE FwDecode
  BY <1>30 DEF FwDecode, list, PlaysConsumed
<1>31. CASE FwLate
  BY <1>31 DEF FwLate, transportState, list, streamState, feeder, app, PlaysConsumed
<1> QED BY <1>1, <1>2, <1>3, <1>4, <1>5, <1>6, <1>7, <1>8, <1>9, <1>10, <1>11, <1>12, <1>13,
       <1>14, <1>15, <1>16, <1>17, <1>18, <1>19, <1>20, <1>21, <1>22, <1>23, <1>24, <1>25, <1>26,
       <1>27, <1>28, <1>29, <1>30, <1>31 DEF PlayerNext

\* Between calls of a decoder the card is bound and has a session as its
\* Status says, and a feeder asleep for a signal has nothing left to do.
THEOREM PlayerIsSafe == PlayerSpec => []PlayerSafe
<1>1. PlayerSpec => []PlayerInv
  BY PlayerStarts, PlayerSteps, PTL DEF PlayerSpec
<1> QED BY <1>1, PlayerInvIsSafe, PTL

\* The feeder never reads a buffer the application may touch, and none is
\* marked as played that the card has not consumed in its session.
THEOREM BuffersAreSafe == PlayerSpec => BuffersSafe
<1> DEFINE A == /\ place["feeder"] = "copy" => snap.buf \notin mine
                /\ \A j \in DOMAIN queue' :
                     queue'[j].played /\ (\A i \in DOMAIN queue : queue[i] # queue'[j])
                       => queue'[j].handed /\ queue'[j].end <= eaten'
<1>1. PlayerInv /\ [PlayerNext]_playerVars => [A]_playerVars
  BY ReadsItsOwn, MarksConsumed DEF PlaysConsumed
<1>2. PlayerSpec => []PlayerInv
  BY PlayerStarts, PlayerSteps, PTL DEF PlayerSpec
<1>3. BuffersSafe <=> [][A]_playerVars
  BY DEF BuffersSafe
<1> HIDE DEF A
<1> QED BY <1>1, <1>2, <1>3, PTL DEF PlayerSpec
=============================================================================
