-------------------------- MODULE NetDeviceProofs --------------------------
(***************************************************************************)
(* The life cycle of ZZ9000Net.device is safe for any number of openers,   *)
(* sessions, reads and frames, as long as no task enters the device while  *)
(* a call waits (Overlap; MCNetDeviceOverlap shows what happens otherwise). *)
(***************************************************************************)
EXTENDS NetDevice, FiniteSetTheorems, SequenceTheorems, WellFoundedInduction, TLAPS

-----------------------------------------------------------------------------
(* The inductive invariant: the phases of a session.                       *)

OpenSet == {o \in Openers : op[o] = "open"}

\* One opener is inside the device and nobody else has it open.
Only(o, where) == op[o] = where /\ \A p \in Openers \ {o} : op[p] = "closed"

\* No framer but f runs.
Single(f) == f \in Framers /\ \A g \in Framers \ {f} : ~Alive(g)

Quiet ==
  /\ \A o \in Openers : op[o] = "closed"
  /\ \A f \in Framers : ~Alive(f)
  /\ ~irqEn /\ ~server /\ stage = 0 /\ ~groups /\ openCnt = 0
  /\ exitSem = InitSemaphore /\ granted = {}

\* The first open waits for the framer's reply.
Opening(o) ==
  /\ Only(o, "opening") /\ openCnt = 1 /\ ~server /\ ~irqEn /\ stage = 0 /\ ~groups
  /\ Single(proc) /\ ~fr[proc].sigC /\ ~fr[proc].sigF /\ granted = {}
  /\ \/ fr[proc].pc = "start" /\ exitSem = InitSemaphore
     \/ fr[proc].pc = "sleep" /\ exitSem = [owner |-> proc, wait |-> <<>>]

\* An opener waits for framer f, which is told to end and owns the semaphore
\* until it has ended.
Ending(o, f) ==
  /\ Single(f)
  /\ \/ /\ \/ fr[f].pc \in {"sleep", "drain", "rearm"} /\ fr[f].sigC
           \/ fr[f].pc = "exit"
        /\ exitSem = [owner |-> f, wait |-> <<o>>] /\ granted = {}
     \/ /\ fr[f].pc = "dead" /\ ~irqEn
        /\ exitSem = [owner |-> o, wait |-> <<>>] /\ granted = {o}

Failing(o) ==
  /\ Only(o, "failing") /\ openCnt = 1 /\ ~server /\ stage = 0 /\ ~groups
  /\ \E f \in Framers : Ending(o, f)

Closing(o) ==
  /\ Only(o, "closing") /\ openCnt = 0 /\ ~server
  /\ \E f \in Framers : Ending(o, f)

\* The session is up.
Up ==
  /\ OpenSet # {} /\ \A o \in Openers : op[o] \in {"open", "closed"}
  /\ openCnt = Cardinality(OpenSet)
  /\ server /\ Single(proc) /\ ~fr[proc].sigC
  /\ fr[proc].pc \in {"sleep", "drain", "copy", "rearm"}
  /\ exitSem = [owner |-> proc, wait |-> <<>>] /\ granted = {}
  /\ irqEn \/ fr[proc].sigF \/ fr[proc].pc # "sleep"
  /\ joined # {} => groups

Phase == Quiet \/ Up \/ \E o \in Openers : Opening(o) \/ Failing(o) \/ Closing(o)

\* What holds in every phase.
Members ==
  /\ \A o \in joined : op[o] = "open"
  /\ gone => Quiet
  /\ \A f \in Framers :
       /\ fr[f].pc = "none" => ~fr[f].sigC /\ ~fr[f].sigF
       /\ fr[f].staged \in {0, stage}

\* A pending read is on the list or with the framer that copies, once.
Reads ==
  /\ \A i, j \in 1..Len(readList) : readList[i] = readList[j] => i = j
  /\ \A f \in Framers : /\ fr[f].pc = "copy" <=> fr[f].req # NoOne
                        /\ fr[f].pc # "copy" => fr[f].staged = 0
                        /\ Places(fr[f].req) = {}
  /\ \A o \in Openers :
       /\ io[o] = "pending" <=> Places(o) # {} \/ \E f \in Framers : fr[f].req = o
       /\ io[o] = "pending" => op[o] = "open"
       /\ sent[o] = replied[o] + (IF io[o] = "pending" THEN 1 ELSE 0)

IInv == TypeOK /\ Phase /\ Members /\ Reads

-----------------------------------------------------------------------------
(* Which phase a task is in.                                               *)

\* An opener is where its own state says.
LEMMA OpenerPhase ==
  ASSUME IInv, NEW o \in Openers
  PROVE  /\ op[o] = "open" => Up
         /\ op[o] = "opening" => Opening(o)
         /\ op[o] = "failing" => Failing(o)
         /\ op[o] = "closing" => Closing(o)
<1>1. CASE Quiet
  BY <1>1 DEF Quiet
<1>2. CASE Up
  BY <1>2 DEF Up
<1>3. ASSUME NEW p \in Openers, Opening(p) \/ Failing(p) \/ Closing(p)
      PROVE  /\ op[o] = "open" => Up
             /\ op[o] = "opening" => Opening(o)
             /\ op[o] = "failing" => Failing(o)
             /\ op[o] = "closing" => Closing(o)
  <2>1. CASE o # p
    BY <1>3, <2>1 DEF Opening, Failing, Closing, Only
  <2>2. CASE o = p
    BY <1>3, <2>2 DEF Opening, Failing, Closing, Only
  <2> QED  BY <2>1, <2>2
<1> QED  BY <1>1, <1>2, <1>3 DEF IInv, Phase

\* Exec lets a task in: nobody is inside, so the device is quiet or up.
LEMMA EnterPhase ==
  ASSUME IInv, ~Overlap, MayEnter
  PROVE  ~gone /\ (Quiet \/ Up)
<1>1. \A o \in Openers : op[o] \notin {"opening", "failing", "closing"}
  BY DEF MayEnter, InCall
<1> QED  BY <1>1 DEF MayEnter, IInv, Phase, Opening, Failing, Closing, Only

\* A framer that runs is the session's, or the one an opener waits for.
LEMMA FramerPhase ==
  ASSUME IInv, NEW f \in Framers, Alive(f)
  PROVE  \/ Up /\ f = proc
         \/ \E o \in Openers : Opening(o) /\ f = proc
         \/ \E o \in Openers : (Failing(o) \/ Closing(o)) /\ Ending(o, f)
<1>1. CASE Quiet
  BY <1>1 DEF Quiet
<1>2. CASE Up
  BY <1>2 DEF Up, Single
<1>3. CASE \E o \in Openers : Opening(o)
  BY <1>3 DEF Opening, Single
<1>4. CASE \E o \in Openers : Failing(o) \/ Closing(o)
  <2>1. PICK o \in Openers : Failing(o) \/ Closing(o)
    BY <1>4
  <2>2. PICK g \in Framers : Ending(o, g)
    BY <2>1 DEF Failing, Closing
  <2>3. g = f
    BY <2>2 DEF Ending, Single
  <2> QED  BY <2>1, <2>2, <2>3
<1> QED  BY <1>1, <1>2, <1>3, <1>4 DEF IInv, Phase

\* Only the framer of a session that is up copies a frame.
LEMMA CopyPhase ==
  ASSUME IInv, NEW f \in Framers, fr[f].pc = "copy"
  PROVE  Up /\ f = proc
<1>1. Alive(f)
  BY DEF Alive
<1> QED  BY <1>1, FramerPhase DEF Opening, Ending

\* Once nobody has the device open, no read is pending and no copy runs.
LEMMA NoReads ==
  ASSUME IInv, \A o \in Openers : io[o] # "pending"
  PROVE  /\ \A o \in Openers : Places(o) = {} /\ \A f \in Framers : fr[f].req # o
         /\ \A f \in Framers : fr[f].pc # "copy" /\ fr[f].req = NoOne
<1>1. \A o \in Openers : Places(o) = {} /\ \A f \in Framers : fr[f].req # o
  BY DEF IInv, Reads
<1>2. \A f \in Framers : fr[f].req \in Openers \cup {NoOne}
  BY DEF IInv, TypeOK, FramerType
<1> QED  BY <1>1, <1>2 DEF IInv, Reads

\* A step that touches neither the reads nor a copy.
LEMMA ReadsFrame ==
  ASSUME Reads, UNCHANGED <<readList, io, sent, replied>>,
         \A f \in Framers : /\ fr'[f].req = fr[f].req /\ fr'[f].staged = fr[f].staged
                            /\ fr'[f].pc = "copy" <=> fr[f].pc = "copy",
         \A o \in Openers : io[o] = "pending" => op'[o] = "open"
  PROVE  Reads'
BY DEF Reads, Places

\* A session with one opener more or less.
LEMMA OpenersCount ==
  ASSUME TypeOK, NEW o \in Openers
  PROVE  /\ IsFiniteSet(OpenSet) /\ Cardinality(OpenSet) \in Nat
         /\ Cardinality(OpenSet) = 0 <=> OpenSet = {}
         /\ o \notin OpenSet => Cardinality(OpenSet \cup {o}) = Cardinality(OpenSet) + 1
         /\ o \in OpenSet => Cardinality(OpenSet \ {o}) = Cardinality(OpenSet) - 1
         /\ o \in OpenSet /\ Cardinality(OpenSet) = 1 => OpenSet = {o}
         /\ o \in OpenSet /\ Cardinality(OpenSet) > 1 => OpenSet \ {o} # {}
<1>1. IsFiniteSet(OpenSet)
  BY OpenersAssumption, FS_Subset DEF OpenSet
<1>2. Cardinality(OpenSet) \in Nat /\ (Cardinality(OpenSet) = 0 <=> OpenSet = {})
  BY <1>1, FS_CardinalityType, FS_EmptySet
<1>3. o \notin OpenSet => Cardinality(OpenSet \cup {o}) = Cardinality(OpenSet) + 1
  BY <1>1, FS_AddElement
<1>4. o \in OpenSet => Cardinality(OpenSet \ {o}) = Cardinality(OpenSet) - 1
  BY <1>1, FS_RemoveElement
<1>5. IsFiniteSet(OpenSet \ {o}) /\ (Cardinality(OpenSet \ {o}) = 0 <=> OpenSet \ {o} = {})
  BY <1>1, FS_Subset, FS_EmptySet
<1> QED  BY <1>1, <1>2, <1>3, <1>4, <1>5

\* There are at most as many opens as openers.
LEMMA CountBound ==
  ASSUME NEW o \in Openers, NEW S \in SUBSET Openers
  PROVE  /\ Cardinality(S) \in 0..Cardinality(Openers)
         /\ 0 \in 0..Cardinality(Openers) /\ 1 \in 0..Cardinality(Openers)
<1>1. IsFiniteSet(S) /\ Cardinality(S) <= Cardinality(Openers) /\ IsFiniteSet({o})
      /\ Cardinality({o}) <= Cardinality(Openers)
  BY OpenersAssumption, FS_Subset
<1>2. /\ Cardinality(S) \in Nat /\ Cardinality({o}) = 1 /\ Cardinality(Openers) \in Nat
  BY <1>1, OpenersAssumption, FS_CardinalityType, FS_Singleton
<1> QED  BY <1>1, <1>2

-----------------------------------------------------------------------------
(* DevOpen.                                                                *)

\* The first open starts a session from nothing.
LEMMA OpenFirstKeeps ==
  ASSUME IInv, ~Overlap, NEW o \in Openers, OpenFirst(o)
  PROVE  IInv'
<1>1. ~gone /\ Quiet
  BY EnterPhase, OpenersCount DEF OpenFirst, Up, IInv
<1>2. PICK f \in Framers : /\ fr[f].pc = "none" /\ proc' = f
                           /\ fr' = [fr EXCEPT ![f].pc = "start"]
  BY DEF OpenFirst
<1>3. /\ openCnt' = 1 /\ groups' = FALSE /\ readList' = <<>> /\ exitSem' = InitSemaphore
      /\ op' = [op EXCEPT ![o] = "opening"]
      /\ UNCHANGED <<granted, delexp, gone, server, stage, stages, joined, io, sent, replied,
                     irqEn, backlog, frames>>
  BY DEF OpenFirst, netVars
<1>4. /\ fr' \in [Framers -> FramerType] /\ \A g \in Framers \ {f} : fr'[g] = fr[g]
      /\ fr'[f].pc = "start" /\ fr'[f].sigC = fr[f].sigC /\ fr'[f].sigF = fr[f].sigF
      /\ fr'[f].req = fr[f].req /\ fr'[f].staged = fr[f].staged
  BY <1>2 DEF IInv, TypeOK, FramerType
<1>5. TypeOK'
  <2>1. InitSemaphore \in [owner : Openers \cup Framers \cup {NoOne}, wait : Seq(Openers)]
    BY DEF InitSemaphore
  <2>2. 1 \in 0..Cardinality(Openers)
    BY CountBound
  <2>3. readList' \in Seq(Openers)
    BY <1>3, EmptySeq
  <2>4. op' \in [Openers -> {"closed", "opening", "failing", "open", "closing"}]
    BY <1>3 DEF IInv, TypeOK
  <2> QED  BY <1>2, <1>3, <1>4, <2>1, <2>2, <2>3, <2>4 DEF IInv, TypeOK
<1>6. ~fr[f].sigC /\ ~fr[f].sigF /\ joined = {}
  BY <1>1, <1>2 DEF IInv, Members, Quiet, TypeOK
<1>7. Opening(o)'
  <2>1. Only(o, "opening")'
    BY <1>1, <1>3 DEF Only, Quiet, IInv, TypeOK
  <2>2. Single(proc)'
    BY <1>1, <1>2, <1>4 DEF Single, Quiet, Alive
  <2> QED  BY <1>1, <1>2, <1>3, <1>4, <1>6, <2>1, <2>2 DEF Opening, Quiet
<1>8. Members'
  BY <1>1, <1>3, <1>4, <1>6 DEF IInv, Members
<1>9. Reads'
  <2>1. \A p \in Openers : io[p] # "pending"
    BY <1>1 DEF IInv, Reads, Quiet
  <2>2. \A p : Places(p)' = {}
    BY <1>3 DEF Places
  <2>3. \A g \in Framers : fr[g].req = NoOne /\ fr[g].pc # "copy" /\ fr[g].staged = 0
    BY <2>1, NoReads DEF IInv, Reads
  <2>4. \A g \in Framers : fr'[g].req = NoOne /\ fr'[g].pc # "copy" /\ fr'[g].staged = 0
    BY <1>4, <2>3
  <2>5. \A i \in 1..Len(readList') : FALSE
    BY <1>3
  <2> QED  BY <1>3, <2>1, <2>2, <2>4, <2>5, OpenersAssumption DEF IInv, Reads
<1> QED  BY <1>5, <1>7, <1>8, <1>9 DEF IInv, Phase

\* A first open that gets no framer leaves the device quiet.
LEMMA OpenFailsKeeps ==
  ASSUME IInv, ~Overlap, NEW o \in Openers, OpenFails(o)
  PROVE  IInv'
<1>1. ~gone /\ Quiet
  BY EnterPhase, OpenersCount DEF OpenFails, Up, IInv
<1>2. /\ groups' = FALSE /\ readList' \in {readList, <<>>} /\ proc' \in {proc, NoProc}
      /\ UNCHANGED <<openCnt, delexp, gone, server, stage, stages, exitSem, granted, op,
                     joined, io, sent, replied, fr, irqEn, backlog, frames>>
  BY <1>1 DEF OpenFails, Quiet, libVars, semVars, netVars, IInv, TypeOK
<1>3. TypeOK'
  <2>1. readList' \in Seq(Openers)
    BY <1>2, EmptySeq DEF IInv, TypeOK
  <2> QED  BY <1>2, <2>1 DEF IInv, TypeOK
<1>4. Quiet'
  BY <1>1, <1>2 DEF Quiet, Alive, InitSemaphore
<1>5. Members'
  BY <1>1, <1>2 DEF IInv, Members
<1>6. Reads'
  <2>1. \A p \in Openers : io[p] # "pending"
    BY <1>1 DEF IInv, Reads, Quiet
  <2>2. \A p \in Openers : Places(p) = {}
    BY <2>1, NoReads
  <2>3. readList' = readList
    <3>1. \A i \in 1..Len(readList) : FALSE
      <4>1. readList \in [1..Len(readList) -> Openers]
        BY LenProperties DEF IInv, TypeOK
      <4> QED  BY <2>2, <4>1 DEF Places
    <3>2. readList = <<>>
      BY <3>1, EmptySeq DEF IInv, TypeOK
    <3> QED  BY <1>2, <3>2
  <2> QED  BY <1>2, <2>1, <2>3, ReadsFrame DEF IInv
<1> QED  BY <1>3, <1>4, <1>5, <1>6 DEF IInv, Phase

\* A second opener joins a session that is up, or is refused.
LEMMA OpenSecondKeeps ==
  ASSUME IInv, ~Overlap, NEW o \in Openers, OpenSecond(o)
  PROVE  IInv'
<1>1. ~gone /\ Up /\ op[o] = "closed" /\ openCnt > 0
  BY EnterPhase DEF OpenSecond, Quiet
<1>2. UNCHANGED <<gone, proc, server, stage, stages, groups, exitSem, granted, joined,
                  readList, io, sent, replied, fr, irqEn, backlog, frames>>
  BY DEF OpenSecond, semVars, ioVars, netVars
<1>3. CASE op' = [op EXCEPT ![o] = "open"] /\ openCnt' = openCnt + 1 /\ delexp' = FALSE
  <2>1. OpenSet' = OpenSet \cup {o} /\ o \notin OpenSet /\ \A p \in Openers : op[p] = "open" => op'[p] = "open"
    BY <1>1, <1>3 DEF OpenSet, IInv, TypeOK
  <2>2. openCnt' = Cardinality(OpenSet') /\ OpenSet' \subseteq Openers
    BY <1>1, <1>3, <2>1, OpenersCount DEF Up, IInv, OpenSet
  <2>3. openCnt' \in 0..Cardinality(Openers)
    BY <2>2, CountBound
  <2>4. TypeOK'
    BY <1>2, <1>3, <2>3 DEF IInv, TypeOK
  <2>5. Up'
    BY <1>1, <1>2, <1>3, <2>1, <2>2 DEF Up, Single, Alive, IInv, TypeOK
  <2>6. Members'
    BY <1>1, <1>2, <2>1 DEF IInv, TypeOK, Members
  <2>7. \A p \in Openers : io[p] = "pending" => op'[p] = "open"
    BY <2>1 DEF IInv, Reads
  <2>8. Reads'
    BY <1>2, <2>7, ReadsFrame DEF IInv
  <2> QED  BY <2>4, <2>5, <2>6, <2>8 DEF IInv, Phase
<1>4. CASE UNCHANGED <<op, openCnt, delexp>>
  <2>1. TypeOK' /\ Up'
    BY <1>1, <1>2, <1>4 DEF IInv, TypeOK, Up, OpenSet, Single, Alive
  <2>2. Members'
    BY <1>1, <1>2, <1>4 DEF IInv, Members
  <2>3. Reads'
    BY <1>2, <1>4 DEF IInv, Reads, Places
  <2> QED  BY <2>1, <2>2, <2>3 DEF IInv, Phase
<1> QED  BY <1>3, <1>4 DEF OpenSecond

\* The interrupt server and the staging buffer complete the session.
LEMMA OpenFinishKeeps ==
  ASSUME IInv, NEW o \in Openers, OpenFinish(o)
  PROVE  IInv'
<1>1. Opening(o) /\ fr[proc].pc = "sleep"
  BY OpenerPhase DEF OpenFinish, Opening
<1>2. /\ server' = TRUE /\ irqEn' = TRUE /\ delexp' = FALSE
      /\ op' = [op EXCEPT ![o] = "open"]
      /\ UNCHANGED <<openCnt, gone, proc, groups, exitSem, granted, joined, readList, io,
                     sent, replied, fr, backlog, frames>>
  BY DEF OpenFinish, semVars, ioVars, netVars
<1>3. stages' \in Nat /\ stage' \in 0..stages'
  BY DEF OpenFinish, IInv, TypeOK
<1>4. TypeOK'
  BY <1>2, <1>3 DEF IInv, TypeOK
<1>5. OpenSet' = {o} /\ joined = {} /\ ~gone
  BY <1>1, <1>2 DEF OpenSet, Opening, Only, IInv, TypeOK, Members, Quiet
<1>6. Cardinality({o}) = 1
  BY FS_Singleton
<1>7. Up'
  BY <1>1, <1>2, <1>5, <1>6 DEF Up, Opening, Only, Single, Alive, IInv, TypeOK
<1>8. \A p \in Openers : io[p] # "pending"
  BY <1>1 DEF IInv, Reads, Opening, Only
<1>9. \A f \in Framers : fr[f].staged = 0
  BY <1>8, NoReads DEF IInv, Reads
<1>10. Members'
  BY <1>2, <1>5, <1>9 DEF IInv, Members
<1>11. Reads'
  BY <1>2, <1>8, ReadsFrame DEF IInv
<1> QED  BY <1>4, <1>7, <1>10, <1>11 DEF IInv, Phase

\* Without memory for the interrupt the framer is told to quit.
LEMMA OpenUndoKeeps ==
  ASSUME IInv, NEW o \in Openers, OpenUndo(o)
  PROVE  IInv'
<1>1. PICK f \in Framers : f = proc /\ Opening(o) /\ fr[f].pc = "sleep"
                           /\ exitSem = [owner |-> f, wait |-> <<>>] /\ granted = {}
  BY OpenerPhase DEF OpenUndo, Opening, Single
<1>2. /\ fr' = [fr EXCEPT ![f].sigC = TRUE] /\ op' = [op EXCEPT ![o] = "failing"]
      /\ UNCHANGED <<openCnt, delexp, gone, proc, server, stage, stages, groups, joined,
                     readList, io, sent, replied, irqEn, backlog, frames>>
  BY <1>1 DEF OpenUndo, libVars, ioVars, netVars
<1>3. exitSem' = [owner |-> f, wait |-> <<o>>] /\ granted' = {}
  <2>1. ~Free
    BY <1>1, OpenersAssumption DEF Free
  <2>2. exitSem' = [exitSem EXCEPT !.wait = Append(@, o)] /\ granted' = granted
    BY <2>1 DEF OpenUndo, Obtain
  <2>3. Append(<<>>, o) = <<o>>
    OBVIOUS
  <2> QED  BY <1>1, <2>2, <2>3
<1>4. /\ fr' \in [Framers -> FramerType] /\ \A g \in Framers \ {f} : fr'[g] = fr[g]
      /\ fr'[f].pc = "sleep" /\ fr'[f].sigC
      /\ fr'[f].req = fr[f].req /\ fr'[f].staged = fr[f].staged
  BY <1>1, <1>2 DEF IInv, TypeOK, FramerType
<1>5. TypeOK'
  <2>1. exitSem' \in [owner : Openers \cup Framers \cup {NoOne}, wait : Seq(Openers)]
    BY <1>3
  <2> QED  BY <1>2, <1>3, <1>4, <2>1 DEF IInv, TypeOK
<1>6. Ending(o, f)'
  BY <1>1, <1>3, <1>4 DEF Ending, Opening, Single, Alive
<1>7. Failing(o)'
  BY <1>1, <1>2, <1>6 DEF Failing, Opening, Only, IInv, TypeOK
<1>8. ~gone /\ \A p \in Openers : io[p] # "pending"
  BY <1>1 DEF IInv, Members, Quiet, Reads, Opening, Only
<1>9. joined = {}
  BY <1>1 DEF IInv, Members, Opening, Only, TypeOK
<1>10. Members' /\ Reads'
  BY <1>1, <1>2, <1>4, <1>8, <1>9, ReadsFrame DEF IInv, Members
<1> QED  BY <1>5, <1>7, <1>10 DEF IInv, Phase

\* An opener that was granted the semaphore: its framer has ended.
LEMMA Ended ==
  ASSUME IInv, NEW o \in Openers, Failing(o) \/ Closing(o), o \in granted
  PROVE  /\ exitSem = [owner |-> o, wait |-> <<>>] /\ granted = {o} /\ ~irqEn
         /\ \A f \in Framers : ~Alive(f)
         /\ Release({o}) => exitSem' = InitSemaphore /\ granted' = {}
<1>1. PICK f \in Framers : Ending(o, f)
  BY DEF Failing, Closing
<1>2. /\ exitSem = [owner |-> o, wait |-> <<>>] /\ granted = {o} /\ ~irqEn
      /\ fr[f].pc = "dead"
  BY <1>1 DEF Ending
<1>3. \A g \in Framers : ~Alive(g)
  BY <1>1, <1>2 DEF Ending, Single, Alive
<1>4. Release({o}) => exitSem' = InitSemaphore /\ granted' = {}
  BY <1>2 DEF Release
<1> QED  BY <1>2, <1>3, <1>4

\* A device nobody has open and whose framer has ended is quiet.
LEMMA BecomesQuiet ==
  ASSUME IInv, NEW o \in Openers, Failing(o) \/ Closing(o), o \in granted, Release({o}),
         op' = [op EXCEPT ![o] = "closed"], openCnt' = 0, groups' = FALSE, stage' = 0,
         delexp' \in BOOLEAN, gone' \in BOOLEAN,
         UNCHANGED <<proc, server, stages, joined, readList, io, sent, replied, fr, irqEn,
                     backlog, frames>>
  PROVE  IInv'
<1>1. /\ exitSem' = InitSemaphore /\ granted' = {} /\ ~irqEn /\ \A f \in Framers : ~Alive(f)
  BY Ended
<1>2. Quiet'
  BY <1>1 DEF Quiet, Failing, Closing, Only, Alive, IInv, TypeOK, InitSemaphore
<1>3. TypeOK'
  <2>1. InitSemaphore \in [owner : Openers \cup Framers \cup {NoOne}, wait : Seq(Openers)]
    BY DEF InitSemaphore
  <2>2. openCnt' \in 0..Cardinality(Openers)
    BY CountBound
  <2>3. stage' \in 0..stages'
    BY DEF IInv, TypeOK
  <2> QED  BY <1>1, <2>1, <2>2, <2>3 DEF IInv, TypeOK
<1>4. \A p \in Openers : io[p] # "pending"
  BY DEF IInv, Reads, Failing, Closing, Only
<1>5. joined = {}
  BY DEF IInv, Members, Failing, Closing, Only, TypeOK
<1>6. \A f \in Framers : fr[f].staged = 0
  BY <1>4, NoReads DEF IInv, Reads
<1>7. Members'
  BY <1>2, <1>5, <1>6 DEF IInv, Members
<1>8. Reads'
  BY <1>4, ReadsFrame DEF IInv
<1> QED  BY <1>2, <1>3, <1>7, <1>8 DEF IInv, Phase

\* The failed open leaves the device quiet again.
LEMMA OpenUndoneKeeps ==
  ASSUME IInv, NEW o \in Openers, OpenUndone(o)
  PROVE  IInv'
<1>1. Failing(o)
  BY OpenerPhase DEF OpenUndone
<1>2. openCnt' = 0 /\ groups' = FALSE /\ stage' = 0 /\ delexp' \in BOOLEAN /\ gone' \in BOOLEAN
  BY <1>1 DEF OpenUndone, Failing, IInv, TypeOK
<1> QED  BY <1>1, <1>2, BecomesQuiet DEF OpenUndone, ioVars, netVars

\* The last close, once the framer has ended, and the expunge after it.
LEMMA CloseFinishKeeps ==
  ASSUME IInv, NEW o \in Openers, CloseFinish(o)
  PROVE  IInv'
<1>1. Closing(o)
  BY OpenerPhase DEF CloseFinish
<1>2. openCnt' = 0 /\ delexp' \in BOOLEAN /\ gone' \in BOOLEAN
  BY <1>1 DEF CloseFinish, DevExpunge, Closing, IInv, TypeOK
<1> QED  BY <1>1, <1>2, BecomesQuiet DEF CloseFinish, ioVars, netVars

-----------------------------------------------------------------------------
(* DevClose and DevExpunge.                                                *)

\* A close that leaves others changes nothing for them.
LEMMA CloseNotLastKeeps ==
  ASSUME IInv, NEW o \in Openers, CloseNotLast(o)
  PROVE  IInv'
<1>1. Up /\ op[o] = "open" /\ openCnt > 1 /\ io[o] # "pending" /\ ~gone
  BY OpenerPhase DEF CloseNotLast, MayEnter
<1>2. /\ openCnt' = openCnt - 1 /\ op' = [op EXCEPT ![o] = "closed"] /\ joined' = joined \ {o}
      /\ UNCHANGED <<delexp, gone, proc, server, stage, stages, groups, exitSem, granted,
                     readList, io, sent, replied, fr, irqEn, backlog, frames>>
  BY DEF CloseNotLast, semVars, ioVars, netVars
<1>3. OpenSet' = OpenSet \ {o} /\ o \in OpenSet /\ \A p \in Openers \ {o} : op'[p] = op[p]
  BY <1>1, <1>2 DEF OpenSet, IInv, TypeOK
<1>4. openCnt' = Cardinality(OpenSet') /\ OpenSet' # {} /\ OpenSet' \subseteq Openers
  BY <1>1, <1>2, <1>3, OpenersCount DEF Up, IInv, OpenSet
<1>5. openCnt' \in 0..Cardinality(Openers)
  BY <1>4, CountBound
<1>6. TypeOK'
  BY <1>2, <1>5 DEF IInv, TypeOK
<1>7. Up'
  BY <1>1, <1>2, <1>3, <1>4 DEF Up, Single, Alive, IInv, TypeOK
<1>8. Members'
  BY <1>1, <1>2, <1>3 DEF IInv, Members, TypeOK
<1>9. \A p \in Openers : io[p] = "pending" => op'[p] = "open"
  BY <1>1, <1>3 DEF IInv, Reads
<1>10. Reads'
  BY <1>2, <1>9, ReadsFrame DEF IInv
<1> QED  BY <1>6, <1>7, <1>8, <1>10 DEF IInv, Phase

\* The last close tells the framer, which has no read in hand, to end.
LEMMA CloseLastKeeps ==
  ASSUME IInv, NEW o \in Openers, CloseLast(o)
  PROVE  IInv'
<1>1. PICK f \in Framers :
        /\ f = proc /\ Up /\ op[o] = "open" /\ openCnt = 1 /\ io[o] # "pending" /\ ~gone
        /\ exitSem = [owner |-> f, wait |-> <<>>] /\ granted = {} /\ Single(f)
        /\ fr[f].pc \in {"sleep", "drain", "copy", "rearm"}
  BY OpenerPhase DEF CloseLast, MayEnter, Up, Single
<1>2. /\ openCnt' = 0 /\ irqEn' = FALSE /\ server' = FALSE /\ proc' = NoProc
      /\ fr' = [fr EXCEPT ![f].sigC = TRUE]
      /\ op' = [op EXCEPT ![o] = "closing"] /\ joined' = joined \ {o}
      /\ UNCHANGED <<delexp, gone, stage, stages, groups, readList, io, sent, replied,
                     backlog, frames>>
  BY <1>1 DEF CloseLast, ioVars, netVars
<1>3. exitSem' = [owner |-> f, wait |-> <<o>>] /\ granted' = {}
  <2>1. ~Free
    BY <1>1, OpenersAssumption DEF Free
  <2>2. exitSem' = [exitSem EXCEPT !.wait = Append(@, o)] /\ granted' = granted
    BY <2>1 DEF CloseLast, Obtain
  <2>3. Append(<<>>, o) = <<o>>
    OBVIOUS
  <2> QED  BY <1>1, <2>2, <2>3
<1>4. \A p \in Openers \ {o} : op[p] = "closed"
  <2>1. OpenSet = {o}
    BY <1>1, OpenersCount DEF Up, IInv, OpenSet
  <2> QED  BY <1>1, <2>1 DEF Up, OpenSet
<1>5. \A p \in Openers : io[p] # "pending"
  BY <1>1, <1>4 DEF IInv, Reads
<1>6. /\ fr' \in [Framers -> FramerType] /\ \A g \in Framers \ {f} : fr'[g] = fr[g]
      /\ fr'[f].pc = fr[f].pc /\ fr'[f].sigC
      /\ fr'[f].req = fr[f].req /\ fr'[f].staged = fr[f].staged
  BY <1>2 DEF IInv, TypeOK, FramerType
<1>7. fr[f].pc # "copy"
  BY <1>5, NoReads
<1>8. TypeOK'
  <2>1. exitSem' \in [owner : Openers \cup Framers \cup {NoOne}, wait : Seq(Openers)]
    BY <1>3
  <2>2. openCnt' \in 0..Cardinality(Openers)
    BY <1>2, CountBound
  <2> QED  BY <1>2, <1>3, <1>6, <2>1, <2>2 DEF IInv, TypeOK
<1>9. Ending(o, f)'
  BY <1>1, <1>3, <1>6, <1>7 DEF Ending, Single, Alive
<1>10. Closing(o)'
  BY <1>1, <1>2, <1>4, <1>9 DEF Closing, Only, IInv, TypeOK
<1>11. joined' = {}
  BY <1>2, <1>4 DEF IInv, Members, TypeOK
<1>12. Members'
  BY <1>1, <1>2, <1>6, <1>11 DEF IInv, Members
<1>13. Reads'
  BY <1>2, <1>5, <1>6, ReadsFrame DEF IInv
<1> QED  BY <1>8, <1>10, <1>12, <1>13 DEF IInv, Phase

\* Exec's expunge frees a base that is quiet, and puts it off otherwise.
LEMMA ExpungeKeeps ==
  ASSUME IInv, ~Overlap, Expunge
  PROVE  IInv'
<1>1. ~gone /\ (Quiet \/ Up)
  BY EnterPhase DEF Expunge
<1>2. UNCHANGED <<openCnt, proc, server, stage, stages, groups, exitSem, granted, op, joined,
                  readList, io, sent, replied, fr, irqEn, backlog, frames>>
  BY DEF Expunge, semVars, ioVars, netVars
<1>3. delexp' \in BOOLEAN /\ gone' \in BOOLEAN /\ (gone' => openCnt = 0)
  BY <1>1, <1>2 DEF Expunge, DevExpunge, IInv, TypeOK
<1>4. TypeOK'
  BY <1>2, <1>3 DEF IInv, TypeOK
<1>5. (Quiet => Quiet') /\ (Up => Up' /\ openCnt # 0)
  <2>1. Quiet => Quiet'
    BY <1>2 DEF Quiet, Alive, InitSemaphore
  <2>2. Up => Up'
    BY <1>2 DEF Up, OpenSet, Single, Alive
  <2>3. Up => openCnt # 0
    BY OpenersCount DEF Up, IInv, OpenSet
  <2> QED  BY <2>1, <2>2, <2>3
<1>6. Members'
  BY <1>1, <1>2, <1>3, <1>5 DEF IInv, Members
<1>7. Reads'
  BY <1>2 DEF IInv, Reads, Places
<1> QED  BY <1>1, <1>4, <1>5, <1>6, <1>7 DEF IInv, Phase

-----------------------------------------------------------------------------
(* Reads.                                                                  *)

\* CMD_READ puts a request that is nowhere at the head of the list.
LEMMA CmdReadKeeps ==
  ASSUME IInv, NEW o \in Openers, CmdRead(o)
  PROVE  IInv'
<1>1. /\ Up /\ op[o] = "open" /\ io[o] # "pending"
      /\ readList' = <<o>> \o readList /\ io' = [io EXCEPT ![o] = "pending"]
      /\ sent' = [sent EXCEPT ![o] = @ + 1]
      /\ UNCHANGED <<openCnt, delexp, gone, proc, server, stage, stages, groups, exitSem,
                     granted, op, joined, replied, fr, irqEn, backlog, frames>>
  BY OpenerPhase DEF CmdRead, libVars, semVars, netVars
<1>2. /\ readList' \in Seq(Openers) /\ Len(readList') = Len(readList) + 1
      /\ Len(readList) \in Nat /\ readList \in [1..Len(readList) -> Openers]
      /\ readList'[1] = o /\ \A i \in 2..Len(readList) + 1 : readList'[i] = readList[i - 1]
  <2>1. <<o>> \in Seq(Openers) /\ Len(<<o>>) = 1 /\ readList \in Seq(Openers)
    BY DEF IInv, TypeOK
  <2>2. Len(readList) \in Nat /\ readList \in [1..Len(readList) -> Openers]
    BY <2>1, LenProperties
  <2> QED  BY <1>1, <2>1, <2>2, ConcatProperties
<1>3. Places(o) = {} /\ \A f \in Framers : fr[f].req # o
  BY <1>1 DEF IInv, Reads
<1>4. \A i \in 1..Len(readList) : readList[i] # o
  BY <1>3 DEF Places
<1>5. TypeOK'
  BY <1>1, <1>2 DEF IInv, TypeOK
<1>6. Up'
  BY <1>1 DEF Up, OpenSet, Single, Alive
<1>7. ~gone
  BY <1>1 DEF IInv, Members, Quiet
<1>8. Members'
  BY <1>1, <1>7 DEF IInv, Members
<1>9. ASSUME NEW i \in 1..Len(readList'), NEW j \in 1..Len(readList'),
             readList'[i] = readList'[j]
      PROVE  i = j
  <2>1. \A k, m \in 1..Len(readList) : readList[k] = readList[m] => k = m
    BY DEF IInv, Reads
  <2> QED  BY <1>2, <1>4, <1>9, <2>1
<1>10. ASSUME NEW p, p # o
       PROVE  Places(p)' # {} <=> Places(p) # {}
  <2>1. ASSUME NEW i \in Places(p)
        PROVE  i + 1 \in Places(p)'
    BY <1>2, <2>1 DEF Places
  <2>2. ASSUME NEW i \in Places(p)'
        PROVE  i - 1 \in Places(p)
    BY <1>2, <1>10, <2>2 DEF Places
  <2> QED  BY <2>1, <2>2
<1>11. 1 \in Places(o)'
  BY <1>2 DEF Places
<1>12. Reads'
  <2>1. ASSUME NEW f \in Framers
        PROVE  /\ fr'[f].pc = "copy" <=> fr'[f].req # NoOne
               /\ fr'[f].pc # "copy" => fr'[f].staged = 0
               /\ Places(fr[f].req)' = {}
    BY <1>1, <1>3, <1>10 DEF IInv, Reads
  <2>2. ASSUME NEW p \in Openers
        PROVE  /\ io'[p] = "pending" <=> Places(p)' # {} \/ \E f \in Framers : fr'[f].req = p
               /\ io'[p] = "pending" => op'[p] = "open"
               /\ sent'[p] = replied'[p] + (IF io'[p] = "pending" THEN 1 ELSE 0)
    <3>1. CASE p = o
      <4>1. io'[o] = "pending" /\ Places(o)' # {}
        BY <1>1, <1>11 DEF IInv, TypeOK
      <4>2. sent'[o] = sent[o] + 1 /\ replied' = replied /\ sent[o] = replied[o]
            /\ replied[o] \in Nat
        BY <1>1 DEF IInv, Reads, TypeOK
      <4> QED  BY <1>1, <3>1, <4>1, <4>2
    <3>2. CASE p # o
      <4>1. io'[p] = io[p] /\ sent'[p] = sent[p] /\ (Places(p)' # {} <=> Places(p) # {})
        BY <1>1, <1>10, <3>2 DEF IInv, TypeOK
      <4> QED  BY <1>1, <4>1 DEF IInv, Reads
    <3> QED  BY <3>1, <3>2
  <2> QED  BY <1>9, <2>1, <2>2 DEF Reads
<1> QED  BY <1>5, <1>6, <1>8, <1>12 DEF IInv, Phase

\* S2_ADDMULTICASTADDRESS.
LEMMA AddMulticastKeeps ==
  ASSUME IInv, NEW o \in Openers, AddMulticast(o)
  PROVE  IInv'
<1>1. /\ Up /\ op[o] = "open" /\ groups' = TRUE /\ joined' = joined \cup {o}
      /\ UNCHANGED <<openCnt, delexp, gone, proc, server, stage, stages, exitSem, granted, op,
                     readList, io, sent, replied, fr, irqEn, backlog, frames>>
  BY OpenerPhase DEF AddMulticast, libVars, semVars, ioVars, netVars
<1>2. TypeOK' /\ Up' /\ ~gone
  BY <1>1 DEF IInv, TypeOK, Up, OpenSet, Single, Alive, Members, Quiet
<1>3. Members'
  BY <1>1, <1>2 DEF IInv, Members
<1>4. Reads'
  BY <1>1 DEF IInv, Reads, Places
<1> QED  BY <1>2, <1>3, <1>4 DEF IInv, Phase

\* Remove takes one request from the list and moves no other.
LEMMA WithoutOne ==
  ASSUME IInv, NEW o \in Openers, NEW i \in Places(o), readList' = Without(i)
  PROVE  /\ readList' \in Seq(Openers)
         /\ \A k, m \in 1..Len(readList') : readList'[k] = readList'[m] => k = m
         /\ Places(o)' = {}
         /\ \A p : p # o => (Places(p)' # {} <=> Places(p) # {})
<1>1. Len(readList) \in Nat /\ readList \in [1..Len(readList) -> Openers]
  BY LenProperties DEF IInv, TypeOK
<1>2. PICK n \in Nat : n = Len(readList) - 1
  <2>1. i \in 1..Len(readList)
    BY DEF Places
  <2>2. Len(readList) - 1 \in Nat
    BY <1>1, <2>1
  <2> QED  BY <2>2
<1>3. i \in 1..Len(readList) /\ i \in 1..n + 1 /\ readList[i] = o
  BY <1>1, <1>2 DEF Places
<1>4. /\ readList' \in [1..n -> Openers]
      /\ \A j \in 1..n : readList'[j] = readList[IF j < i THEN j ELSE j + 1]
  BY <1>1, <1>2 DEF Without
<1>5. readList' \in Seq(Openers) /\ Len(readList') = n
  <2>1. readList' \in Seq(Openers)
    BY <1>4, SeqDef
  <2>2. PICK m \in Nat : m = Len(readList') /\ DOMAIN readList' = 1..m
    BY <2>1, LenProperties
  <2>3. 1..m = 1..n
    BY <1>4, <2>2
  <2>4. m = n
    <3>1. (n # 0 => n \in 1..n) /\ (m # 0 => m \in 1..m)
      OBVIOUS
    <3> QED  BY <2>3, <3>1
  <2> QED  BY <2>1, <2>2, <2>4
<1>6. \A k, m \in 1..Len(readList) : readList[k] = readList[m] => k = m
  BY DEF IInv, Reads
<1>7. \A k, m \in 1..n : readList'[k] = readList'[m] => k = m
  BY <1>1, <1>2, <1>3, <1>4, <1>6
<1>8. Places(o)' = {}
  <2>1. ASSUME NEW j \in 1..n
        PROVE  readList'[j] # o
    BY <1>1, <1>2, <1>3, <1>4, <1>6
  <2> QED  BY <1>5, <2>1 DEF Places
<1>9. ASSUME NEW p, p # o
      PROVE  Places(p)' # {} <=> Places(p) # {}
  <2>1. ASSUME NEW j \in Places(p)'
        PROVE  Places(p) # {}
    <3>1. j \in 1..n /\ readList[IF j < i THEN j ELSE j + 1] = p
      BY <1>4, <1>5, <2>1 DEF Places
    <3>2. (IF j < i THEN j ELSE j + 1) \in 1..Len(readList)
      BY <1>1, <1>2, <3>1
    <3> QED  BY <3>1, <3>2 DEF Places
  <2>2. ASSUME NEW j \in Places(p)
        PROVE  Places(p)' # {}
    <3>1. j \in 1..Len(readList) /\ readList[j] = p /\ j # i
      BY <1>3, <1>9, <2>2 DEF Places
    <3>2. CASE j < i
      <4>1. j \in 1..n /\ readList'[j] = p
        BY <1>1, <1>2, <1>3, <1>4, <3>1, <3>2
      <4> QED  BY <1>5, <4>1 DEF Places
    <3>3. CASE j > i
      <4>1. j - 1 \in 1..n /\ readList'[j - 1] = p
        BY <1>1, <1>2, <1>3, <1>4, <3>1, <3>3
      <4> QED  BY <1>5, <4>1 DEF Places
    <3> QED  BY <1>1, <1>3, <3>1, <3>2, <3>3
  <2> QED  BY <2>1, <2>2
<1> QED  BY <1>1, <1>5, <1>7, <1>8, <1>9

\* DevAbortIO takes and replies a read that is still on the list.
LEMMA DevAbortIOKeeps ==
  ASSUME IInv, NEW o \in Openers, DevAbortIO(o)
  PROVE  IInv'
<1>1. PICK i \in Places(o) : readList' = Without(i)
  BY DEF DevAbortIO
<1>2. /\ Up /\ op[o] = "open" /\ io[o] = "pending" /\ io' = [io EXCEPT ![o] = "done"]
      /\ replied' = [replied EXCEPT ![o] = @ + 1]
      /\ UNCHANGED <<openCnt, delexp, gone, proc, server, stage, stages, groups, exitSem,
                     granted, op, joined, sent, fr, irqEn, backlog, frames>>
  BY OpenerPhase DEF DevAbortIO, libVars, semVars, netVars
<1>3. /\ readList' \in Seq(Openers)
      /\ \A k, m \in 1..Len(readList') : readList'[k] = readList'[m] => k = m
      /\ Places(o)' = {}
      /\ \A p : p # o => (Places(p)' # {} <=> Places(p) # {})
  BY <1>1, WithoutOne
<1>4. \A f \in Framers : fr[f].req # o
  BY <1>1 DEF IInv, Reads
<1>5. TypeOK' /\ Up'
  BY <1>2, <1>3 DEF IInv, TypeOK, Up, OpenSet, Single, Alive
<1>6. Members'
  BY <1>2 DEF IInv, Members, Quiet
<1>7. Reads'
  <2>1. ASSUME NEW f \in Framers
        PROVE  /\ fr'[f].pc = "copy" <=> fr'[f].req # NoOne
               /\ fr'[f].pc # "copy" => fr'[f].staged = 0
               /\ Places(fr[f].req)' = {}
    BY <1>2, <1>3, <1>4 DEF IInv, Reads
  <2>2. ASSUME NEW p \in Openers
        PROVE  /\ io'[p] = "pending" <=> Places(p)' # {} \/ \E f \in Framers : fr'[f].req = p
               /\ io'[p] = "pending" => op'[p] = "open"
               /\ sent'[p] = replied'[p] + (IF io'[p] = "pending" THEN 1 ELSE 0)
    <3>1. CASE p = o
      <4>1. io'[o] = "done" /\ Places(o)' = {} /\ fr' = fr
        BY <1>2, <1>3 DEF IInv, TypeOK
      <4>2. replied'[o] = replied[o] + 1 /\ sent' = sent /\ sent[o] = replied[o] + 1
            /\ replied[o] \in Nat
        BY <1>2 DEF IInv, Reads, TypeOK
      <4> QED  BY <1>4, <3>1, <4>1, <4>2
    <3>2. CASE p # o
      <4>1. io'[p] = io[p] /\ replied'[p] = replied[p] /\ (Places(p)' # {} <=> Places(p) # {})
        BY <1>2, <1>3, <3>2 DEF IInv, TypeOK
      <4> QED  BY <1>2, <4>1 DEF IInv, Reads
    <3> QED  BY <3>1, <3>2
  <2> QED  BY <1>3, <2>1, <2>2 DEF Reads
<1> QED  BY <1>5, <1>6, <1>7 DEF IInv, Phase

-----------------------------------------------------------------------------
(* The card, the interrupt server and the framer.                          *)

\* Only frames on the card change, or nothing does.
LEMMA FrameArrivesKeeps ==
  ASSUME IInv, backlog' \in Nat, frames' \in Nat,
         UNCHANGED <<openCnt, delexp, gone, proc, server, stage, stages, groups, readList,
                     exitSem, granted, op, joined, io, sent, replied, fr, irqEn>>
  PROVE  IInv'
<1>1. TypeOK'
  BY DEF IInv, TypeOK
<1>2. /\ (Quiet => Quiet') /\ (Up => Up')
      /\ \A o \in Openers : (Opening(o) => Opening(o)') /\ (Failing(o) => Failing(o)')
                            /\ (Closing(o) => Closing(o)')
  <2>1. (Quiet => Quiet') /\ (Up => Up')
    BY DEF Quiet, Up, OpenSet, Single, Alive, InitSemaphore
  <2>2. ASSUME NEW o \in Openers
        PROVE  (Opening(o) => Opening(o)') /\ (Failing(o) => Failing(o)')
               /\ (Closing(o) => Closing(o)')
    BY DEF Opening, Failing, Closing, Ending, Only, Single, Alive, InitSemaphore
  <2> QED  BY <2>1, <2>2
<1>3. Phase'
  BY <1>2 DEF IInv, Phase
<1>4. Members' /\ Reads'
  BY <1>2 DEF IInv, Members, Reads, Places
<1> QED  BY <1>1, <1>3, <1>4 DEF IInv

\* The interrupt server wakes the framer of the session.
LEMMA dev_isrKeeps ==
  ASSUME IInv, dev_isr
  PROVE  IInv'
<1>1. Up
  BY DEF dev_isr, IInv, Phase, Quiet, Opening, Failing, Closing
<1>2. PICK f \in Framers : f = proc /\ f # NoProc
  BY <1>1 DEF Up, Single, Framers, NoProc
<1>3. /\ irqEn' = FALSE /\ fr' = [fr EXCEPT ![f].sigF = TRUE]
      /\ UNCHANGED <<openCnt, delexp, gone, proc, server, stage, stages, groups, exitSem,
                     granted, op, joined, readList, io, sent, replied, backlog, frames>>
  BY <1>2 DEF dev_isr, libVars, semVars, ioVars, netVars
<1>4. /\ fr' \in [Framers -> FramerType] /\ \A g \in Framers \ {f} : fr'[g] = fr[g]
      /\ fr'[f].pc = fr[f].pc /\ fr'[f].sigC = fr[f].sigC /\ fr'[f].sigF
      /\ fr'[f].req = fr[f].req /\ fr'[f].staged = fr[f].staged
  BY <1>3 DEF IInv, TypeOK, FramerType
<1>5. TypeOK'
  BY <1>3, <1>4 DEF IInv, TypeOK
<1>6. Up'
  BY <1>1, <1>2, <1>3, <1>4 DEF Up, OpenSet, Single, Alive
<1>7. ~gone /\ fr[f].pc # "none"
  BY <1>1, <1>2 DEF IInv, Members, Quiet, Up
<1>8. Members'
  BY <1>3, <1>4, <1>7 DEF IInv, Members
<1>9. \A o \in Openers : io[o] = "pending" => op'[o] = "open"
  BY <1>3 DEF IInv, Reads
<1>10. Reads'
  BY <1>3, <1>4, <1>9, ReadsFrame DEF IInv
<1> QED  BY <1>5, <1>6, <1>8, <1>10 DEF IInv, Phase

\* The framer takes the semaphore before it answers the first open.
LEMMA FramerStartKeeps ==
  ASSUME IInv, NEW f \in Framers, FramerStart(f)
  PROVE  IInv'
<1>1. /\ exitSem' = [exitSem EXCEPT !.owner = f] /\ fr' = [fr EXCEPT ![f].pc = "sleep"]
      /\ UNCHANGED <<openCnt, delexp, gone, granted, proc, server, stage, stages, groups, op,
                     joined, readList, io, sent, replied, irqEn, backlog, frames>>
      /\ fr[f].pc = "start"
  BY DEF FramerStart, libVars, ioVars, netVars
<1>2. PICK o \in Openers : Opening(o) /\ f = proc
  BY <1>1, FramerPhase DEF Alive, Up, Ending
<1>3. exitSem' = [owner |-> f, wait |-> <<>>]
  BY <1>1, <1>2 DEF Opening, InitSemaphore
<1>4. /\ fr' \in [Framers -> FramerType] /\ \A g \in Framers \ {f} : fr'[g] = fr[g]
      /\ fr'[f].pc = "sleep" /\ fr'[f].sigC = fr[f].sigC /\ fr'[f].sigF = fr[f].sigF
      /\ fr'[f].req = fr[f].req /\ fr'[f].staged = fr[f].staged
  BY <1>1 DEF IInv, TypeOK, FramerType
<1>5. TypeOK'
  <2>1. exitSem' \in [owner : Openers \cup Framers \cup {NoOne}, wait : Seq(Openers)]
    BY <1>3
  <2> QED  BY <1>1, <1>4, <2>1 DEF IInv, TypeOK
<1>6. Opening(o)'
  BY <1>1, <1>2, <1>3, <1>4 DEF Opening, Only, Single, Alive
<1>7. ~gone
  BY <1>2 DEF IInv, Members, Quiet, Opening, Only
<1>8. Members'
  BY <1>1, <1>4, <1>7 DEF IInv, Members
<1>9. \A p \in Openers : io[p] = "pending" => op'[p] = "open"
  BY <1>1 DEF IInv, Reads
<1>10. Reads'
  BY <1>1, <1>4, <1>9, ReadsFrame DEF IInv
<1> QED  BY <1>5, <1>6, <1>8, <1>10 DEF IInv, Phase

\* The framer's loop between two frames: it obeys CTRL_C, and sleeps only with
\* the interrupt armed or a signal pending.
LEMMA FramerMoves ==
  ASSUME IInv, NEW f \in Framers, fr[f].pc \in {"sleep", "drain", "rearm"},
         fr[f].pc = "sleep" => fr[f].sigC \/ fr[f].sigF,
         fr' \in [Framers -> FramerType], \A g \in Framers \ {f} : fr'[g] = fr[g],
         fr'[f].pc \in {"sleep", "drain", "rearm", "exit"},
         fr'[f].pc = "exit" => fr[f].sigC,
         fr'[f].sigC <=> fr[f].sigC /\ fr'[f].pc # "exit",
         fr'[f].req = fr[f].req, fr'[f].staged = fr[f].staged,
         irqEn' \in BOOLEAN, irqEn' \/ fr'[f].pc # "sleep",
         UNCHANGED <<openCnt, delexp, gone, proc, server, stage, stages, groups, exitSem,
                     granted, op, joined, readList, io, sent, replied, backlog, frames>>
  PROVE  IInv'
<1>1. Alive(f) /\ Alive(f)'
  BY DEF Alive
<1>2. TypeOK'
  BY DEF IInv, TypeOK
<1>3. ASSUME NEW o \in Openers, Opening(o), f = proc
      PROVE  FALSE
  BY <1>3 DEF Opening
<1>4. ASSUME NEW o \in Openers, Failing(o) \/ Closing(o), Ending(o, f)
      PROVE  Phase'
  <2>1. Ending(o, f)'
    BY <1>1, <1>4 DEF Ending, Single, Alive
  <2>2. (Failing(o) => Failing(o)') /\ (Closing(o) => Closing(o)')
    BY <2>1 DEF Failing, Closing, Only
  <2> QED  BY <1>4, <2>2 DEF Phase
<1>5. Phase'
  <2>1. CASE Up /\ f = proc
    <3>1. Up'
      BY <1>1, <2>1 DEF Up, OpenSet, Single, Alive
    <3> QED  BY <3>1 DEF Phase
  <2> QED  BY <1>1, <1>3, <1>4, <2>1, FramerPhase
<1>6. ~gone
  BY <1>1 DEF IInv, Members, Quiet
<1>7. Members'
  BY <1>6 DEF IInv, Members
<1>8. \A o \in Openers : io[o] = "pending" => op'[o] = "open"
  BY DEF IInv, Reads
<1>9. Reads'
  BY <1>8, ReadsFrame DEF IInv
<1> QED  BY <1>2, <1>5, <1>7, <1>9 DEF IInv

\* Wait returns.
LEMMA FramerWakeKeeps ==
  ASSUME IInv, NEW f \in Framers, FramerWake(f)
  PROVE  IInv'
<1>1. PICK to \in {"drain", "exit"} :
        /\ to = "exit" <=> fr[f].sigC
        /\ fr' = [fr EXCEPT ![f].pc = to, ![f].sigC = FALSE, ![f].sigF = FALSE]
  BY DEF FramerWake
<1>2. /\ fr[f].pc = "sleep" /\ (fr[f].sigC \/ fr[f].sigF) /\ irqEn \in BOOLEAN
      /\ UNCHANGED <<openCnt, delexp, gone, proc, server, stage, stages, groups, exitSem,
                     granted, op, joined, readList, io, sent, replied, irqEn, backlog, frames>>
  BY DEF FramerWake, libVars, semVars, ioVars, netVars, IInv, TypeOK
<1>3. /\ fr' \in [Framers -> FramerType] /\ \A g \in Framers \ {f} : fr'[g] = fr[g]
      /\ fr'[f].pc = to /\ ~fr'[f].sigC
      /\ fr'[f].req = fr[f].req /\ fr'[f].staged = fr[f].staged
  <2>1. fr \in [Framers -> FramerType] /\ fr[f] \in FramerType
    BY DEF IInv, TypeOK
  <2>2. PICK r : r = [fr[f] EXCEPT !.pc = to]
    OBVIOUS
  <2>3. r \in FramerType /\ r.pc = to /\ r.req = fr[f].req /\ r.staged = fr[f].staged
    BY <2>1, <2>2 DEF FramerType
  <2>4. PICK k : k = [r EXCEPT !.sigC = FALSE]
    OBVIOUS
  <2>5. /\ k \in FramerType /\ k.pc = to /\ ~k.sigC
        /\ k.req = fr[f].req /\ k.staged = fr[f].staged
    BY <2>3, <2>4 DEF FramerType
  <2>6. PICK m : m = [k EXCEPT !.sigF = FALSE]
    OBVIOUS
  <2>7. /\ m \in FramerType /\ m.pc = to /\ ~m.sigC
        /\ m.req = fr[f].req /\ m.staged = fr[f].staged
    BY <2>5, <2>6 DEF FramerType
  <2>8. fr' = [fr EXCEPT ![f] = m]
    BY <1>1, <2>1, <2>2, <2>4, <2>6
  <2> QED  BY <2>1, <2>7, <2>8
<1> QED  BY <1>1, <1>2, <1>3, FramerMoves

\* The queue is empty, and then the interrupt is armed again.
LEMMA FramerRearmKeeps ==
  ASSUME IInv, NEW f \in Framers, FramerEmpty(f) \/ FramerRearm(f)
  PROVE  IInv'
<1>1. PICK to \in {"rearm", "sleep"} :
      /\ fr' = [fr EXCEPT ![f].pc = to]
      /\ fr[f].pc \in {"drain", "rearm"} /\ (to = "sleep" => irqEn')
      /\ irqEn' \in {irqEn, TRUE}
      /\ UNCHANGED <<openCnt, delexp, gone, proc, server, stage, stages, groups, exitSem,
                     granted, op, joined, readList, io, sent, replied, backlog, frames>>
  BY DEF FramerEmpty, FramerRearm, libVars, semVars, ioVars, netVars
<1>2. /\ fr' \in [Framers -> FramerType] /\ \A g \in Framers \ {f} : fr'[g] = fr[g]
      /\ fr'[f].pc = to /\ fr'[f].sigC = fr[f].sigC
      /\ fr'[f].req = fr[f].req /\ fr'[f].staged = fr[f].staged
  BY <1>1 DEF IInv, TypeOK, FramerType
<1>3. irqEn' \in BOOLEAN
  BY <1>1 DEF IInv, TypeOK
<1> QED  BY <1>1, <1>2, <1>3, FramerMoves

\* The framer ends: the opener that waits for it has the semaphore.
LEMMA FramerExitKeeps ==
  ASSUME IInv, NEW f \in Framers, FramerExit(f)
  PROVE  IInv'
<1>1. /\ fr' = [fr EXCEPT ![f].pc = "dead"] /\ fr[f].pc = "exit" /\ irqEn' = FALSE
      /\ Release({})
      /\ UNCHANGED <<openCnt, delexp, gone, proc, server, stage, stages, groups, op,
                     joined, readList, io, sent, replied, backlog, frames>>
  BY DEF FramerExit, libVars, ioVars, netVars
<1>2. PICK o \in Openers : (Failing(o) \/ Closing(o)) /\ Ending(o, f)
  BY <1>1, FramerPhase DEF Alive, Up, Opening
<1>3. exitSem = [owner |-> f, wait |-> <<o>>] /\ granted = {}
  BY <1>1, <1>2 DEF Ending
<1>4. exitSem' = [owner |-> o, wait |-> <<>>] /\ granted' = {o}
  <2>1. exitSem.wait # <<>> /\ Head(exitSem.wait) = o /\ Tail(exitSem.wait) = <<>>
    BY <1>3
  <2> QED  BY <1>1, <1>3, <2>1 DEF Release
<1>5. /\ fr' \in [Framers -> FramerType] /\ \A g \in Framers \ {f} : fr'[g] = fr[g]
      /\ fr'[f].pc = "dead"
      /\ fr'[f].req = fr[f].req /\ fr'[f].staged = fr[f].staged
  BY <1>1 DEF IInv, TypeOK, FramerType
<1>6. TypeOK'
  <2>1. exitSem' \in [owner : Openers \cup Framers \cup {NoOne}, wait : Seq(Openers)]
    BY <1>4
  <2> QED  BY <1>1, <1>4, <1>5, <2>1 DEF IInv, TypeOK
<1>7. Ending(o, f)'
  BY <1>1, <1>2, <1>4, <1>5 DEF Ending, Single, Alive
<1>8. Phase'
  <2>1. (Failing(o) => Failing(o)') /\ (Closing(o) => Closing(o)')
    BY <1>1, <1>7 DEF Failing, Closing, Only
  <2> QED  BY <1>2, <2>1 DEF Phase
<1>9. ~gone
  BY <1>2 DEF IInv, Members, Quiet, Failing, Closing, Only
<1>10. Members'
  BY <1>1, <1>5, <1>9 DEF IInv, Members
<1>11. \A p \in Openers : io[p] = "pending" => op'[p] = "open"
  BY <1>1 DEF IInv, Reads
<1>12. Reads'
  BY <1>1, <1>5, <1>11, ReadsFrame DEF IInv
<1> QED  BY <1>6, <1>8, <1>10, <1>12 DEF IInv

\* A nonempty set of places in the list has a first one.
LEMMA FirstPlace ==
  ASSUME NEW S \in SUBSET Nat, S # {}
  PROVE  \E m \in S : \A n \in S : m <= n
<1>1. PICK m \in S : \A n \in S : <<n, m>> \notin OpToRel(<, Nat)
  BY NatLessThanWellFounded, WFMin, Zenon
<1>2. \A n \in S : m <= n
  <2> SUFFICES ASSUME NEW n \in S
               PROVE  m <= n
    OBVIOUS
  <2>1. ~(n < m)
    BY <1>1, Zenon DEF OpToRel
  <2> QED  BY <2>1
<1> QED  BY <1>2

\* A frame for a reader: its request moves from the list to the framer.
LEMMA FramerTakeKeeps ==
  ASSUME IInv, NEW f \in Framers, FramerTake(f)
  PROVE  IInv'
<1>1. PICK t \in Types :
        /\ Matches(t) # {} /\ readList' = Without(FirstOf(t))
        /\ fr' = [fr EXCEPT ![f].pc = "copy", ![f].req = readList[FirstOf(t)],
                            ![f].staged = stage]
  BY DEF FramerTake
<1>2. /\ fr[f].pc = "drain"
      /\ UNCHANGED <<openCnt, delexp, gone, proc, server, stage, stages, groups, exitSem,
                     granted, op, joined, io, sent, replied, irqEn, backlog, frames>>
  BY DEF FramerTake, libVars, semVars, netVars
<1>3. PICK i \in 1..Len(readList) : i = FirstOf(t)
  <2>1. Matches(t) \in SUBSET Nat
    BY DEF Matches
  <2>2. FirstOf(t) \in Matches(t)
    BY <1>1, <2>1, FirstPlace DEF FirstOf
  <2> QED  BY <2>2 DEF Matches
<1>4. PICK o \in Openers : o = readList[i] /\ i \in Places(o)
  <2>1. readList \in [1..Len(readList) -> Openers]
    BY LenProperties DEF IInv, TypeOK
  <2> QED  BY <2>1 DEF Places
<1>5. /\ readList' \in Seq(Openers)
      /\ \A k, m \in 1..Len(readList') : readList'[k] = readList'[m] => k = m
      /\ Places(o)' = {}
      /\ \A p : p # o => (Places(p)' # {} <=> Places(p) # {})
  BY <1>1, <1>3, <1>4, WithoutOne
<1>6. io[o] = "pending" /\ op[o] = "open" /\ \A g \in Framers : fr[g].req # o
  BY <1>4 DEF IInv, Reads
<1>7. Up /\ f = proc
  <2>1. Up /\ Alive(f)
    BY <1>2, <1>6, OpenerPhase DEF Alive
  <2> QED  BY <2>1 DEF Up, Single
<1>8. /\ fr' \in [Framers -> FramerType] /\ \A g \in Framers \ {f} : fr'[g] = fr[g]
      /\ fr'[f].pc = "copy" /\ fr'[f].sigC = fr[f].sigC /\ fr'[f].sigF = fr[f].sigF
      /\ fr'[f].req = o /\ fr'[f].staged = stage
  <2>1. fr \in [Framers -> FramerType] /\ fr[f] \in FramerType /\ stage \in Nat
    BY DEF IInv, TypeOK
  <2>2. PICK r : r = [fr[f] EXCEPT !.pc = "copy"]
    OBVIOUS
  <2>3. r \in FramerType /\ r.pc = "copy" /\ r.sigC = fr[f].sigC /\ r.sigF = fr[f].sigF
    BY <2>1, <2>2 DEF FramerType
  <2>4. PICK k : k = [r EXCEPT !.req = o]
    OBVIOUS
  <2>5. /\ k \in FramerType /\ k.pc = "copy" /\ k.sigC = fr[f].sigC /\ k.sigF = fr[f].sigF
        /\ k.req = o
    BY <2>3, <2>4 DEF FramerType
  <2>6. PICK m : m = [k EXCEPT !.staged = stage]
    OBVIOUS
  <2>7. /\ m \in FramerType /\ m.pc = "copy" /\ m.sigC = fr[f].sigC /\ m.sigF = fr[f].sigF
        /\ m.req = o /\ m.staged = stage
    BY <2>1, <2>5, <2>6 DEF FramerType
  <2>8. fr' = [fr EXCEPT ![f] = m]
    BY <1>1, <1>3, <1>4, <2>1, <2>2, <2>4, <2>6
  <2> QED  BY <2>1, <2>7, <2>8
<1>9. TypeOK'
  BY <1>2, <1>5, <1>8 DEF IInv, TypeOK
<1>10. Up'
  BY <1>2, <1>7, <1>8 DEF Up, OpenSet, Single, Alive
<1>11. Members'
  <2>1. ~gone
    BY <1>6 DEF IInv, Members, Quiet
  <2>2. \A g \in Framers : /\ fr'[g].pc = "none" => ~fr'[g].sigC /\ ~fr'[g].sigF
                           /\ fr'[g].staged \in {0, stage}
    BY <1>8 DEF IInv, Members
  <2> QED  BY <1>2, <2>1, <2>2 DEF IInv, Members
<1>12. Reads'
  <2>1. ASSUME NEW g \in Framers
        PROVE  /\ fr'[g].pc = "copy" <=> fr'[g].req # NoOne
               /\ fr'[g].pc # "copy" => fr'[g].staged = 0
               /\ Places(fr[g].req)' = {}
    <3>1. CASE g = f
      BY <1>4, <1>5, <1>8, <3>1, OpenersAssumption
    <3>2. CASE g # f
      <4>1. PICK q : q = fr[g].req /\ q # o /\ Places(q) = {} /\ fr'[g] = fr[g]
        BY <1>6, <1>8, <3>2 DEF IInv, Reads
      <4>2. Places(q)' = {} /\ q = fr'[g].req
        BY <1>5, <4>1
      <4> QED  BY <4>1, <4>2 DEF IInv, Reads
    <3> QED  BY <3>1, <3>2
  <2>2. ASSUME NEW p \in Openers
        PROVE  /\ io'[p] = "pending" <=> Places(p)' # {} \/ \E g \in Framers : fr'[g].req = p
               /\ io'[p] = "pending" => op'[p] = "open"
               /\ sent'[p] = replied'[p] + (IF io'[p] = "pending" THEN 1 ELSE 0)
    <3>1. CASE p = o
      BY <1>2, <1>6, <1>8, <3>1 DEF IInv, Reads
    <3>2. CASE p # o
      <4>1. fr[f].req # p
        BY <1>2, OpenersAssumption DEF IInv, Reads
      <4>2. (\E g \in Framers : fr'[g].req = p) <=> (\E g \in Framers : fr[g].req = p)
        BY <1>8, <3>2, <4>1
      <4>3. Places(p)' # {} <=> Places(p) # {}
        BY <1>5, <3>2
      <4> QED  BY <1>2, <4>2, <4>3 DEF IInv, Reads
    <3> QED  BY <3>1, <3>2
  <2> QED  BY <1>5, <2>1, <2>2 DEF Reads
<1> QED  BY <1>9, <1>10, <1>11, <1>12 DEF IInv, Phase

\* The copy is over: the request is replied.
LEMMA FramerReplyKeeps ==
  ASSUME IInv, NEW f \in Framers, FramerReply(f)
  PROVE  IInv'
<1>1. Up /\ f = proc /\ fr[f].pc = "copy"
  BY CopyPhase DEF FramerReply
<1>2. PICK o \in Openers : o = fr[f].req
  BY <1>1 DEF IInv, Reads, TypeOK, FramerType
<1>3. /\ io' = [io EXCEPT ![o] = "done"] /\ replied' = [replied EXCEPT ![o] = @ + 1]
      /\ backlog' = (IF backlog > 0 THEN backlog - 1 ELSE 0)
      /\ fr' = [fr EXCEPT ![f].pc = "drain", ![f].req = NoOne, ![f].staged = 0]
      /\ UNCHANGED <<openCnt, delexp, gone, proc, server, stage, stages, groups, exitSem,
                     granted, op, joined, readList, sent, irqEn, frames>>
  BY <1>2 DEF FramerReply, libVars, semVars
<1>4. \A g \in Framers \ {f} : fr[g].pc # "copy" /\ fr[g].req = NoOne
  BY <1>1 DEF Up, Single, Alive, IInv, Reads
<1>5. io[o] = "pending" /\ op[o] = "open" /\ Places(o) = {}
  BY <1>2 DEF IInv, Reads
<1>6. /\ fr' \in [Framers -> FramerType] /\ \A g \in Framers \ {f} : fr'[g] = fr[g]
      /\ fr'[f].pc = "drain" /\ fr'[f].sigC = fr[f].sigC /\ fr'[f].sigF = fr[f].sigF
      /\ fr'[f].req = NoOne /\ fr'[f].staged = 0
  <2>1. fr \in [Framers -> FramerType] /\ fr[f] \in FramerType
    BY DEF IInv, TypeOK
  <2>2. PICK r : r = [fr[f] EXCEPT !.pc = "drain"]
    OBVIOUS
  <2>3. r \in FramerType /\ r.pc = "drain" /\ r.sigC = fr[f].sigC /\ r.sigF = fr[f].sigF
    BY <2>1, <2>2 DEF FramerType
  <2>4. PICK k : k = [r EXCEPT !.req = NoOne]
    OBVIOUS
  <2>5. /\ k \in FramerType /\ k.pc = "drain" /\ k.sigC = fr[f].sigC /\ k.sigF = fr[f].sigF
        /\ k.req = NoOne
    BY <2>3, <2>4 DEF FramerType
  <2>6. PICK m : m = [k EXCEPT !.staged = 0]
    OBVIOUS
  <2>7. /\ m \in FramerType /\ m.pc = "drain" /\ m.sigC = fr[f].sigC /\ m.sigF = fr[f].sigF
        /\ m.req = NoOne /\ m.staged = 0
    BY <2>5, <2>6 DEF FramerType
  <2>8. fr' = [fr EXCEPT ![f] = m]
    BY <1>3, <2>1, <2>2, <2>4, <2>6
  <2> QED  BY <2>1, <2>7, <2>8
<1>7. TypeOK'
  <2>1. backlog' \in Nat
    BY <1>3 DEF IInv, TypeOK
  <2>2. replied' \in [Openers -> Nat] /\ io' \in [Openers -> {"none", "pending", "done"}]
    BY <1>3 DEF IInv, TypeOK
  <2> QED  BY <1>3, <1>6, <2>1, <2>2 DEF IInv, TypeOK
<1>8. Up'
  BY <1>1, <1>3, <1>6 DEF Up, OpenSet, Single, Alive
<1>9. Members'
  <2>1. ~gone
    BY <1>5 DEF IInv, Members, Quiet
  <2>2. \A g \in Framers : /\ fr'[g].pc = "none" => ~fr'[g].sigC /\ ~fr'[g].sigF
                           /\ fr'[g].staged \in {0, stage}
    BY <1>6 DEF IInv, Members
  <2> QED  BY <1>3, <2>1, <2>2 DEF IInv, Members
<1>10. \A p : Places(p)' = Places(p)
  BY <1>3 DEF Places
<1>11. Places(NoOne) = {}
  <2>1. readList \in [1..Len(readList) -> Openers]
    BY LenProperties DEF IInv, TypeOK
  <2> QED  BY <2>1, OpenersAssumption DEF Places
<1>12. \A g \in Framers : fr'[g].req = NoOne /\ fr'[g].pc # "copy" /\ fr'[g].staged = 0
  BY <1>4, <1>6 DEF IInv, Reads
<1>13. Reads'
  <2>1. ASSUME NEW g \in Framers
        PROVE  /\ fr'[g].pc = "copy" <=> fr'[g].req # NoOne
               /\ fr'[g].pc # "copy" => fr'[g].staged = 0
               /\ Places(fr[g].req)' = {}
    <3>1. PICK q : q = fr'[g].req
      OBVIOUS
    <3>2. Places(q)' = {}
      BY <1>10, <1>11, <1>12, <3>1
    <3> QED  BY <1>12, <3>1, <3>2
  <2>2. ASSUME NEW p \in Openers
        PROVE  /\ io'[p] = "pending" <=> Places(p)' # {} \/ \E g \in Framers : fr'[g].req = p
               /\ io'[p] = "pending" => op'[p] = "open"
               /\ sent'[p] = replied'[p] + (IF io'[p] = "pending" THEN 1 ELSE 0)
    <3>1. p # NoOne
      BY OpenersAssumption
    <3>2. CASE p = o
      <4>1. io'[o] = "done" /\ Places(o)' = {}
        BY <1>3, <1>5, <1>10 DEF IInv, TypeOK
      <4>2. replied'[o] = replied[o] + 1 /\ sent' = sent /\ sent[o] = replied[o] + 1
            /\ replied[o] \in Nat
        BY <1>3, <1>5 DEF IInv, Reads, TypeOK
      <4> QED  BY <1>12, <3>1, <3>2, <4>1, <4>2
    <3>3. CASE p # o
      <4>1. io'[p] = io[p] /\ replied'[p] = replied[p] /\ Places(p)' = Places(p)
        BY <1>3, <1>10, <3>3 DEF IInv, TypeOK
      <4>2. ~\E g \in Framers : fr[g].req = p
        BY <1>2, <1>4, <3>1, <3>3
      <4>3. ~\E g \in Framers : fr'[g].req = p
        BY <1>12, <3>1
      <4>4. op'[p] = op[p] /\ sent'[p] = sent[p]
        BY <1>3
      <4>5. io[p] = "pending" <=> Places(p) # {}
        BY <4>2 DEF IInv, Reads
      <4>6. /\ io[p] = "pending" => op[p] = "open"
            /\ sent[p] = replied[p] + (IF io[p] = "pending" THEN 1 ELSE 0)
        BY DEF IInv, Reads
      <4> QED  BY <4>1, <4>3, <4>4, <4>5, <4>6
    <3> QED  BY <3>2, <3>3
  <2>3. \A i, j \in 1..Len(readList') : readList'[i] = readList'[j] => i = j
    BY <1>3 DEF IInv, Reads
  <2> QED  BY <2>1, <2>2, <2>3 DEF Reads
<1> QED  BY <1>7, <1>8, <1>9, <1>13 DEF IInv, Phase

-----------------------------------------------------------------------------
(* The invariant holds.                                                    *)

\* The device as Exec made it is quiet.
LEMMA InitIInv == Init => IInv
<1> SUFFICES ASSUME Init PROVE IInv
  OBVIOUS
<1>1. IsFiniteSet(Openers) /\ Cardinality(Openers) \in Nat
  BY OpenersAssumption, FS_CardinalityType
<1>2. fr \in [Framers -> FramerType]
  BY DEF Init, FramerType
<1>3. exitSem \in [owner : Openers \cup Framers \cup {NoOne}, wait : Seq(Openers)]
  BY DEF Init, InitSemaphore
<1>4. TypeOK
  <2>1. /\ delexp \in BOOLEAN /\ gone \in BOOLEAN /\ server \in BOOLEAN
        /\ irqEn \in BOOLEAN /\ groups \in BOOLEAN /\ proc \in Framers \cup {NoProc}
    BY DEF Init
  <2>2. /\ readList \in Seq(Openers) /\ granted \subseteq Openers /\ joined \subseteq Openers
        /\ backlog \in Nat /\ frames \in Nat /\ stages \in Nat /\ stage \in 0..stages
        /\ openCnt \in 0..Cardinality(Openers)
    BY <1>1 DEF Init
  <2>3. /\ op \in [Openers -> {"closed", "opening", "failing", "open", "closing"}]
        /\ io \in [Openers -> {"none", "pending", "done"}]
        /\ sent \in [Openers -> Nat] /\ replied \in [Openers -> Nat]
    BY DEF Init
  <2> QED  BY <1>2, <1>3, <2>1, <2>2, <2>3 DEF TypeOK
<1>5. Quiet
  BY DEF Init, Quiet, Alive
<1>6. Members
  BY <1>5 DEF Init, Members
<1>7. \A o : Places(o) = {}
  BY DEF Init, Places
<1>8. Reads
  BY <1>7, OpenersAssumption DEF Init, Reads
<1> QED  BY <1>4, <1>5, <1>6, <1>8 DEF IInv, Phase

\* A step that changes no more than the frames that wait on the card.
LEMMA CardStepKeeps ==
  ASSUME IInv, FrameArrives \/ (\E f \in Framers : FramerSkip(f)) \/ UNCHANGED vars
  PROVE  IInv'
<1>1. backlog' \in Nat /\ frames' \in Nat
  BY DEF IInv, TypeOK, FrameArrives, FramerSkip, vars
<1>2. UNCHANGED <<openCnt, delexp, gone, proc, server, stage, stages, groups, readList,
                  exitSem, granted, op, joined, io, sent, replied, fr, irqEn>>
  BY DEF FrameArrives, FramerSkip, vars, libVars, semVars, ioVars
<1> QED  BY <1>1, <1>2, FrameArrivesKeeps

\* Every step of an opener, of the interrupt and of a framer keeps it, as long
\* as Exec lets nobody in while a call waits.
LEMMA NextIInv ==
  ASSUME ~Overlap, IInv, [Next]_vars
  PROVE  IInv'
<1>1. ASSUME NEW o \in Openers, OpenFirst(o) \/ OpenFails(o) \/ OpenSecond(o)
      PROVE  IInv'
  BY <1>1, OpenFirstKeeps, OpenFailsKeeps, OpenSecondKeeps
<1>2. ASSUME NEW o \in Openers, CallReturns(o)
      PROVE  IInv'
  BY <1>2, OpenFinishKeeps, OpenUndoKeeps, OpenUndoneKeeps, CloseFinishKeeps DEF CallReturns
<1>3. ASSUME NEW o \in Openers, CloseNotLast(o) \/ CloseLast(o)
      PROVE  IInv'
  BY <1>3, CloseNotLastKeeps, CloseLastKeeps
<1>4. ASSUME NEW o \in Openers, CmdRead(o) \/ AddMulticast(o) \/ DevAbortIO(o)
      PROVE  IInv'
  BY <1>4, CmdReadKeeps, AddMulticastKeeps, DevAbortIOKeeps
<1>5. CASE Expunge
  BY <1>5, ExpungeKeeps
<1>6. CASE dev_isr
  BY <1>6, dev_isrKeeps
<1>7. CASE FrameArrives \/ UNCHANGED vars
  BY <1>7, CardStepKeeps
<1>8. ASSUME NEW f \in Framers, FramerStep(f)
      PROVE  IInv'
  <2>1. CASE FramerStart(f) \/ FramerWake(f)
    BY <2>1, FramerStartKeeps, FramerWakeKeeps
  <2>2. CASE FramerTake(f) \/ FramerReply(f)
    BY <2>2, FramerTakeKeeps, FramerReplyKeeps
  <2>3. CASE FramerSkip(f)
    BY <2>3, CardStepKeeps
  <2>4. CASE FramerEmpty(f) \/ FramerRearm(f) \/ FramerExit(f)
    BY <2>4, FramerRearmKeeps, FramerExitKeeps
  <2> QED  BY <1>8, <2>1, <2>2, <2>3, <2>4 DEF FramerStep
<1> QED  BY <1>1, <1>2, <1>3, <1>4, <1>5, <1>6, <1>7, <1>8 DEF Next

\* The invariant at every moment of every run without overlapping calls.
LEMMA Invariant == ASSUME ~Overlap PROVE Spec => []IInv
<1>1. IInv /\ [Next]_vars => IInv'
  BY NextIInv
<1> QED  BY <1>1, InitIInv, PTL DEF Spec

-----------------------------------------------------------------------------
(* What it gives.                                                          *)

\* While anyone has the device open, the session is up.
LEMMA UpWhenOpen == IInv => SessionUp
<1> SUFFICES ASSUME IInv, NEW o \in Openers, op[o] = "open"
             PROVE  /\ server /\ proc # NoProc /\ Alive(proc)
                    /\ \A f \in Framers : Alive(f) => f = proc
                    /\ irqEn \/ fr[proc].sigF \/ fr[proc].pc # "sleep"
                    /\ o \in joined => groups
  BY DEF SessionUp
<1>1. Up
  BY OpenerPhase
<1>2. proc # NoProc
  BY <1>1, BoundsAssumption DEF Up, Single, Framers, NoProc
<1> QED  BY <1>1, <1>2 DEF Up, Single, Alive

\* With every opener out, or the base freed, the device is quiet.
LEMMA QuietWhenOut == IInv => QuietWhenClosed
<1> SUFFICES ASSUME IInv, (\A o \in Openers : op[o] = "closed") \/ gone
             PROVE  Quiet
  BY DEF QuietWhenClosed, Quiet
<1>1. CASE gone
  BY <1>1 DEF IInv, Members
<1>2. CASE \A o \in Openers : op[o] = "closed"
  BY <1>2 DEF IInv, Phase, Up, OpenSet, Opening, Failing, Closing, Only
<1> QED  BY <1>1, <1>2

\* At most one framer holds a request.
LEMMA OneCopies ==
  ASSUME IInv, NEW f \in Framers, NEW g \in Framers, fr[f].req # NoOne, fr[g].req # NoOne
  PROVE  f = g
BY CopyPhase DEF IInv, Reads

\* A pending read is in one place and any other read in none.
LEMMA OncePending == IInv => ReplyOnce
<1> SUFFICES ASSUME IInv, NEW o \in Openers
             PROVE  LET places == Cardinality(Places(o))
                                  + Cardinality({f \in Framers : fr[f].req = o})
                    IN  /\ places = IF io[o] = "pending" THEN 1 ELSE 0
                        /\ sent[o] = replied[o] + places
  BY DEF ReplyOnce
<1> DEFINE InHands == {f \in Framers : fr[f].req = o}
<1>1. o # NoOne
  BY OpenersAssumption
<1>2. sent[o] = replied[o] + (IF io[o] = "pending" THEN 1 ELSE 0) /\ replied[o] \in Nat
  BY DEF IInv, Reads, TypeOK
<1>3. Cardinality(Places(o)) + Cardinality(InHands) = IF io[o] = "pending" THEN 1 ELSE 0
  <2>1. CASE io[o] # "pending"
    <3>1. Places(o) = {} /\ InHands = {}
      BY <2>1 DEF IInv, Reads
    <3> QED  BY <2>1, <3>1, FS_EmptySet
  <2>2. CASE io[o] = "pending" /\ Places(o) # {}
    <3>1. PICK i : i \in Places(o)
      BY <2>2
    <3>2. Places(o) = {i}
      BY <3>1 DEF Places, IInv, Reads
    <3>3. InHands = {}
      BY <2>2 DEF IInv, Reads
    <3>4. Cardinality(Places(o)) = 1 /\ Cardinality(InHands) = 0
      BY <3>2, <3>3, FS_EmptySet, FS_Singleton
    <3> QED  BY <2>2, <3>4
  <2>3. CASE io[o] = "pending" /\ Places(o) = {}
    <3>1. PICK f \in Framers : fr[f].req = o
      BY <2>3 DEF IInv, Reads
    <3>2. InHands = {f}
      BY <1>1, <3>1, OneCopies
    <3>3. Cardinality(Places(o)) = 0 /\ Cardinality(InHands) = 1
      BY <2>3, <3>2, FS_EmptySet, FS_Singleton
    <3> QED  BY <2>3, <3>3
  <2> QED  BY <2>1, <2>2, <2>3
<1> QED  BY <1>2, <1>3

\* Type correctness of the device base, the framers and the requests; the open
\* count stays within the number of openers.
THEOREM TypeCorrect == ASSUME ~Overlap PROVE Spec => []TypeOK
<1>1. IInv => TypeOK
  BY DEF IInv
<1> QED  BY <1>1, Invariant, PTL

\* No close or failed open of one opener takes the receive path from another:
\* DevClose tears it down only for the last one.
THEOREM SessionStaysUp == ASSUME ~Overlap PROVE Spec => []SessionUp
BY UpWhenOpen, Invariant, PTL

\* After the last DevClose, or a failed first DevOpen, nothing runs, fires or
\* stays allocated, and DevExpunge frees the base only then.
THEOREM ClosedMeansQuiet == ASSUME ~Overlap PROVE Spec => []QuietWhenClosed
BY QuietWhenOut, Invariant, PTL

\* DevAbortIO and the framer never both reply to a read, and neither loses one.
THEOREM RepliedOnce == ASSUME ~Overlap PROVE Spec => []ReplyOnce
BY OncePending, Invariant, PTL

\* DevClose frees the staging buffer only when no read_frame uses it.
THEOREM StageOutlivesCopy == ASSUME ~Overlap PROVE Spec => []StageNotFreedInUse
<1>1. IInv => StageNotFreedInUse
  BY DEF IInv, Members, StageNotFreedInUse
<1> QED  BY <1>1, Invariant, PTL
=============================================================================
