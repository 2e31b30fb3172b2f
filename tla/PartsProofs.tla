---------------------------- MODULE PartsProofs ----------------------------
(***************************************************************************)
(* Theorems about six components that share no state with others.         *)
(* NetMcast: the card's multicast filter mirrors the group table for any   *)
(* groups, any hash into 64 buckets, any table size and any                *)
(* reference-count limit.  FwUpdate: however an update fails the card      *)
(* holds whole images, BOOT.bin never ahead of its modules, for any        *)
(* modules, archives and number of updates, as long as no command overlaps *)
(* one that had timed out.  SdDisk and SdBoot: a block transfer that       *)
(* succeeds moved its own blocks, and at boot every partition gets a whole *)
(* file system of its own, for any sizes, base, retries and images.        *)
(* TopSave: between saves the settings file holds what was last saved and  *)
(* the card plays what the editor shows, for any keys and edited keys.     *)
(* ZzRun and ZzDisplay: a launcher touches its own program and root only   *)
(* and leaves nothing behind, as far as the card answers it, and shows and *)
(* frees buffers when they are safe, for any directories, names, table     *)
(* size and number of flips.  ZzConsole and ZzAhi: no byte of the console  *)
(* and no unit of sound is lost, repeated or taken by the wrong side, for  *)
(* any bounds, but for a stream that begins in the middle of a pass.       *)
(***************************************************************************)
EXTENDS NetMcast, FwUpdate, SdBoot, TopSave, ZzRun, ZzAhi, FiniteSetTheorems, SequenceTheorems,
        TLAPS

-----------------------------------------------------------------------------
(* The multicast filter.                                                   *)

\* Firmware without the filter never gets an entry, so it never needs one.
NoFilter == ~capable => hw = {} /\ count = 0

IInv == TypeOK /\ TableExact /\ FilterExact /\ NoFilter

-----------------------------------------------------------------------------
(* Counting the entries in use.                                            *)

\* The entries in use are finitely many, at most the table's size.
LEMMA UsedFinite ==
  ASSUME NEW S \in SUBSET Idx
  PROVE  IsFiniteSet(S) /\ Cardinality(S) \in 0..MaxEntries
<1>1. IsFiniteSet(Idx) /\ Cardinality(Idx) = MaxEntries
  BY EntriesAssumption, FS_Interval DEF Idx
<1>2. IsFiniteSet(S) /\ Cardinality(S) <= Cardinality(Idx)
  BY <1>1, FS_Subset
<1>3. Cardinality(S) \in Nat
  BY <1>2, FS_CardinalityType
<1>. QED
  BY <1>1, <1>2, <1>3, EntriesAssumption

\* zznet_mcast_reset leaves an empty table and, on a card with the filter, an
\* empty filter.
LEMMA ResetClears ==
  ASSUME IInv, Reset, UNCHANGED <<capable, result>>, opened' \subseteq Openers
  PROVE  IInv'
<1>1. /\ refs' = [i \in Idx |-> 0] /\ addr' = [i \in Idx |-> ZeroAddr]
      /\ count' = 0 /\ joined' = [g \in Groups |-> 0]
  BY DEF Reset
<1>2. hw' = {}
  BY DEF Reset, IInv, NoFilter, TypeOK
<1>3. \A i \in Idx : refs'[i] = 0
  BY <1>1
<1>4. TypeOK'
  BY <1>1, <1>2, EntriesAssumption, RefMaxAssumption DEF IInv, TypeOK
<1>5. \A g \in Groups : ~IsMember(g)'
  BY <1>3 DEF IsMember, Holds
<1>6. TableExact'
  <2>1. {i \in Idx : refs'[i] # 0} = {}
    BY <1>3
  <2>2. count' = Cardinality({i \in Idx : refs'[i] # 0})
    BY <1>1, <2>1, FS_EmptySet
  <2>. QED
    BY <1>1, <1>3, <1>5, <2>2 DEF TableExact
<1>7. FilterExact'
  <2>1. {h \in Groups : IsMember(h)}' = {}
    BY <1>5
  <2>. QED
    BY <1>2, <2>1 DEF FilterExact
<1>8. NoFilter'
  BY <1>1, <1>2 DEF NoFilter
<1>. QED
  BY <1>4, <1>6, <1>7, <1>8 DEF IInv

\* DevOpen and DevClose: the table starts empty and is emptied at the last close.
LEMMA OpenCloseStep ==
  ASSUME IInv, NEW o \in Openers, DevOpen(o) \/ DevClose(o)
  PROVE  IInv'
<1>1. opened' \subseteq Openers /\ UNCHANGED <<capable, result>>
  BY DEF IInv, TypeOK, DevOpen, DevClose
<1>2. CASE Reset
  BY <1>1, <1>2, ResetClears
<1>3. CASE ~Reset
  <2>1. opened # {} /\ UNCHANGED <<table, hw, joined, capable, result>>
    BY <1>1, <1>3 DEF DevOpen, DevClose
  <2>2. TypeOK' /\ NoFilter'
    BY <1>1, <2>1 DEF IInv, TypeOK, NoFilter, table
  <2>3. TableExact' /\ FilterExact'
    BY <2>1 DEF IInv, TableExact, FilterExact, IsMember, Holds, table
  <2>. QED
    BY <2>2, <2>3 DEF IInv
<1>. QED
  BY <1>2, <1>3

\* A refusal leaves everything but the error code alone.
LEMMA RefuseStep ==
  ASSUME IInv, NEW why \in Results, Refuse(why), UNCHANGED <<capable, opened>>
  PROVE  IInv'
<1>1. UNCHANGED <<addr, refs, count, hw, joined, capable, opened>>
      /\ result' \in Results
  BY DEF Refuse, table
<1>. QED
  BY <1>1 DEF IInv, TypeOK, TableExact, FilterExact, NoFilter, IsMember, Holds

\* A reference more or less on a group that stays joined.
LEMMA CountStep ==
  ASSUME IInv, NEW g \in Groups, NEW i \in Idx, Holds(i, g), NEW r \in 1..RefMax,
         refs' = [refs EXCEPT ![i] = r], joined' = [joined EXCEPT ![g] = r],
         result' = "OK", UNCHANGED <<addr, count, hw, capable, opened>>
  PROVE  IInv'
<1>1. /\ r # 0 /\ r \in Nat /\ r \in 0..RefMax
      /\ refs[i] # 0 /\ addr[i] = g
  BY RefMaxAssumption DEF Holds
<1>2. \A j \in Idx : refs'[j] = (IF j = i THEN r ELSE refs[j])
  BY DEF IInv, TypeOK
<1>3. \A h \in Groups : joined'[h] = (IF h = g THEN r ELSE joined[h])
  BY DEF IInv, TypeOK
<1>4. TypeOK'
  BY <1>1 DEF IInv, TypeOK, Results
<1>5. \A j \in Idx : refs'[j] # 0 <=> refs[j] # 0
  BY <1>1, <1>2
<1>6. \A h \in Groups : IsMember(h)' <=> IsMember(h)
  BY <1>5 DEF IsMember, Holds
<1>7. TableExact'
  <2>1. \A h \in Groups : joined'[h] = 0 <=> ~IsMember(h)'
    <3>1. IsMember(g)
      BY <1>1 DEF IsMember, Holds
    <3>. QED
      BY <1>1, <1>3, <1>6, <3>1 DEF IInv, TableExact
  <2>2. \A j \in Idx : refs'[j] # 0 =>
            addr'[j] \in Groups /\ joined'[addr'[j]] = refs'[j]
    BY <1>1, <1>2, <1>3, <1>5 DEF IInv, TableExact
  <2>3. \A j, k \in Idx :
            refs'[j] # 0 /\ refs'[k] # 0 /\ addr'[j] = addr'[k] => j = k
    BY <1>5 DEF IInv, TableExact
  <2>4. {j \in Idx : refs'[j] # 0} = {j \in Idx : refs[j] # 0}
    BY <1>5
  <2>. QED
    BY <2>1, <2>2, <2>3, <2>4 DEF IInv, TableExact
<1>8. FilterExact'
  <2>1. {h \in Groups : IsMember(h)}' = {h \in Groups : IsMember(h)}
    BY <1>6
  <2>. QED
    BY <2>1 DEF IInv, FilterExact
<1>9. NoFilter'
  BY DEF IInv, NoFilter
<1>. QED
  BY <1>4, <1>7, <1>8, <1>9 DEF IInv

\* A new group takes a free entry and, if it is the first of its bucket, sets
\* the bucket.
LEMMA NewGroupStep ==
  ASSUME IInv, NEW g \in Groups, NEW i \in Idx, ~IsMember(g), refs[i] = 0,
         opened # {}, ~(count = 0 /\ ~capable), SetBucket(g),
         addr' = [addr EXCEPT ![i] = g], refs' = [refs EXCEPT ![i] = 1],
         count' = count + 1, joined' = [joined EXCEPT ![g] = @ + 1],
         result' = "OK", UNCHANGED <<capable, opened>>
  PROVE  IInv'
<1>1. /\ \A j \in Idx : refs'[j] = (IF j = i THEN 1 ELSE refs[j])
      /\ \A j \in Idx : addr'[j] = (IF j = i THEN g ELSE addr[j])
  BY DEF IInv, TypeOK
<1>2. joined[g] = 0 /\ joined'[g] = 1 /\ \A h \in Groups : h # g => joined'[h] = joined[h]
  BY DEF IInv, TypeOK, TableExact
<1>3. \A j \in Idx : refs[j] # 0 => addr[j] # g /\ addr[j] \in Groups
  BY DEF IInv, TableExact, IsMember, Holds
<1>4. \A h \in Groups : IsMember(h)' <=> (h = g \/ IsMember(h))
  BY <1>1 DEF IsMember, Holds
<1>5. /\ {j \in Idx : refs'[j] # 0} = {j \in Idx : refs[j] # 0} \cup {i}
      /\ i \notin {j \in Idx : refs[j] # 0}
  BY <1>1
<1>6. Cardinality({j \in Idx : refs'[j] # 0})
        = Cardinality({j \in Idx : refs[j] # 0}) + 1
  <2>1. IsFiniteSet({j \in Idx : refs[j] # 0})
    BY UsedFinite
  <2>. QED
    BY <1>5, <2>1, FS_AddElement
<1>7. count' = Cardinality({j \in Idx : refs'[j] # 0})
  BY <1>6 DEF IInv, TableExact
<1>8. count' \in 0..MaxEntries
  BY <1>7, UsedFinite
<1>9. hw' = hw \cup {Hash(g)}
  <2>1. BucketUsed(Hash(g), addr, refs) => Hash(g) \in hw
    BY <1>3 DEF IInv, FilterExact, BucketUsed, IsMember, Holds
  <2>. QED
    BY <2>1 DEF SetBucket
<1>10. TypeOK'
  <2>1. addr' \in [Idx -> Groups \cup {ZeroAddr}]
    BY DEF IInv, TypeOK
  <2>2. refs' \in [Idx -> 0..RefMax]
    BY RefMaxAssumption DEF IInv, TypeOK
  <2>3. joined' \in [Groups -> Nat]
    BY DEF IInv, TypeOK
  <2>4. hw' \subseteq 0..63
    BY <1>9, GroupsAssumption DEF IInv, TypeOK
  <2>. QED
    BY <1>8, <2>1, <2>2, <2>3, <2>4 DEF IInv, TypeOK, Results
<1>11. TableExact'
  <2>1. \A h \in Groups : joined'[h] = 0 <=> ~IsMember(h)'
    BY <1>2, <1>4 DEF IInv, TableExact
  <2>2. \A j \in Idx : refs'[j] # 0 =>
            addr'[j] \in Groups /\ joined'[addr'[j]] = refs'[j]
    BY <1>1, <1>2, <1>3 DEF IInv, TableExact
  <2>3. \A j, k \in Idx :
            refs'[j] # 0 /\ refs'[k] # 0 /\ addr'[j] = addr'[k] => j = k
    BY <1>1, <1>3 DEF IInv, TableExact
  <2>. QED
    BY <1>7, <2>1, <2>2, <2>3 DEF TableExact
<1>12. FilterExact'
  <2>1. hw = {Hash(h) : h \in {k \in Groups : IsMember(k)}}
    BY DEF IInv, FilterExact
  <2>2. {k \in Groups : IsMember(k)}' = {k \in Groups : IsMember(k)} \cup {g}
    BY <1>4
  <2>. QED
    BY <1>9, <2>1, <2>2 DEF FilterExact
<1>13. NoFilter'
  BY DEF IInv, NoFilter, TypeOK
<1>. QED
  BY <1>10, <1>11, <1>12, <1>13 DEF IInv

\* The last leave wipes the entry and clears the bucket unless a colliding
\* group still needs it.
LEMMA LastLeaveStep ==
  ASSUME IInv, NEW g \in Groups, NEW i \in Idx, Holds(i, g), refs[i] = 1,
         opened # {}, ClearBucket(g),
         refs' = [refs EXCEPT ![i] = 0], addr' = [addr EXCEPT ![i] = ZeroAddr],
         count' = count - 1, joined' = [joined EXCEPT ![g] = @ - 1],
         result' = "OK", UNCHANGED <<capable, opened>>
  PROVE  IInv'
<1>1. /\ \A j \in Idx : refs'[j] = (IF j = i THEN 0 ELSE refs[j])
      /\ \A j \in Idx : addr'[j] = (IF j = i THEN ZeroAddr ELSE addr[j])
  BY DEF IInv, TypeOK
<1>2. addr[i] = g /\ refs[i] # 0
  BY DEF Holds
<1>3. joined[g] = 1 /\ joined'[g] = 0 /\ \A h \in Groups : h # g => joined'[h] = joined[h]
  BY <1>2 DEF IInv, TypeOK, TableExact
<1>4. \A j \in Idx : refs[j] # 0 /\ j # i => addr[j] # g /\ addr[j] \in Groups
  BY <1>2 DEF IInv, TableExact
<1>5. \A h \in Groups : IsMember(h)' <=> (h # g /\ IsMember(h))
  BY <1>1, <1>2, <1>4 DEF IsMember, Holds
<1>6. /\ {j \in Idx : refs'[j] # 0} = {j \in Idx : refs[j] # 0} \ {i}
      /\ i \in {j \in Idx : refs[j] # 0}
  BY <1>1, <1>2
<1>7. Cardinality({j \in Idx : refs'[j] # 0})
        = Cardinality({j \in Idx : refs[j] # 0}) - 1
  <2>1. IsFiniteSet({j \in Idx : refs[j] # 0})
    BY UsedFinite
  <2>. QED
    BY <1>6, <2>1, FS_RemoveElement
<1>8. count' = Cardinality({j \in Idx : refs'[j] # 0})
  BY <1>7 DEF IInv, TableExact
<1>9. count' \in 0..MaxEntries
  BY <1>8, UsedFinite
<1>10. hw' = {Hash(h) : h \in {k \in Groups : IsMember(k)'}}
  <2>. DEFINE M == {k \in Groups : IsMember(k)}
              N == {k \in Groups : IsMember(k)'}
  <2>1. hw = {Hash(h) : h \in M}
    BY DEF IInv, FilterExact
  <2>2. M = N \cup {g} /\ g \notin N
    BY <1>2, <1>5 DEF IsMember, Holds
  <2>3. BucketUsed(Hash(g), addr', refs') <=> Hash(g) \in {Hash(h) : h \in N}
    <3>1. ASSUME NEW j \in Idx, refs'[j] # 0, Hash(addr'[j]) = Hash(g)
          PROVE  addr'[j] \in N
      BY <1>1, <1>4, <3>1 DEF IsMember, Holds
    <3>2. ASSUME NEW h \in N
          PROVE  \E j \in Idx : refs'[j] # 0 /\ addr'[j] = h
      BY DEF IsMember, Holds
    <3>. QED
      BY <3>1, <3>2 DEF BucketUsed
  <2>4. hw = {Hash(h) : h \in N} \cup {Hash(g)}
    <3>. HIDE DEF M, N
    <3>. QED BY <2>1, <2>2
  <2>. HIDE DEF M, N
  <2>5. hw' = {Hash(h) : h \in N}
    BY <2>3, <2>4 DEF ClearBucket
  <2>. QED
    BY <2>5 DEF N
<1>11. TypeOK'
  <2>1. addr' \in [Idx -> Groups \cup {ZeroAddr}]
    BY DEF IInv, TypeOK
  <2>2. refs' \in [Idx -> 0..RefMax]
    BY RefMaxAssumption DEF IInv, TypeOK
  <2>3. joined' \in [Groups -> Nat]
    BY <1>3 DEF IInv, TypeOK
  <2>4. hw' \subseteq 0..63
    BY DEF IInv, TypeOK, ClearBucket
  <2>. QED
    BY <1>9, <2>1, <2>2, <2>3, <2>4 DEF IInv, TypeOK, Results
<1>12. TableExact'
  <2>1. \A h \in Groups : joined'[h] = 0 <=> ~IsMember(h)'
    BY <1>3, <1>5 DEF IInv, TableExact
  <2>2. \A j \in Idx : refs'[j] # 0 =>
            addr'[j] \in Groups /\ joined'[addr'[j]] = refs'[j]
    BY <1>1, <1>3, <1>4 DEF IInv, TableExact
  <2>3. \A j, k \in Idx :
            refs'[j] # 0 /\ refs'[k] # 0 /\ addr'[j] = addr'[k] => j = k
    BY <1>1, <1>4 DEF IInv, TableExact
  <2>. QED
    BY <1>8, <2>1, <2>2, <2>3 DEF TableExact
<1>13. FilterExact'
  BY <1>10 DEF FilterExact
<1>14. NoFilter'
  <2>1. ~capable => FALSE
    <3>1. SUFFICES ASSUME ~capable PROVE FALSE
      OBVIOUS
    <3>2. count = 0 /\ count' \in Nat
      BY <1>9, <3>1 DEF IInv, NoFilter
    <3>. QED
      BY <3>2
  <2>. QED
    BY <2>1 DEF IInv, NoFilter, TypeOK
<1>. QED
  BY <1>11, <1>12, <1>13, <1>14 DEF IInv

\* S2_ADDMULTICASTADDRESS.
LEMMA JoinStep ==
  ASSUME IInv, NEW g \in Groups, Join(g)
  PROVE  IInv'
<1>1. opened # {} /\ UNCHANGED <<capable, opened>>
  BY DEF Join
<1>2. CASE \E why \in Results : Refuse(why)
  BY <1>1, <1>2, RefuseStep
<1>3. ASSUME NEW i \in Idx, Holds(i, g), refs[i] # RefMax,
             refs' = [refs EXCEPT ![i] = @ + 1],
             joined' = [joined EXCEPT ![g] = @ + 1],
             result' = "OK", UNCHANGED <<addr, count, hw>>
      PROVE  IInv'
  <2>1. joined[g] = refs[i] /\ refs[i] \in 0..RefMax
    BY <1>3 DEF IInv, TypeOK, TableExact, Holds
  <2>2. refs[i] + 1 \in 1..RefMax
    BY <1>3, <2>1, RefMaxAssumption
  <2>3. /\ refs' = [refs EXCEPT ![i] = refs[i] + 1]
        /\ joined' = [joined EXCEPT ![g] = refs[i] + 1]
    BY <1>3, <2>1
  <2>. QED
    BY <1>1, <1>3, <2>2, <2>3, CountStep
<1>4. ASSUME NEW i \in Idx, FirstFree(i), ~IsMember(g),
             ~(count = 0 /\ ~capable), SetBucket(g),
             addr' = [addr EXCEPT ![i] = g], refs' = [refs EXCEPT ![i] = 1],
             count' = count + 1, joined' = [joined EXCEPT ![g] = @ + 1],
             result' = "OK"
      PROVE  IInv'
  BY <1>1, <1>4, NewGroupStep DEF FirstFree
<1>. QED
  BY <1>2, <1>3, <1>4 DEF Join, Results, Saturated

\* S2_DELMULTICASTADDRESS.
LEMMA LeaveStep ==
  ASSUME IInv, NEW g \in Groups, Leave(g)
  PROVE  IInv'
<1>1. opened # {} /\ UNCHANGED <<capable, opened>>
  BY DEF Leave
<1>2. CASE Refuse("BAD_STATE")
  BY <1>1, <1>2, RefuseStep DEF Results
<1>3. CASE ~Refuse("BAD_STATE")
  <2>1. PICK i \in Idx :
          /\ Holds(i, g)
          /\ refs' = [refs EXCEPT ![i] = @ - 1]
          /\ joined' = [joined EXCEPT ![g] = @ - 1]
          /\ result' = "OK"
          /\ \/ refs[i] # 1 /\ UNCHANGED <<addr, count, hw>>
             \/ /\ refs[i] = 1
                /\ addr' = [addr EXCEPT ![i] = ZeroAddr]
                /\ count' = count - 1
                /\ ClearBucket(g)
    BY <1>3 DEF Leave
  <2>2. joined[g] = refs[i] /\ refs[i] \in 1..RefMax
    BY <2>1, RefMaxAssumption DEF IInv, TypeOK, TableExact, Holds
  <2>3. CASE refs[i] # 1
    <3>1. refs[i] - 1 \in 1..RefMax
      BY <2>2, <2>3, RefMaxAssumption
    <3>2. /\ refs' = [refs EXCEPT ![i] = refs[i] - 1]
          /\ joined' = [joined EXCEPT ![g] = refs[i] - 1]
      BY <2>1, <2>2
    <3>. QED
      BY <1>1, <2>1, <2>3, <3>1, <3>2, CountStep
  <2>4. CASE refs[i] = 1
    <3>1. refs' = [refs EXCEPT ![i] = 0]
      BY <2>1, <2>4
    <3>. QED
      BY <1>1, <2>1, <2>4, <3>1, LastLeaveStep
  <2>. QED
    BY <2>3, <2>4
<1>. QED
  BY <1>2, <1>3

\* The device is not open and the table is empty.
LEMMA InitIInv == Init => IInv
<1>. SUFFICES ASSUME Init PROVE IInv
  OBVIOUS
<1>1. \A i \in Idx : refs[i] = 0
  BY DEF Init
<1>2. {i \in Idx : refs[i] # 0} = {} /\ \A g \in Groups : ~IsMember(g)
  BY <1>1 DEF IsMember, Holds
<1>3. hw \subseteq 0..63
  BY GroupsAssumption DEF Init
<1>4. TypeOK
  BY <1>3, EntriesAssumption, RefMaxAssumption DEF Init, TypeOK, Results
<1>5. TableExact
  BY <1>1, <1>2, FS_EmptySet DEF Init, TableExact
<1>6. FilterExact /\ NoFilter
  BY DEF Init, FilterExact, NoFilter
<1>. QED
  BY <1>4, <1>5, <1>6 DEF IInv

\* Every step keeps the invariant.
LEMMA StepIInv == IInv /\ [Next]_vars => IInv'
<1>. SUFFICES ASSUME IInv, [Next]_vars PROVE IInv'
  OBVIOUS
<1>1. CASE UNCHANGED vars
  BY <1>1 DEF IInv, TypeOK, TableExact, FilterExact, NoFilter, IsMember, Holds,
              vars
<1>. QED
  BY <1>1, JoinStep, LeaveStep, OpenCloseStep DEF Next

\* The invariant holds of every behaviour.
LEMMA SpecIInv == Spec => []IInv
BY InitIInv, StepIInv, PTL DEF Spec

\* The card's filter is exactly the buckets of the joined groups, whatever
\* collides (zznet_mcast_update).
THEOREM McastFilterExact == Spec => []FilterExact
<1>1. IInv => FilterExact
  BY DEF IInv
<1>. QED
  BY <1>1, SpecIInv, PTL

\* The table holds each joined group once with the right reference count.
THEOREM McastTableExact == Spec => []TableExact
<1>1. IInv => TableExact
  BY DEF IInv
<1>. QED
  BY <1>1, SpecIInv, PTL

-----------------------------------------------------------------------------
(* The inductive invariant of the update.                                  *)

\* What the updater does, or will do when its command has been answered.
Phase == IF fwAt = "wait" THEN then ELSE fwAt
Downloading == {"connect", "head", "body", "poll"}
Sending == {"file", "opened", "closed"}
Answers == {"probe", "probed", "opened", "closed", "remove", "restored"}
FwCommands == {"abort", "probe", "open", "write", "close", "restore"}
FwPlaces == Downloading \cup Sending \cup Answers \cup {"idle", "list", "wait"}

\* The newest bundle of which anything may have been sent.
Newest == IF fwAt \in Downloading THEN run - 1 ELSE run

\* The bundle whose image a file of the card is.
Ver(f) == disk[f][1][1]

\* The files a push sends, those it has yet to, and the chunks of one that
\* were sent.
Target == {"BOOT"} \cup (IF moduleDir THEN want[run] ELSE {})
Left == {todo[i] : i \in DOMAIN todo}
Sent(k, f, n) == CASE n = 0 -> << >> [] n = 1 -> <<<<k, f, 1>>>> [] OTHER -> Image(k, f)

UpdateTypeOK ==
  /\ fwAt \in FwPlaces /\ then \in Answers \cup {"idle"} /\ (fwAt = "wait" => then # "idle")
  /\ waiting \in BOOLEAN /\ overlapped \in BOOLEAN /\ moduleDir \in BOOLEAN
  /\ run \in 0..MaxUpdates /\ (fwAt # "idle" => run # 0) /\ recorded \in 0..run
  /\ dest \in {"online", "own", "tool"}
  /\ drawer \in [Files -> 0..3] /\ want \in [1..MaxUpdates -> SUBSET Mods]
  /\ todo \in Seq(Files) /\ part \in Nat /\ cmds \in Seq(FwCommands) /\ rx \in Nat
  /\ DOMAIN disk = Files /\ DOMAIN tmp = {"file", "data"}
  /\ tmp.file \in Files \cup {"none"}
  /\ \/ buf = << >>
     \/ \E f \in Files : buf = Name(f)
     \/ \E k \in Nat, f \in Files, i \in Nat : buf = <<k, f, i>>

\* Between updates the drawer is empty; while a bundle arrives only the entry
\* being unpacked is incomplete; what is pushed of a download is complete.
Complete == \A f \in Files : drawer[f] \in {0, 3}
DownloadInv ==
  /\ Phase \in {"idle", "connect", "head", "restored"} =>
       rx = 0 /\ zipRes = "more" /\ \A f \in Files : drawer[f] = 0
  /\ fwAt \in {"connect", "head", "body"} => arch \in Archives
  /\ fwAt = "body" =>
       /\ zipRes = "more" /\ rx <= 3 * Len(arch)
       /\ rx % 3 = 0 => Complete
       /\ rx % 3 # 0 => \A f \in Files : drawer[f] \in {0, 3} \/ f = arch[rx \div 3 + 1].name
  /\ fwAt = "poll" => Complete
  /\ Phase \in {"probe", "probed"} => dest = "tool"
  /\ Phase \in Sending \cup {"list"} /\ dest = "online" =>
       \A f \in {"BOOT"} \cup want[run] : drawer[f] = 3

\* A push sends files of its bundle, BOOT.bin as the last.
TodoInv ==
  /\ Phase \in Sending => Left \subseteq Target
  /\ Phase \in Sending /\ todo # << >> =>
       \A i \in DOMAIN todo : todo[i] = "BOOT" <=> i = Len(todo)
  /\ Phase \in {"opened", "closed"} => todo # << >>
  /\ fwAt = "file" => part = 0

\* Only ABORT is issued while the card has an older command to carry out.
QueueOK == \A i \in DOMAIN cmds : i > 1 => cmds[i] = "abort"

DiskOK == \A f \in Files : Ver(f) \in 0..Newest /\ disk[f] = Image(Ver(f), f)

\* A late RESTORE finds its name staged; a late CLOSE completes a whole file of
\* a bundle no older than BOOT.bin, and BOOT.bin after its modules.
LateOK ==
  /\ cmds # << >> /\ Head(cmds) = "restore" => buf = Name("BOOT")
  /\ cmds # << >> /\ Head(cmds) = "close" /\ tmp.file # "none" => \E k \in 1..Newest :
       /\ tmp.data = Image(k, tmp.file) /\ Ver("BOOT") <= k
       /\ moduleDir /\ tmp.file = "BOOT" => \A m \in want[k] : Ver(m) >= k

VersionsOK ==
  moduleDir /\ Ver("BOOT") # 0 => \A m \in want[Ver("BOOT")] : Ver(m) >= Ver("BOOT")

\* The command under way of a file that is sent, and what was done of the file
\* when it is answered.
OwnOpened ==
  Phase = "opened" =>
    /\ part <= 2
    /\ cmds # << >> =>
         \/ part = 0 /\ cmds = <<"open">> /\ buf = Name(Head(todo))
         \/ /\ part # 0 /\ cmds = <<"write">> /\ buf = <<run, Head(todo), part>>
            /\ tmp.file = Head(todo) /\ tmp.data = Sent(run, Head(todo), part - 1)
    /\ ~waiting /\ answer # "busy" => cmds = << >>
    /\ ~waiting /\ answer = "ok" =>
         tmp.file = Head(todo) /\ tmp.data = Sent(run, Head(todo), part)
OwnClosed ==
  Phase = "closed" =>
    /\ cmds # << >> =>
         cmds = <<"close">> /\ tmp.file = Head(todo) /\ tmp.data = Image(run, Head(todo))
    /\ ~waiting /\ answer # "busy" => cmds = << >>
    /\ ~waiting /\ answer = "ok" => Ver(Head(todo)) = run

\* What left the list was sent, and no older command is left once the first
\* file was.
SentOK ==
  /\ fwAt = "file" /\ cmds # << >> => Target \subseteq Left
  /\ Phase \in Sending => \A f \in Target \ Left : Ver(f) = run

InstalledOK ==
  recorded # 0 /\ recorded = run =>
    fwAt \in {"remove", "idle"} /\ cmds = << >> /\ \A f \in Target : Ver(f) = run

CardInv ==
  /\ waiting => fwAt = "wait"
  /\ ~overlapped =>
       /\ QueueOK /\ DiskOK /\ LateOK /\ VersionsOK
       /\ OwnOpened /\ OwnClosed /\ SentOK /\ InstalledOK

UpdateInv == UpdateTypeOK /\ DownloadInv /\ TodoInv /\ CardInv

-----------------------------------------------------------------------------
(* Facts about images and about the card's state.                          *)

\* Sequences of one and of two elements.
LEMMA Appended ==
  ASSUME NEW x, NEW y
  PROVE  Append(<< >>, x) = <<x>> /\ Append(<<x>>, y) = <<x, y>>
<1>1. <<x>> \in Seq({x, y}) /\ << >> \in Seq({x, y}) /\ <<x, y>> \in Seq({x, y})
  OBVIOUS
<1>2. Append(<< >>, x) = <<x>>
  BY <1>1
<1>3. Append(<<x>>, y) = <<x, y>>
  <2>1. /\ Append(<<x>>, y) \in Seq({x, y}) /\ Len(Append(<<x>>, y)) = 2
        /\ Append(<<x>>, y)[1] = x /\ Append(<<x>>, y)[2] = y
    BY <1>1
  <2>2. Len(<<x, y>>) = 2 /\ <<x, y>>[1] = x /\ <<x, y>>[2] = y
    OBVIOUS
  <2>3. \A i \in 1..2 : Append(<<x>>, y)[i] = <<x, y>>[i]
    BY <2>1, <2>2
  <2> QED  BY <1>1, <2>1, <2>2, <2>3, SeqEqual
<1> QED  BY <1>2, <1>3

\* An image and what was sent of it say which bundle and file they belong to.
LEMMA Images ==
  ASSUME NEW k, NEW f
  PROVE  /\ Image(k, f)[1][1] = k
         /\ Sent(k, f, 0) = << >> /\ Sent(k, f, 2) = Image(k, f)
         /\ Append(Sent(k, f, 0), <<k, f, 1>>) = Sent(k, f, 1)
         /\ Append(Sent(k, f, 1), <<k, f, 2>>) = Sent(k, f, 2)
<1>1. Image(k, f)[1][1] = k
  <2>1. <<<<k, f, 1>>, <<k, f, 2>>>>[1] = <<k, f, 1>>
    OBVIOUS
  <2>2. <<k, f, 1>>[1] = k
    OBVIOUS
  <2> QED  BY <2>1, <2>2 DEF Image
<1>2. Sent(k, f, 0) = << >> /\ Sent(k, f, 1) = <<<<k, f, 1>>>> /\ Sent(k, f, 2) = Image(k, f)
  BY DEF Sent
<1>3. Append(Sent(k, f, 0), <<k, f, 1>>) = Sent(k, f, 1)
  BY <1>2, Appended, Zenon
<1>4. Append(<<<<k, f, 1>>>>, <<k, f, 2>>) = <<<<k, f, 1>>, <<k, f, 2>>>>
  BY Appended, Zenon
<1> QED  BY <1>1, <1>2, <1>3, <1>4 DEF Image

\* A staged name names its file, and no chunk is taken for a name.
LEMMA Names ==
  /\ \A f : IsName(Name(f)) /\ Name(f)[2] = f
  /\ \A k, f, i : ~IsName(<<k, f, i>>)
  /\ ~IsName(<< >>)
<1>1. \A f : IsName(Name(f)) /\ Name(f)[2] = f
  BY DEF IsName, Name
<1>2. \A k, f, i : ~IsName(<<k, f, i>>)
  BY DEF IsName
<1>3. ~IsName(<< >>)
  BY DEF IsName
<1> QED  BY <1>1, <1>2, <1>3

\* A file that is stored changes its own version only.
LEMMA Stored ==
  ASSUME DOMAIN disk = Files, DiskOK, NEW x \in Files, NEW k \in 0..Newest, Newest' = Newest,
         disk' = [disk EXCEPT ![x] = Image(k, x)]
  PROVE  /\ DOMAIN disk' = Files /\ DiskOK'
         /\ Ver(x)' = k /\ \A f \in Files \ {x} : Ver(f)' = Ver(f)
<1>1. \A f \in Files \ {x} : disk'[f] = disk[f]
  OBVIOUS
<1>2. disk'[x] = Image(k, x)
  OBVIOUS
<1>3. Ver(x)' = k
  BY <1>2, Images DEF Ver
<1>4. \A f \in Files \ {x} : Ver(f)' = Ver(f)
  BY <1>1 DEF Ver
<1>5. DiskOK'
  <2> SUFFICES ASSUME NEW f \in Files PROVE Ver(f)' \in 0..Newest /\ disk'[f] = Image(Ver(f)', f)
    BY DEF DiskOK
  <2>1. CASE f = x
    BY <2>1, <1>2, <1>3
  <2>2. CASE f # x
    BY <2>2, <1>1, <1>4 DEF DiskOK
  <2> QED  BY <2>1, <2>2
<1> QED  BY <1>3, <1>4, <1>5

\* As long as the disk is the same, so are the versions.
LEMMA SameDisk ==
  ASSUME disk' = disk
  PROVE  \A f : Ver(f)' = Ver(f)
  BY DEF Ver

\* The name of the entry being unpacked: the arithmetic of its parts.
LEMMA EntryParts ==
  ASSUME NEW r \in Nat, NEW n \in Nat, r <= 3 * n, r # 3 * n
  PROVE  /\ r \div 3 + 1 \in 1..n /\ r + 1 <= 3 * n
         /\ r % 3 \in {0, 1, 2}
         /\ r % 3 = 0 => (r + 1) % 3 = 1 /\ (r + 1) \div 3 = r \div 3
         /\ r % 3 = 1 => (r + 1) % 3 = 2 /\ (r + 1) \div 3 = r \div 3
         /\ r % 3 = 2 => (r + 1) % 3 = 0
  BY SMTT(30)

\* No part is left over at the end of an entry.
LEMMA WholeParts ==
  ASSUME NEW n \in Nat
  PROVE  (3 * n) % 3 = 0 /\ 0 % 3 = 0
  OBVIOUS

-----------------------------------------------------------------------------
(* The initial state, and steps that leave the card alone.                 *)

\* The invariant holds initially.
LEMMA UpdateInvInit == UpdateInit => UpdateInv
<1> SUFFICES ASSUME UpdateInit PROVE UpdateInv
  OBVIOUS
<1>1. UpdateTypeOK
  <2>1. /\ fwAt \in FwPlaces /\ then \in Answers \cup {"idle"} /\ (fwAt = "wait" => then # "idle")
        /\ waiting \in BOOLEAN /\ overlapped \in BOOLEAN /\ moduleDir \in BOOLEAN
        /\ dest \in {"online", "own", "tool"}
    BY DEF UpdateInit, FwPlaces
  <2>2. /\ run \in 0..MaxUpdates /\ (fwAt # "idle" => run # 0) /\ recorded \in 0..run
        /\ part \in Nat /\ rx \in Nat
    BY UpdateAssumption DEF UpdateInit
  <2>3. /\ drawer \in [Files -> 0..3] /\ want \in [1..MaxUpdates -> SUBSET Mods]
        /\ DOMAIN disk = Files
    BY DEF UpdateInit
  <2>4. todo \in Seq(Files) /\ cmds \in Seq(FwCommands)
    BY DEF UpdateInit
  <2>5. DOMAIN tmp = {"file", "data"} /\ tmp.file \in Files \cup {"none"}
    BY DEF UpdateInit, NoTransfer
  <2> QED  BY <2>1, <2>2, <2>3, <2>4, <2>5 DEF UpdateInit, UpdateTypeOK
<1>2. DownloadInv
  BY DEF UpdateInit, DownloadInv, Phase, Sending
<1>3. TodoInv
  BY DEF UpdateInit, TodoInv, Phase, Sending
<1>4. DiskOK /\ \A f \in Files : Ver(f) = 0
  <2>1. \A f \in Files : Ver(f) = 0
    BY Images DEF UpdateInit, Ver
  <2> QED  BY <2>1 DEF UpdateInit, DiskOK, Newest, Downloading
<1>5. VersionsOK
  BY <1>4 DEF VersionsOK, Files
<1>6. QueueOK /\ LateOK /\ SentOK /\ InstalledOK
  BY DEF UpdateInit, QueueOK, LateOK, SentOK, InstalledOK, Phase, Sending
<1>7. OwnOpened /\ OwnClosed
  BY DEF UpdateInit, OwnOpened, OwnClosed, Phase
<1> QED  BY <1>1, <1>2, <1>3, <1>4, <1>5, <1>6, <1>7 DEF UpdateInit, UpdateInv, CardInv

\* A step outside a push, with the card and the bundle left alone.
LEMMA Quiet ==
  ASSUME UpdateTypeOK, CardInv, callVars' = callVars, cardVars' = cardVars,
         run' = run, recorded' \in {0, recorded}, want' = want,
         fwAt # "wait", fwAt' \notin Sending \cup {"wait"},
         fwAt' \in Downloading => fwAt \in Downloading,
         fwAt \in {"remove", "idle"} => fwAt' \in {"remove", "idle"}
  PROVE  CardInv'
<1> SUFFICES ASSUME ~overlapped
             PROVE  /\ QueueOK' /\ DiskOK' /\ LateOK' /\ VersionsOK'
                    /\ OwnOpened' /\ OwnClosed' /\ SentOK' /\ InstalledOK'
  BY DEF CardInv, callVars
<1>1. Newest' \in Int /\ Newest \in Int /\ Newest <= Newest'
  BY DEF Newest, UpdateTypeOK
<1>2. \A f : Ver(f)' = Ver(f)
  BY SameDisk DEF cardVars
<1>3. QueueOK'
  BY DEF CardInv, QueueOK, cardVars
<1>4. DiskOK'
  BY <1>1, <1>2 DEF CardInv, DiskOK, cardVars
<1>5. LateOK'
  <2>1. \A k \in 1..Newest : k \in 1..Newest'
    BY <1>1
  <2> QED  BY <2>1, <1>2 DEF CardInv, LateOK, cardVars
<1>6. VersionsOK'
  BY <1>2 DEF CardInv, VersionsOK, cardVars
<1>7. OwnOpened' /\ OwnClosed' /\ SentOK'
  BY DEF OwnOpened, OwnClosed, SentOK, Phase, Sending
<1>8. InstalledOK'
  BY <1>2 DEF CardInv, InstalledOK, Target, cardVars
<1> QED  BY <1>3, <1>4, <1>5, <1>6, <1>7, <1>8

-----------------------------------------------------------------------------
(* Download.                                                               *)

\* check_online, fwonline_check
LEMMA CheckOnlineInv == UpdateInv /\ CheckOnline => UpdateInv'
<1> SUFFICES ASSUME UpdateInv, CheckOnline PROVE UpdateInv'
  OBVIOUS
<1>1. UpdateTypeOK'
  BY DEF UpdateInv, CheckOnline, UpdateTypeOK, netVars, callVars, cardVars
<1>2. DownloadInv' /\ TodoInv'
  BY DEF UpdateInv, CheckOnline, DownloadInv, TodoInv, Phase, Complete, Left, Target, netVars,
         callVars, cardVars
<1>3. CardInv'
  BY Quiet DEF UpdateInv, CheckOnline, Sending, Downloading
<1> QED  BY <1>1, <1>2, <1>3 DEF UpdateInv

\* A step of the download, by what it does to the place and to the drawer.
LEMMA Arriving ==
  ASSUME UpdateInv, fwAt \in Downloading, fwAt' \in Downloading \cup {"remove"},
         UNCHANGED <<run, dest, want, todo, part, callVars, cardVars, recorded>>,
         rx' \in Nat, drawer' \in [Files -> 0..3],
         fwAt' \in {"connect", "head"} =>
           rx' = 0 /\ zipRes' = "more" /\ \A f \in Files : drawer'[f] = 0,
         fwAt' \in {"connect", "head", "body"} => arch' \in Archives,
         fwAt' = "body" =>
           /\ zipRes' = "more" /\ rx' <= 3 * Len(arch')
           /\ rx' % 3 = 0 => \A f \in Files : drawer'[f] \in {0, 3}
           /\ rx' % 3 # 0 =>
                \A f \in Files : drawer'[f] \in {0, 3} \/ f = arch'[rx' \div 3 + 1].name,
         fwAt' = "poll" => \A f \in Files : drawer'[f] \in {0, 3}
  PROVE  UpdateInv'
<1>1. UpdateTypeOK'
  BY DEF UpdateInv, UpdateTypeOK, FwPlaces, Downloading, Answers, callVars, cardVars
<1>2. /\ Phase' = fwAt' /\ fwAt' \notin {"idle", "restored", "list", "wait", "probe", "probed"}
      /\ fwAt' \notin Sending
  BY DEF Phase, Downloading, Sending
<1>3. DownloadInv'
  BY <1>2 DEF DownloadInv, Complete
<1>4. TodoInv'
  BY <1>2 DEF TodoInv, Sending
<1>5. CardInv'
  BY <1>2, Quiet DEF UpdateInv, Downloading
<1> QED  BY <1>1, <1>3, <1>4, <1>5 DEF UpdateInv

\* conn_open
LEMMA ConnOpenInv == UpdateInv /\ ConnOpen => UpdateInv'
<1> SUFFICES ASSUME UpdateInv, ConnOpen PROVE UpdateInv'
  OBVIOUS
<1>1. /\ fwAt' \in {"head", "remove"} /\ fwAt = "connect"
      /\ UNCHANGED <<rx, zipRes, drawer, arch, run, dest, want, todo, part, callVars, cardVars,
                     recorded>>
  BY DEF ConnOpen, Reject, streamVars
<1>2. /\ rx = 0 /\ zipRes = "more" /\ (\A f \in Files : drawer[f] = 0) /\ arch \in Archives
      /\ rx \in Nat /\ drawer \in [Files -> 0..3]
  BY <1>1 DEF UpdateInv, DownloadInv, Phase, UpdateTypeOK
<1> QED  BY <1>1, <1>2, Arriving DEF Downloading

\* get: redirects
LEMMA RedirectInv == UpdateInv /\ Redirect => UpdateInv'
<1> SUFFICES ASSUME UpdateInv, Redirect PROVE UpdateInv'
  OBVIOUS
<1>1. /\ fwAt' \in {"connect", "remove"} /\ fwAt = "head"
      /\ UNCHANGED <<rx, zipRes, drawer, arch, run, dest, want, todo, part, callVars, cardVars,
                     recorded>>
  BY DEF Redirect, Reject, streamVars
<1>2. /\ rx = 0 /\ zipRes = "more" /\ (\A f \in Files : drawer[f] = 0) /\ arch \in Archives
      /\ rx \in Nat /\ drawer \in [Files -> 0..3]
  BY <1>1 DEF UpdateInv, DownloadInv, Phase, UpdateTypeOK
<1> QED  BY <1>1, <1>2, Arriving DEF Downloading

\* request: the head
LEMMA ResponseHeadInv == UpdateInv /\ ResponseHead => UpdateInv'
<1> SUFFICES ASSUME UpdateInv, ResponseHead PROVE UpdateInv'
  OBVIOUS
<1>1. /\ fwAt' \in {"body", "remove"} /\ fwAt = "head"
      /\ UNCHANGED <<rx, zipRes, drawer, arch, run, dest, want, todo, part, callVars, cardVars,
                     recorded>>
  BY DEF ResponseHead, Reject, streamVars
<1>2. /\ rx = 0 /\ zipRes = "more" /\ (\A f \in Files : drawer[f] = 0) /\ arch \in Archives
      /\ rx \in Nat /\ drawer \in [Files -> 0..3]
  BY <1>1 DEF UpdateInv, DownloadInv, Phase, UpdateTypeOK
<1>3. arch \in Archives /\ Len(arch) \in Nat
  BY <1>2, UpdateAssumption
<1>4. 0 <= 3 * Len(arch) /\ 0 % 3 = 0
  BY <1>3
<1> QED  BY <1>1, <1>2, <1>4, Arriving DEF Downloading

\* fwrel_zip_feed: the piece that comes next, and the state of the drawer after
\* it.
LEMMA Fed ==
  ASSUME UpdateInv, fwAt = "body", ZipFeed, arch' = arch
  PROVE  /\ rx' \in Nat /\ drawer' \in [Files -> 0..3]
         /\ zipRes' = "more" =>
              /\ rx' <= 3 * Len(arch')
              /\ rx' % 3 = 0 => \A f \in Files : drawer'[f] \in {0, 3}
              /\ rx' % 3 # 0 =>
                   \A f \in Files : drawer'[f] \in {0, 3} \/ f = arch'[rx' \div 3 + 1].name
         /\ zipRes' = "done" => \A f \in Files : drawer'[f] \in {0, 3}
<1> USE DEF Parts
<1>1. /\ arch \in Archives /\ rx <= 3 * Len(arch) /\ rx \in Nat /\ drawer \in [Files -> 0..3]
      /\ rx % 3 = 0 => \A f \in Files : drawer[f] \in {0, 3}
      /\ rx % 3 # 0 => \A f \in Files : drawer[f] \in {0, 3} \/ f = arch[rx \div 3 + 1].name
  BY DEF UpdateInv, UpdateTypeOK, DownloadInv, Complete
<1>2. Len(arch) \in Nat
  BY <1>1, UpdateAssumption
<1>3. CASE AtDirectory
  <2>1. rx % 3 = 0 /\ zipRes' # "more" /\ UNCHANGED <<rx, drawer>>
    BY <1>2, <1>3, WholeParts DEF AtDirectory, ZipFeed, DirectoryResult
  <2>2. \A f \in Files : drawer'[f] \in {0, 3}
    BY <2>1, <1>1
  <2> QED  BY <2>1, <2>2, <1>1
<1>4. CASE ~AtDirectory
  <2>1. rx # 3 * Len(arch) /\ rx' = rx + 1
    BY <1>4 DEF AtDirectory, ZipFeed
  <2>2. /\ rx \div 3 + 1 \in 1..Len(arch) /\ rx' <= 3 * Len(arch)
        /\ rx % 3 \in {0, 1, 2}
        /\ rx % 3 = 0 => rx' % 3 = 1 /\ rx' \div 3 = rx \div 3
        /\ rx % 3 = 1 => rx' % 3 = 2 /\ rx' \div 3 = rx \div 3
        /\ rx % 3 = 2 => rx' % 3 = 0
    BY <1>1, <1>2, <2>1, EntryParts
  <2>3. zipRes' # "done"
    BY <1>4 DEF ZipFeed, AtDirectory, BeginEntry, Output, EntryDone
  <2>4. \A n \in 0..3 : Put(n) =>
          /\ drawer' \in [Files -> 0..3]
          /\ \A f \in Files : f # Entry.name => drawer'[f] = drawer[f]
          /\ Entry.name \in Files => drawer'[Entry.name] = n
    BY <1>1 DEF Put
  <2>5. Entry = arch[rx \div 3 + 1]
    BY DEF Entry
  <2>6. CASE rx % 3 = 0 /\ BeginEntry
    <3>1. drawer' \in [Files -> 0..3] /\ \A f \in Files : f # Entry.name => drawer'[f] = drawer[f]
      BY <2>6, <2>4, <1>1 DEF BeginEntry
    <3>2. \A f \in Files : drawer'[f] \in {0, 3} \/ f = Entry.name
      BY <2>5, <2>6, <3>1, <1>1
    <3>3. rx' % 3 # 0 /\ Entry = arch'[rx' \div 3 + 1]
      BY <2>2, <2>5, <2>6
    <3>4. rx' \in Nat /\ rx' <= 3 * Len(arch')
      BY <2>1, <2>2, <1>1
    <3>5. \A f \in Files : drawer'[f] \in {0, 3} \/ f = arch'[rx' \div 3 + 1].name
      BY <3>2, <3>3
    <3> QED  BY <2>3, <3>1, <3>3, <3>4, <3>5, Zenon
  <2>7. CASE rx % 3 = 1 /\ Output
    <3>1. drawer' \in [Files -> 0..3] /\ \A f \in Files : f # Entry.name => drawer'[f] = drawer[f]
      BY <2>7, <2>4 DEF Output
    <3>2. \A f \in Files : drawer'[f] \in {0, 3} \/ f = Entry.name
      BY <2>5, <2>7, <3>1, <1>1
    <3>3. rx' % 3 # 0 /\ Entry = arch'[rx' \div 3 + 1]
      BY <2>2, <2>5, <2>7
    <3>4. rx' \in Nat /\ rx' <= 3 * Len(arch')
      BY <2>1, <2>2, <1>1
    <3>5. \A f \in Files : drawer'[f] \in {0, 3} \/ f = arch'[rx' \div 3 + 1].name
      BY <3>2, <3>3
    <3> QED  BY <2>3, <3>1, <3>3, <3>4, <3>5, Zenon
  <2>8. CASE rx % 3 = 2 /\ EntryDone
    <3>1. CASE zipRes' = "more" /\ Put(3)
      <4>1. /\ drawer' \in [Files -> 0..3]
            /\ \A f \in Files : f # Entry.name => drawer'[f] = drawer[f]
            /\ Entry.name \in Files => drawer'[Entry.name] = 3
        BY <3>1, <2>4
      <4>2. \A f \in Files : drawer'[f] \in {0, 3}
        BY <4>1, <2>5, <2>8, <1>1
      <4>3. rx' % 3 = 0 /\ rx' \in Nat /\ rx' <= 3 * Len(arch')
        BY <2>1, <2>2, <2>8, <1>1
      <4> QED  BY <2>3, <4>1, <4>2, <4>3, Zenon
    <3>2. CASE zipRes' = "damaged" /\ UNCHANGED drawer
      <4>1. rx' \in Nat /\ drawer' \in [Files -> 0..3] /\ zipRes' # "more"
        BY <3>2, <2>1, <1>1
      <4> QED  BY <2>3, <4>1, Zenon
    <3> QED  BY <2>8, <3>1, <3>2 DEF EntryDone
  <2> QED  BY <1>4, <2>6, <2>7, <2>8 DEF ZipFeed
<1> QED  BY <1>3, <1>4

\* request: the body
LEMMA ReceiveInv == UpdateInv /\ Receive => UpdateInv'
<1> SUFFICES ASSUME UpdateInv, Receive PROVE UpdateInv'
  OBVIOUS
<1>1. /\ fwAt = "body"
      /\ UNCHANGED <<arch, run, dest, want, todo, part, callVars, cardVars, recorded>>
  BY DEF Receive, streamVars
<1>2. arch' \in Archives
  BY <1>1 DEF UpdateInv, DownloadInv
<1>3. CASE /\ ~esc /\ zipRes = "more" /\ ZipFeed
           /\ fwAt' = IF zipRes' = "more" THEN "body" ELSE IF Accepts THEN "poll" ELSE "remove"
  BY <1>1, <1>2, <1>3, Fed, Arriving DEF Accepts, Downloading
<1>4. CASE esc /\ Reject
  BY <1>1, <1>2, <1>4, Arriving DEF Reject, Downloading, UpdateInv, UpdateTypeOK
<1> QED  BY <1>3, <1>4 DEF Receive

\* The connection ends.
LEMMA StreamEndsInv == UpdateInv /\ StreamEnds => UpdateInv'
<1> SUFFICES ASSUME UpdateInv, StreamEnds PROVE UpdateInv'
  OBVIOUS
<1>1. /\ fwAt = "body" /\ UNCHANGED <<rx, zipRes, drawer>>
      /\ UNCHANGED <<arch, run, dest, want, todo, part, callVars, cardVars, recorded>>
  BY DEF StreamEnds, streamVars
<1>2. zipRes = "more" /\ rx \in Nat /\ drawer \in [Files -> 0..3]
  BY <1>1 DEF UpdateInv, DownloadInv, UpdateTypeOK
<1>3. fwAt' = "remove"
  BY <1>1, <1>2 DEF StreamEnds, Accepts
<1> QED  BY <1>1, <1>2, <1>3, Arriving DEF Downloading

\* The user presses Escape.
LEMMA PressEscapeInv == UpdateInv /\ PressEscape => UpdateInv'
<1> SUFFICES ASSUME UpdateInv, PressEscape PROVE UpdateInv'
  OBVIOUS
<1>1. /\ fwAt \in {"body", "poll"} /\ fwAt' = fwAt /\ UNCHANGED <<rx, zipRes, drawer>>
      /\ UNCHANGED <<arch, run, dest, want, todo, part, callVars, cardVars, recorded>>
  BY DEF PressEscape
<1> QED  BY <1>1, Arriving DEF Downloading, UpdateInv, UpdateTypeOK, DownloadInv, Complete

-----------------------------------------------------------------------------
(* What the card holds when its disk is left alone.                        *)

\* The disk is the same and the bundles that were sent are.
LEMMA KeptDisk ==
  ASSUME UpdateTypeOK, DiskOK, VersionsOK, disk' = disk, moduleDir' = moduleDir,
         Newest \in Int, Newest' \in Int, Newest <= Newest',
         \A k \in 1..Newest : want'[k] = want[k]
  PROVE  DiskOK' /\ VersionsOK'
<1>1. \A f : Ver(f)' = Ver(f)
  BY SameDisk
<1>2. DiskOK'
  BY <1>1 DEF DiskOK
<1>3. Ver("BOOT") \in 0..Newest
  BY DEF DiskOK, Files
<1>4. VersionsOK'
  BY <1>1, <1>3 DEF VersionsOK
<1> QED  BY <1>2, <1>4

\* Neither is what a late command will find, and at most an ABORT is issued.
LEMMA KeptQueue ==
  ASSUME UpdateTypeOK, QueueOK, LateOK, disk' = disk, moduleDir' = moduleDir, tmp' = tmp,
         buf' = buf, cmds' = cmds \/ cmds' = Append(cmds, "abort"),
         Newest \in Int, Newest' \in Int, Newest <= Newest',
         \A k \in 1..Newest : want'[k] = want[k]
  PROVE  QueueOK' /\ LateOK'
<1>1. \A f : Ver(f)' = Ver(f)
  BY SameDisk
<1>2. cmds \in Seq(FwCommands)
  BY DEF UpdateTypeOK
<1>3. QueueOK'
  BY <1>2 DEF QueueOK
<1>4. cmds' # << >> /\ Head(cmds') # "abort" => cmds # << >> /\ Head(cmds') = Head(cmds)
  BY <1>2
<1>5. (cmds' # << >> /\ Head(cmds') = "restore" => buf' = Name("BOOT"))
  BY <1>4 DEF LateOK
<1>6. ASSUME cmds' # << >>, Head(cmds') = "close", tmp'.file # "none"
      PROVE  \E k \in 1..Newest' :
               /\ tmp'.data = Image(k, tmp'.file) /\ Ver("BOOT")' <= k
               /\ moduleDir' /\ tmp'.file = "BOOT" => \A m \in want'[k] : Ver(m)' >= k
  <2>1. PICK k \in 1..Newest :
               /\ tmp.data = Image(k, tmp.file) /\ Ver("BOOT") <= k
               /\ moduleDir /\ tmp.file = "BOOT" => \A m \in want[k] : Ver(m) >= k
    BY <1>4, <1>6 DEF LateOK
  <2>2. k \in 1..Newest' /\ want'[k] = want[k]
    OBVIOUS
  <2> QED  BY <1>1, <2>1, <2>2
<1> QED  BY <1>3, <1>5, <1>6 DEF LateOK

\* A command that stores nothing, issued to a card that has nothing to do.
LEMMA Single ==
  ASSUME NEW c, cmds' = <<c>>, c # "close", c = "restore" => buf' = Name("BOOT")
  PROVE  QueueOK' /\ LateOK'
<1>1. Head(cmds') = c /\ \A i \in DOMAIN cmds' : i = 1
  OBVIOUS
<1> QED  BY <1>1 DEF QueueOK, LateOK

\* A command but ABORT, unless it overlaps, is issued to such a card.
LEMMA Issue ==
  ASSUME UpdateTypeOK, NEW c, NEW next, Command(c, next), c # "abort", ~overlapped'
  PROVE  ~overlapped /\ cmds = << >> /\ cmds' = <<c>>
  BY Appended DEF Command

-----------------------------------------------------------------------------
(* The steps between updates and of the page.                              *)

\* A new bundle: nothing of it was sent.
LEMMA NewBundle ==
  ASSUME UpdateTypeOK, CardInv, fwAt = "idle", run' = run + 1, recorded' = recorded,
         disk' = disk, tmp' = tmp, buf' = buf, moduleDir' = moduleDir,
         cmds' = cmds \/ cmds' = Append(cmds, "abort"),
         overlapped' = overlapped, waiting' => fwAt' = "wait",
         \/ fwAt' \in {"connect", "list"}
         \/ fwAt' = "wait" /\ then' = "probe",
         \A k \in 1..run : want'[k] = want[k]
  PROVE  CardInv'
<1>1. Newest = run /\ Newest' \in {run, run + 1} /\ run \in Nat /\ recorded <= run
      /\ recorded \in Nat
  BY DEF Newest, Downloading, UpdateTypeOK
<1>2. ASSUME ~overlapped
      PROVE  QueueOK' /\ DiskOK' /\ LateOK' /\ VersionsOK'
  BY <1>1, <1>2, KeptDisk, KeptQueue DEF CardInv
<1>3. Phase' \in {"connect", "list", "probe"}
  BY DEF Phase
<1>4. OwnOpened' /\ OwnClosed' /\ SentOK'
  BY <1>3 DEF OwnOpened, OwnClosed, SentOK, Sending
<1>5. InstalledOK'
  BY <1>1 DEF InstalledOK
<1> QED  BY <1>2, <1>4, <1>5 DEF CardInv

\* update_online
LEMMA BeginDownloadInv == UpdateInv /\ BeginDownload => UpdateInv'
<1> SUFFICES ASSUME UpdateInv, BeginDownload PROVE UpdateInv'
  OBVIOUS
<1>1. UpdateTypeOK'
  BY UpdateAssumption
     DEF UpdateInv, BeginDownload, UpdateTypeOK, FwPlaces, Downloading, callVars, cardVars
<1>2. DownloadInv' /\ TodoInv'
  BY DEF UpdateInv, BeginDownload, DownloadInv, TodoInv, Phase, Sending
<1>3. CardInv'
  BY NewBundle DEF UpdateInv, BeginDownload, callVars, cardVars, CardInv
<1> QED  BY <1>1, <1>2, <1>3 DEF UpdateInv

\* do_install_bundle, and Install of the page
LEMMA BeginOwnInv == UpdateInv /\ BeginOwn => UpdateInv'
<1> SUFFICES ASSUME UpdateInv, BeginOwn PROVE UpdateInv'
  OBVIOUS
<1>0. PICK ms \in SUBSET Mods : want' = [want EXCEPT ![run'] = ms]
  BY DEF BeginOwn
<1>1. /\ fwAt = "idle" /\ run' = run + 1 /\ run' \in 1..MaxUpdates /\ buf' = buf
      /\ \/ dest' = "own" /\ fwAt' = "list" /\ cmds' = cmds /\ UNCHANGED callVars
         \/ /\ dest' = "tool" /\ cmds' = Append(cmds, "abort") /\ waiting' = TRUE
            /\ then' = "probe" /\ fwAt' = "wait" /\ overlapped' = overlapped
      /\ UNCHANGED <<netVars, known, todo, part, tmp, disk, moduleDir, recorded>>
  <2>1. overlapped \in BOOLEAN /\ run \in 0..MaxUpdates
    BY DEF UpdateInv, UpdateTypeOK
  <2> QED  BY <2>1, UpdateAssumption DEF BeginOwn, Command, Unstaged
<1>2. UpdateTypeOK'
  <2>1. want' \in [1..MaxUpdates -> SUBSET Mods]
    BY <1>0, <1>1 DEF UpdateInv, UpdateTypeOK
  <2>2. cmds' \in Seq(FwCommands)
    <3>1. cmds \in Seq(FwCommands) /\ "abort" \in FwCommands
      BY DEF UpdateInv, UpdateTypeOK, FwCommands
    <3> QED  BY <1>1, <3>1 DEF callVars
  <2>3. /\ fwAt' \in FwPlaces /\ then' \in Answers \cup {"idle"}
        /\ fwAt' = "wait" => then' # "idle"
        /\ waiting' \in BOOLEAN /\ overlapped' \in BOOLEAN
    BY <1>1 DEF UpdateInv, UpdateTypeOK, FwPlaces, Answers, callVars
  <2>4. run' \in 0..MaxUpdates /\ run' # 0 /\ recorded' \in 0..run'
    BY <1>1 DEF UpdateInv, UpdateTypeOK
  <2> QED  BY <1>1, <2>1, <2>2, <2>3, <2>4 DEF UpdateInv, UpdateTypeOK, netVars
<1>3. DownloadInv' /\ TodoInv'
  BY <1>1 DEF DownloadInv, TodoInv, Phase, Sending
<1>4. \A k \in 1..run : want'[k] = want[k]
  BY <1>0, <1>1 DEF UpdateInv, UpdateTypeOK
<1>5. CardInv'
  BY <1>1, <1>4, NewBundle DEF UpdateInv, CardInv, callVars
<1> QED  BY <1>2, <1>3, <1>5 DEF UpdateInv

\* The last poll of update_online and fwup_bundle_discover
LEMMA DiscoverInv == UpdateInv /\ Discover => UpdateInv'
<1> SUFFICES ASSUME UpdateInv, Discover PROVE UpdateInv'
  OBVIOUS
<1>1. /\ fwAt = "poll" /\ todo' = << >> /\ rx' = 0 /\ drawer' = drawer
      /\ UNCHANGED <<run, dest, part, callVars, cardVars, recorded>>
      /\ \/ fwAt' = "remove" /\ want' = want
         \/ /\ fwAt' = "list" /\ drawer["BOOT"] # 0
            /\ want' = [want EXCEPT ![run] = {m \in Mods : drawer[m] # 0}]
  BY DEF Discover, StreamClosed
<1>2. /\ drawer \in [Files -> 0..3] /\ (\A f \in Files : drawer[f] \in {0, 3})
      /\ run \in 1..MaxUpdates /\ want \in [1..MaxUpdates -> SUBSET Mods] /\ recorded \in Nat
  BY <1>1 DEF UpdateInv, DownloadInv, Complete, UpdateTypeOK
<1>3. want' \in [1..MaxUpdates -> SUBSET Mods] /\ \A k \in 1..(run - 1) : want'[k] = want[k]
  <2>1. {m \in Mods : drawer[m] # 0} \in SUBSET Mods
    OBVIOUS
  <2>2. PICK ms \in SUBSET Mods : want' = want \/ want' = [want EXCEPT ![run] = ms]
    BY <1>1, <2>1
  <2>3. want' \in [1..MaxUpdates -> SUBSET Mods]
    <3>1. CASE want' = want
      BY <1>2, <3>1
    <3>2. CASE want' = [want EXCEPT ![run] = ms]
      BY <1>2, <3>2
    <3> QED  BY <2>2, <3>1, <3>2
  <2>4. \A k \in 1..(run - 1) : k \in 1..MaxUpdates /\ k # run
    BY <1>2, UpdateAssumption
  <2>5. \A k \in 1..(run - 1) : want'[k] = want[k]
    BY <1>2, <2>2, <2>4
  <2> QED  BY <2>3, <2>5
<1>4. UpdateTypeOK'
  BY <1>1, <1>3
     DEF UpdateInv, UpdateTypeOK, FwPlaces, Answers, callVars, cardVars
<1>5. DownloadInv'
  <2>1. fwAt' = "list" => \A f \in {"BOOT"} \cup want'[run] : drawer[f] = 3
    BY <1>1, <1>2 DEF Files
  <2>2. Phase' = fwAt' /\ fwAt' \in {"remove", "list"}
    BY <1>1 DEF Phase
  <2> QED  BY <1>1, <2>1, <2>2 DEF DownloadInv, Sending
<1>6. TodoInv'
  BY <1>1 DEF TodoInv, Phase, Sending
<1>7. CardInv'
  <2>1. Newest = run - 1 /\ Newest' = run
    BY <1>1 DEF Newest, Downloading
  <2>2. ASSUME ~overlapped
        PROVE  /\ QueueOK' /\ DiskOK' /\ LateOK' /\ VersionsOK'
    BY <1>1, <1>2, <1>3, <2>1, <2>2, KeptDisk, KeptQueue DEF UpdateInv, CardInv, cardVars
  <2>3. OwnOpened' /\ OwnClosed' /\ SentOK'
    BY <1>1 DEF OwnOpened, OwnClosed, SentOK, Sending, Phase
  <2>4. ASSUME ~overlapped PROVE InstalledOK'
    BY <1>1, <2>4 DEF UpdateInv, CardInv, InstalledOK
  <2>5. ~waiting
    BY <1>1 DEF UpdateInv, CardInv
  <2> QED  BY <1>1, <2>2, <2>3, <2>4, <2>5 DEF CardInv, callVars
<1> QED  BY <1>4, <1>5, <1>6, <1>7 DEF UpdateInv

\* The drawer is removed after every outcome.
LEMMA RemoveInv == UpdateInv /\ Remove => UpdateInv'
<1> SUFFICES ASSUME UpdateInv, Remove PROVE UpdateInv'
  OBVIOUS
<1>1. /\ fwAt = "remove" /\ fwAt' = "idle" /\ drawer' = [f \in Files |-> 0] /\ todo' = << >>
      /\ part' = 0 /\ rx' = 0 /\ zipRes' = "more"
      /\ UNCHANGED <<run, dest, want, callVars, cardVars, recorded>>
  BY DEF Remove, StreamClosed, fwonline_remove_bundle
<1>2. UpdateTypeOK'
  BY <1>1 DEF UpdateInv, UpdateTypeOK, FwPlaces, callVars, cardVars
<1>3. DownloadInv' /\ TodoInv'
  BY <1>1 DEF DownloadInv, TodoInv, Phase, Sending
<1>4. CardInv'
  BY <1>1, Quiet DEF UpdateInv, Sending, Downloading
<1> QED  BY <1>2, <1>3, <1>4 DEF UpdateInv

\* fwup_probe: the answer of the empty WRITE
LEMMA ProbedInv == UpdateInv /\ Probed => UpdateInv'
<1> SUFFICES ASSUME UpdateInv, Probed PROVE UpdateInv'
  OBVIOUS
<1>1. /\ fwAt = "probed" /\ fwAt' \in {"list", "remove"}
      /\ UNCHANGED <<run, dest, netVars, want, todo, part, callVars, cardVars, recorded>>
  BY DEF Probed
<1>2. UpdateTypeOK'
  BY <1>1 DEF UpdateInv, UpdateTypeOK, FwPlaces, Answers, netVars, callVars, cardVars
<1>3. DownloadInv' /\ TodoInv'
  BY <1>1 DEF UpdateInv, DownloadInv, TodoInv, Phase, Sending
<1>4. CardInv'
  BY <1>1, Quiet DEF UpdateInv, Sending, Downloading
<1> QED  BY <1>2, <1>3, <1>4 DEF UpdateInv

\* poll_mirror and poll_status
LEMMA PolledInv == UpdateInv /\ Polled => UpdateInv'
<1> SUFFICES ASSUME UpdateInv, Polled PROVE UpdateInv'
  OBVIOUS
<1>1. /\ fwAt = "wait" /\ fwAt' = then /\ waiting' = FALSE
      /\ waiting \/ answer' = answer
      /\ waiting => answer' = "busy"
      /\ UNCHANGED <<run, dest, netVars, want, todo, part, then, overlapped, cardVars, recorded>>
  BY DEF Polled, UpdateInv, UpdateTypeOK
<1>2. then \in Answers /\ Phase' = Phase
  BY <1>1 DEF UpdateInv, UpdateTypeOK, Phase, Answers
<1>3. UpdateTypeOK'
  <2>1. run \in 0..MaxUpdates /\ run # 0
    BY <1>1 DEF UpdateInv, UpdateTypeOK
  <2> QED  BY <1>1, <1>2, <2>1
           DEF UpdateInv, UpdateTypeOK, FwPlaces, Answers, netVars, cardVars
<1>4. DownloadInv' /\ TodoInv'
  BY <1>1, <1>2
     DEF UpdateInv, DownloadInv, TodoInv, Answers, Left, Target, Complete, netVars, cardVars
<1>5. CardInv'
  <2>1. Newest = run /\ Newest' = run /\ run \in Nat
    BY <1>1, <1>2 DEF UpdateInv, UpdateTypeOK, Newest, Downloading, Answers
  <2> SUFFICES ASSUME ~overlapped
               PROVE  /\ QueueOK' /\ DiskOK' /\ LateOK' /\ VersionsOK'
                      /\ OwnOpened' /\ OwnClosed' /\ SentOK' /\ InstalledOK'
    BY <1>1 DEF CardInv
  <2>2. QueueOK' /\ DiskOK' /\ LateOK' /\ VersionsOK'
    BY <1>1, <2>1, KeptDisk, KeptQueue DEF UpdateInv, CardInv, cardVars
  <2>3. \A f : Ver(f)' = Ver(f)
    BY <1>1, SameDisk DEF cardVars
  <2>4. OwnOpened' /\ OwnClosed'
    BY <1>1, <1>2, <2>3 DEF UpdateInv, CardInv, OwnOpened, OwnClosed, cardVars
  <2>5. SentOK'
    BY <1>1, <1>2, <2>3 DEF UpdateInv, CardInv, SentOK, Answers, Target, Left, cardVars
  <2>6. InstalledOK'
    BY <1>1 DEF UpdateInv, CardInv, InstalledOK
  <2> QED  BY <2>2, <2>4, <2>5, <2>6
<1> QED  BY <1>3, <1>4, <1>5 DEF UpdateInv

-----------------------------------------------------------------------------
(* The steps that issue a command.                                         *)

\* ABORT: what is late stays what it was.
LEMMA Aborted ==
  ASSUME UpdateTypeOK, CardInv, NEW next \in {"probe", "remove"}, Command("abort", next),
         UNCHANGED <<run, want, recorded, tmp, disk, buf, moduleDir>>,
         fwAt \notin Downloading \cup {"remove", "idle"}
  PROVE  CardInv'
<1>1. /\ cmds' = Append(cmds, "abort") /\ fwAt' = "wait" /\ then' = next
      /\ overlapped' = overlapped
  BY DEF Command, UpdateTypeOK
<1>2. Newest = run /\ Newest' = run /\ run \in Nat
  BY <1>1 DEF UpdateTypeOK, Newest, Downloading
<1>3. ASSUME ~overlapped PROVE QueueOK' /\ DiskOK' /\ LateOK' /\ VersionsOK'
  BY <1>1, <1>2, <1>3, KeptDisk, KeptQueue DEF CardInv
<1>4. OwnOpened' /\ OwnClosed' /\ SentOK'
  BY <1>1 DEF OwnOpened, OwnClosed, SentOK, Phase, Sending
<1>5. ASSUME ~overlapped PROVE InstalledOK'
  BY <1>5 DEF CardInv, InstalledOK
<1> QED  BY <1>1, <1>3, <1>4, <1>5 DEF CardInv

\* Another command that stores nothing.
LEMMA Issued ==
  ASSUME UpdateTypeOK, CardInv, NEW c \in {"probe", "open", "write"}, NEW next, Command(c, next),
         ~overlapped',
         UNCHANGED <<run, want, recorded, tmp, disk, moduleDir>>,
         fwAt \notin Downloading \cup {"remove", "idle"}
  PROVE  /\ ~overlapped /\ cmds = << >> /\ cmds' = <<c>>
         /\ QueueOK' /\ DiskOK' /\ LateOK' /\ VersionsOK' /\ InstalledOK'
<1>1. ~overlapped /\ cmds = << >> /\ cmds' = <<c>>
  BY Issue
<1>2. QueueOK' /\ LateOK'
  BY <1>1, Single
<1>3. Newest = run /\ Newest' = run /\ run \in Nat
  BY DEF UpdateTypeOK, Newest, Downloading, Command
<1>4. DiskOK' /\ VersionsOK'
  BY <1>1, <1>3, KeptDisk DEF CardInv
<1>5. InstalledOK'
  BY <1>1 DEF CardInv, InstalledOK
<1> QED  BY <1>1, <1>2, <1>4, <1>5

\* Types after a command.
LEMMA IssuedTypes ==
  ASSUME UpdateTypeOK, NEW c \in FwCommands, NEW next \in Answers, Command(c, next),
         run' \in 0..MaxUpdates, run' # 0, recorded' \in 0..run',
         dest' \in {"online", "own", "tool"}, part' \in Nat,
         UNCHANGED <<drawer, want, todo, rx, tmp, disk, moduleDir>>,
         \/ buf' = buf
         \/ \E f \in Files : buf' = Name(f)
         \/ \E k \in Nat, f \in Files, i \in Nat : buf' = <<k, f, i>>
  PROVE  UpdateTypeOK'
<1>1. cmds' \in Seq(FwCommands)
  BY DEF UpdateTypeOK, Command
<1>2. fwAt' = "wait" /\ then' \in Answers /\ waiting' = TRUE /\ overlapped' \in BOOLEAN
  BY DEF UpdateTypeOK, Command
<1>3. "idle" \notin Answers /\ "wait" \in FwPlaces
  BY DEF Answers, FwPlaces
<1> QED  BY <1>1, <1>2, <1>3 DEF UpdateTypeOK

\* fwup_probe
LEMMA ProbeInv == UpdateInv /\ Probe => UpdateInv'
<1> SUFFICES ASSUME UpdateInv, Probe PROVE UpdateInv'
  OBVIOUS
<1>1. /\ fwAt = "probe" /\ buf' = buf
      /\ UNCHANGED <<run, dest, netVars, want, todo, part, tmp, disk, moduleDir, recorded>>
  BY DEF Probe, Unstaged
<1>2. CASE fwAt' = "remove" /\ UNCHANGED <<cmds, callVars>>
  <2>1. UpdateTypeOK'
    BY <1>1, <1>2 DEF UpdateInv, UpdateTypeOK, FwPlaces, Answers, netVars, callVars
  <2>2. DownloadInv' /\ TodoInv'
    BY <1>1, <1>2 DEF UpdateInv, DownloadInv, TodoInv, Phase, Sending
  <2>3. CardInv'
    BY <1>1, <1>2, Quiet DEF UpdateInv, Sending, Downloading, cardVars
  <2> QED  BY <2>1, <2>2, <2>3 DEF UpdateInv
<1>3. CASE Command("probe", "probed")
  <2>1. UpdateTypeOK'
    <3>1. "probe" \in FwCommands /\ "probed" \in Answers
      BY DEF FwCommands, Answers
    <3>2. run \in 0..MaxUpdates /\ run # 0 /\ recorded \in 0..run
      BY <1>1 DEF UpdateInv, UpdateTypeOK
    <3> QED  BY <1>1, <1>3, <3>1, <3>2, IssuedTypes DEF UpdateInv, UpdateTypeOK, netVars
  <2>2. Phase = "probe" /\ fwAt' = "wait" /\ then' = "probed" /\ Phase' = "probed"
    BY <1>1, <1>3 DEF Phase, Command
  <2>3. DownloadInv' /\ TodoInv'
    BY <1>1, <2>2 DEF UpdateInv, DownloadInv, TodoInv, Sending
  <2>4. OwnOpened' /\ OwnClosed' /\ SentOK'
    BY <2>2 DEF OwnOpened, OwnClosed, SentOK, Sending
  <2>5. CardInv'
    BY <1>1, <1>3, <2>2, <2>4, Issued DEF UpdateInv, CardInv, Downloading
  <2> QED  BY <2>1, <2>3, <2>5 DEF UpdateInv
<1> QED  BY <1>2, <1>3 DEF Probe

\* restore of the page, do_restore of the tool
LEMMA RestoreInv == UpdateInv /\ Restore => UpdateInv'
<1> SUFFICES ASSUME UpdateInv, Restore PROVE UpdateInv'
  OBVIOUS
<1>1. /\ fwAt = "idle" /\ buf' = Name("BOOT") /\ Command("restore", "restored") /\ run' = run + 1
      /\ run' \in 1..MaxUpdates /\ dest' \in {"own", "tool"} /\ run \in Nat
      /\ UNCHANGED <<netVars, want, todo, part, tmp, disk, moduleDir, recorded>>
  BY UpdateAssumption DEF Restore, Stage, UpdateInv, UpdateTypeOK
<1>2. UpdateTypeOK'
  <2>1. "restore" \in FwCommands /\ "restored" \in Answers /\ "BOOT" \in Files
    BY DEF FwCommands, Answers, Files
  <2>2. recorded' \in 0..run'
    BY <1>1 DEF UpdateInv, UpdateTypeOK
  <2> QED  BY <1>1, <2>1, <2>2, IssuedTypes DEF UpdateInv, UpdateTypeOK, netVars
<1>3. Phase = "idle" /\ fwAt' = "wait" /\ then' = "restored" /\ Phase' = "restored"
  BY <1>1 DEF Phase, Command
<1>4. DownloadInv' /\ TodoInv'
  BY <1>1, <1>3 DEF UpdateInv, DownloadInv, TodoInv, Sending, netVars
<1>5. CardInv'
  <2> SUFFICES ASSUME ~overlapped'
               PROVE  /\ QueueOK' /\ DiskOK' /\ LateOK' /\ VersionsOK'
                      /\ OwnOpened' /\ OwnClosed' /\ SentOK' /\ InstalledOK'
    BY <1>3 DEF CardInv
  <2>1. ~overlapped /\ cmds' = <<"restore">>
    BY <1>1, Issue DEF UpdateInv
  <2>2. QueueOK' /\ LateOK'
    BY <1>1, <2>1, Single
  <2>3. Newest = run /\ Newest' = run + 1
    BY <1>1, <1>3 DEF Newest, Downloading
  <2>4. DiskOK' /\ VersionsOK'
    BY <1>1, <2>1, <2>3, KeptDisk DEF UpdateInv, CardInv
  <2>5. OwnOpened' /\ OwnClosed' /\ SentOK'
    BY <1>3 DEF OwnOpened, OwnClosed, SentOK, Sending
  <2>6. InstalledOK'
    BY <1>1 DEF UpdateInv, UpdateTypeOK, InstalledOK
  <2> QED  BY <2>2, <2>4, <2>5, <2>6
<1> QED  BY <1>2, <1>4, <1>5 DEF UpdateInv

\* The answer of RESTORE; the page forgets the recorded release.
LEMMA RestoredInv == UpdateInv /\ Restored => UpdateInv'
<1> SUFFICES ASSUME UpdateInv, Restored PROVE UpdateInv'
  OBVIOUS
<1>1. /\ fwAt = "restored" /\ fwAt' = "idle" /\ recorded' \in {0, recorded}
      /\ UNCHANGED <<run, dest, netVars, want, todo, part, callVars, cardVars>>
  BY DEF Restored
<1>2. UpdateTypeOK'
  <2>1. recorded' \in 0..run
    BY <1>1 DEF UpdateInv, UpdateTypeOK
  <2> QED  BY <1>1, <2>1 DEF UpdateInv, UpdateTypeOK, FwPlaces, netVars, callVars, cardVars
<1>3. DownloadInv' /\ TodoInv'
  BY <1>1 DEF UpdateInv, DownloadInv, TodoInv, Phase, Sending, netVars
<1>4. CardInv'
  BY <1>1, Quiet DEF UpdateInv, Sending, Downloading
<1> QED  BY <1>2, <1>3, <1>4 DEF UpdateInv

-----------------------------------------------------------------------------
(* The steps of a push.                                                    *)

\* The list of a bundle: its modules in some order, then BOOT.bin.
LEMMA BundleList ==
  ASSUME NEW W \in SUBSET Mods, NEW s \in [1..Cardinality(W) -> W],
         W = {s[i] : i \in DOMAIN s}
  PROVE  /\ ModulesFirst(s) \in Seq(Files)
         /\ \A i \in DOMAIN ModulesFirst(s) :
              /\ ModulesFirst(s)[i] \in {"BOOT"} \cup W
              /\ ModulesFirst(s)[i] = "BOOT" <=> i = Len(ModulesFirst(s))
         /\ \A f \in {"BOOT"} \cup W : \E i \in DOMAIN ModulesFirst(s) : ModulesFirst(s)[i] = f
<1> DEFINE t == ModulesFirst(s)
<1>1. Cardinality(W) \in Nat
  <2>1. IsFiniteSet(W)
    BY UpdateAssumption, FS_Subset
  <2> QED  BY <2>1, FS_CardinalityType
<1>2. s \in Seq(W) /\ Len(s) = Cardinality(W) /\ DOMAIN s = 1..Len(s)
  BY <1>1
<1>3. s \in Seq(Files) /\ <<"BOOT">> \in Seq(Files)
  BY <1>2 DEF Files
<1>4. /\ t \in Seq(Files) /\ Len(t) = Len(s) + 1 /\ DOMAIN t = 1..(Len(s) + 1)
      /\ (\A i \in 1..Len(s) : t[i] = s[i]) /\ t[Len(s) + 1] = "BOOT"
  BY <1>3 DEF ModulesFirst
<1>5. \A i \in 1..Len(s) : s[i] \in W /\ s[i] # "BOOT"
  BY <1>2, UpdateAssumption
<1>6. \A i \in DOMAIN t : t[i] \in {"BOOT"} \cup W /\ (t[i] = "BOOT" <=> i = Len(t))
  BY <1>2, <1>4, <1>5
<1>7. \A f \in {"BOOT"} \cup W : \E i \in DOMAIN t : t[i] = f
  <2>1. ASSUME NEW f \in W PROVE \E i \in DOMAIN t : t[i] = f
    BY <1>2, <1>4
  <2>2. \E i \in DOMAIN t : t[i] = "BOOT"
    BY <1>2, <1>4
  <2> QED  BY <2>1, <2>2
<1> QED  BY <1>4, <1>6, <1>7

\* The same when the firmware takes no modules.
LEMMA BootAlone ==
  /\ ModulesFirst(<< >>) = <<"BOOT">>
  /\ <<"BOOT">> \in Seq(Files) /\ Len(<<"BOOT">>) = 1 /\ <<"BOOT">>[1] = "BOOT"
  /\ DOMAIN <<"BOOT">> = {1}
<1>1. <<"BOOT">> \in Seq(Files)
  BY DEF Files
<1>2. << >> \o <<"BOOT">> = <<"BOOT">>
  BY <1>1, ConcatEmptySeq
<1> QED  BY <1>1, <1>2 DEF ModulesFirst

\* fwup_install_bundle
LEMMA ListBundleInv == UpdateInv /\ ListBundle => UpdateInv'
<1> SUFFICES ASSUME UpdateInv, ListBundle PROVE UpdateInv'
  OBVIOUS
<1>1. /\ fwAt = "list" /\ fwAt' = "file" /\ part' = 0
      /\ UNCHANGED <<run, dest, netVars, want, callVars, cardVars, recorded>>
  BY DEF ListBundle
<1>2. run \in 1..MaxUpdates /\ want[run] \in SUBSET Mods /\ run \in Nat
  BY <1>1 DEF UpdateInv, UpdateTypeOK
<1>3. /\ todo' \in Seq(Files)
      /\ \A i \in DOMAIN todo' : todo'[i] \in Target /\ (todo'[i] = "BOOT" <=> i = Len(todo'))
      /\ \A f \in Target : \E i \in DOMAIN todo' : todo'[i] = f
  <2>1. PICK s \in [1..Cardinality(want[run]) -> want[run]] :
               /\ want[run] = {s[i] : i \in DOMAIN s}
               /\ todo' = ModulesFirst(IF moduleDir THEN s ELSE << >>)
    BY DEF ListBundle
  <2>2. CASE moduleDir
    <3>1. Target = {"BOOT"} \cup want[run] /\ todo' = ModulesFirst(s)
      BY <2>1, <2>2 DEF Target
    <3>2. /\ todo' \in Seq(Files)
          /\ \A i \in DOMAIN todo' :
               todo'[i] \in {"BOOT"} \cup want[run] /\ (todo'[i] = "BOOT" <=> i = Len(todo'))
          /\ \A f \in {"BOOT"} \cup want[run] : \E i \in DOMAIN todo' : todo'[i] = f
      <4> DEFINE W == want[run]
      <4>1. W \in SUBSET Mods /\ s \in [1..Cardinality(W) -> W] /\ W = {s[i] : i \in DOMAIN s}
        BY <1>2, <2>1
      <4> HIDE DEF W
      <4>2. /\ ModulesFirst(s) \in Seq(Files)
            /\ \A i \in DOMAIN ModulesFirst(s) :
                 /\ ModulesFirst(s)[i] \in {"BOOT"} \cup W
                 /\ ModulesFirst(s)[i] = "BOOT" <=> i = Len(ModulesFirst(s))
            /\ \A f \in {"BOOT"} \cup W : \E i \in DOMAIN ModulesFirst(s) : ModulesFirst(s)[i] = f
        BY <4>1, BundleList, Zenon
      <4> QED  BY <3>1, <4>2 DEF W
    <3> QED  BY <3>1, <3>2
  <2>3. CASE ~moduleDir
    <3>1. Target = {"BOOT"} /\ todo' = <<"BOOT">>
      BY <2>1, <2>3, BootAlone DEF Target
    <3>2. /\ todo' \in Seq(Files) /\ DOMAIN todo' = {1} /\ Len(todo') = 1
          /\ todo'[1] = "BOOT"
      BY <3>1, BootAlone
    <3> QED  BY <3>1, <3>2
  <2> QED  BY <2>2, <2>3
<1>4. Target' = Target /\ Left' \subseteq Target /\ Target \subseteq Left'
  BY <1>1, <1>3 DEF Target, Left, cardVars
<1>5. Phase = "list" /\ Phase' = "file"
  BY <1>1 DEF Phase
<1>6. UpdateTypeOK'
  BY <1>1, <1>2, <1>3
     DEF UpdateInv, UpdateTypeOK, FwPlaces, Sending, netVars, callVars, cardVars
<1>7. DownloadInv'
  BY <1>1, <1>5 DEF UpdateInv, DownloadInv, Sending, netVars
<1>8. TodoInv'
  BY <1>1, <1>3, <1>4, <1>5 DEF TodoInv
<1>9. CardInv'
  <2>1. Newest = run /\ Newest' = run
    BY <1>1 DEF Newest, Downloading
  <2>2. ASSUME ~overlapped PROVE QueueOK' /\ DiskOK' /\ LateOK' /\ VersionsOK'
    BY <1>1, <1>2, <2>1, <2>2, KeptDisk, KeptQueue DEF UpdateInv, CardInv, cardVars
  <2>3. SentOK'
    BY <1>4 DEF SentOK
  <2>4. OwnOpened' /\ OwnClosed'
    BY <1>5 DEF OwnOpened, OwnClosed
  <2>5. ASSUME ~overlapped PROVE InstalledOK'
    BY <1>1, <2>5 DEF UpdateInv, CardInv, InstalledOK
  <2>6. ~waiting
    BY <1>1 DEF UpdateInv, CardInv
  <2> QED  BY <1>1, <2>2, <2>3, <2>4, <2>5, <2>6 DEF CardInv, callVars
<1> QED  BY <1>6, <1>7, <1>8, <1>9 DEF UpdateInv

\* A push that gives up without a command.
LEMMA Stopped ==
  ASSUME UpdateInv, fwAt \in Sending, fwAt' = "remove",
         UNCHANGED <<run, dest, netVars, want, todo, part, callVars, cardVars, recorded>>
  PROVE  UpdateInv'
<1>1. UpdateTypeOK'
  BY DEF UpdateInv, UpdateTypeOK, FwPlaces, Answers, Sending, netVars, callVars, cardVars
<1>2. DownloadInv' /\ TodoInv'
  BY DEF DownloadInv, TodoInv, Phase, Sending
<1>3. CardInv'
  BY Quiet DEF UpdateInv, Sending, Downloading
<1> QED  BY <1>1, <1>2, <1>3 DEF UpdateInv

\* A push that gives up with an ABORT.
LEMMA StoppedByAbort ==
  ASSUME UpdateInv, fwAt \in Sending, Command("abort", "remove"),
         UNCHANGED <<run, dest, netVars, want, todo, part, tmp, disk, buf, moduleDir, recorded>>
  PROVE  UpdateInv'
<1>1. "abort" \in FwCommands /\ "remove" \in Answers
  BY DEF FwCommands, Answers
<1>2. run \in 0..MaxUpdates /\ run # 0 /\ recorded \in 0..run /\ part \in Nat
      /\ dest \in {"online", "own", "tool"}
  BY DEF UpdateInv, UpdateTypeOK, Sending
<1>3. UpdateTypeOK'
  BY <1>1, <1>2, IssuedTypes DEF UpdateInv, netVars
<1>4. fwAt' = "wait" /\ Phase' = "remove"
  BY DEF Command, Phase
<1>5. DownloadInv' /\ TodoInv'
  BY <1>4 DEF DownloadInv, TodoInv, Sending
<1>6. CardInv'
  BY Aborted DEF UpdateInv, Sending, Downloading
<1> QED  BY <1>3, <1>5, <1>6 DEF UpdateInv

\* The first of the list and the rest of it.
LEMMA HeadOfList ==
  ASSUME UpdateTypeOK, todo # << >>
  PROVE  /\ Head(todo) \in Left /\ Head(todo) \in Files /\ Tail(todo) \in Seq(Files)
         /\ \A f \in Left : f = Head(todo) \/ \E i \in DOMAIN Tail(todo) : Tail(todo)[i] = f
         /\ \A i \in DOMAIN Tail(todo) : i + 1 \in DOMAIN todo /\ Tail(todo)[i] = todo[i + 1]
         /\ Len(Tail(todo)) = Len(todo) - 1 /\ Len(todo) \in Nat
<1>1. todo \in Seq(Files) /\ 1 \in DOMAIN todo /\ Head(todo) = todo[1] /\ Len(todo) \in Nat
  BY DEF UpdateTypeOK
<1>2. /\ Tail(todo) \in Seq(Files) /\ Len(Tail(todo)) = Len(todo) - 1
      /\ \A i \in DOMAIN Tail(todo) : i + 1 \in DOMAIN todo /\ Tail(todo)[i] = todo[i + 1]
  BY <1>1
<1>3. \A j \in DOMAIN todo : j # 1 => j - 1 \in DOMAIN Tail(todo) /\ Tail(todo)[j - 1] = todo[j]
  BY <1>1
<1>4. \A f \in Left : f = Head(todo) \/ \E i \in DOMAIN Tail(todo) : Tail(todo)[i] = f
  BY <1>1, <1>3 DEF Left
<1> QED  BY <1>1, <1>2, <1>4 DEF Left

\* send_bundle_file: the file is opened, or all were sent.
LEMMA SendOpenInv == UpdateInv /\ SendOpen => UpdateInv'
<1> SUFFICES ASSUME UpdateInv, SendOpen PROVE UpdateInv'
  OBVIOUS
<1>1. /\ fwAt = "file" /\ Phase = "file"
      /\ UNCHANGED <<run, dest, netVars, want, todo, part, tmp, disk, moduleDir>>
  BY DEF SendOpen, Phase
<1>2. run \in 1..MaxUpdates /\ recorded \in 0..run /\ part = 0 /\ part \in Nat
  BY <1>1 DEF UpdateInv, UpdateTypeOK, TodoInv
<1>3. CASE /\ todo # << >> /\ Command("open", "opened") /\ Stage(Name(Head(todo)))
           /\ UNCHANGED recorded
  <2>1. fwAt' = "wait" /\ waiting' = TRUE /\ Phase' = "opened"
    BY <1>3 DEF Command, Phase
  <2>2. UpdateTypeOK'
    <3>1. "open" \in FwCommands /\ "opened" \in Answers /\ Head(todo) \in Files
      BY <1>3, HeadOfList DEF UpdateInv, FwCommands, Answers
    <3>2. buf' = Name(Head(todo)) /\ dest \in {"online", "own", "tool"}
      BY <1>3 DEF Stage, UpdateInv, UpdateTypeOK
    <3> QED  BY <1>1, <1>2, <1>3, <3>1, <3>2, IssuedTypes DEF UpdateInv, netVars
  <2>3. DownloadInv'
    BY <1>1, <2>1 DEF UpdateInv, DownloadInv, Sending, netVars
  <2>4. TodoInv'
    BY <1>1, <1>3, <2>1 DEF UpdateInv, TodoInv, Sending, Target, Left
  <2>5. CardInv'
    <3> SUFFICES ASSUME ~overlapped'
                 PROVE  /\ QueueOK' /\ DiskOK' /\ LateOK' /\ VersionsOK'
                        /\ OwnOpened' /\ OwnClosed' /\ SentOK' /\ InstalledOK'
      BY <2>1 DEF CardInv
    <3>1. /\ ~overlapped /\ cmds = << >> /\ cmds' = <<"open">>
          /\ QueueOK' /\ DiskOK' /\ LateOK' /\ VersionsOK' /\ InstalledOK'
      BY <1>1, <1>3, Issued DEF UpdateInv, Downloading
    <3>2. OwnOpened' /\ OwnClosed'
      BY <1>1, <1>2, <1>3, <2>1, <3>1 DEF OwnOpened, OwnClosed, Stage
    <3>3. \A f : Ver(f)' = Ver(f)
      BY <1>1, SameDisk
    <3>4. SentOK'
      BY <1>1, <2>1, <3>1, <3>3 DEF UpdateInv, CardInv, SentOK, Sending, Target, Left
    <3> QED  BY <3>1, <3>2, <3>4
  <2> QED  BY <2>2, <2>3, <2>4, <2>5 DEF UpdateInv
<1>4. CASE fwAt' = "remove" /\ Unstaged /\ UNCHANGED <<cmds, callVars, recorded>>
  BY <1>1, <1>4, Stopped DEF Sending, Unstaged, cardVars
<1>5. CASE /\ todo = << >> /\ fwAt' = "remove" /\ Unstaged /\ recorded' = Record
           /\ UNCHANGED <<cmds, callVars>>
  <2>1. recorded' \in {run, 0, recorded}
    BY <1>5 DEF UpdateInv, UpdateTypeOK, Record
  <2>2. UpdateTypeOK'
    BY <1>1, <1>2, <1>5, <2>1
       DEF UpdateInv, UpdateTypeOK, FwPlaces, Answers, netVars, callVars, Unstaged
  <2>3. DownloadInv' /\ TodoInv'
    BY <1>5 DEF DownloadInv, TodoInv, Phase, Sending
  <2>4. CardInv'
    <3> SUFFICES ASSUME ~overlapped
                 PROVE  /\ QueueOK' /\ DiskOK' /\ LateOK' /\ VersionsOK'
                        /\ OwnOpened' /\ OwnClosed' /\ SentOK' /\ InstalledOK'
      BY <1>1, <1>5 DEF UpdateInv, CardInv, callVars
    <3>1. Newest = run /\ Newest' = run /\ run \in Nat
      BY <1>1, <1>2, <1>5 DEF Newest, Downloading
    <3>2. QueueOK' /\ DiskOK' /\ LateOK' /\ VersionsOK'
      BY <1>1, <1>5, <3>1, KeptDisk, KeptQueue DEF UpdateInv, CardInv, Unstaged
    <3>3. OwnOpened' /\ OwnClosed' /\ SentOK'
      BY <1>5 DEF OwnOpened, OwnClosed, SentOK, Phase, Sending
    <3>4. Left = {} /\ "BOOT" \in Target
      BY <1>5 DEF Left, Target
    <3>5. cmds = << >> /\ \A f \in Target : Ver(f) = run
      BY <1>1, <3>4 DEF UpdateInv, CardInv, SentOK, Sending
    <3>6. \A f : Ver(f)' = Ver(f)
      BY <1>1, SameDisk
    <3>7. InstalledOK'
      BY <1>1, <1>5, <3>5, <3>6 DEF InstalledOK, Target
    <3> QED  BY <3>2, <3>3, <3>7
  <2> QED  BY <2>2, <2>3, <2>4 DEF UpdateInv
<1> QED  BY <1>3, <1>4, <1>5 DEF SendOpen

\* A file being sent is in the bundle; a downloaded one has both its chunks.
LEMMA BeingSent ==
  ASSUME UpdateInv, fwAt \in {"opened", "closed"}
  PROVE  /\ todo # << >> /\ Head(todo) \in Target /\ Head(todo) \in Files
         /\ Size(Head(todo)) = 2 /\ run \in 1..MaxUpdates /\ ~waiting
<1>1. Phase = fwAt
  BY DEF Phase
<1>2. todo # << >> /\ Head(todo) \in Left /\ Head(todo) \in Files
  BY <1>1, HeadOfList DEF UpdateInv, TodoInv
<1>3. Head(todo) \in Target
  BY <1>1, <1>2 DEF UpdateInv, TodoInv, Sending
<1>4. run \in 1..MaxUpdates /\ ~waiting
  BY DEF UpdateInv, UpdateTypeOK, CardInv
<1>5. Target \subseteq {"BOOT"} \cup want[run]
  BY DEF Target
<1>6. dest = "online" => drawer[Head(todo)] = 3
  BY <1>1, <1>3, <1>5 DEF UpdateInv, DownloadInv, Sending
<1>7. Size(Head(todo)) = 2
  BY <1>6 DEF Size
<1> QED  BY <1>2, <1>3, <1>4, <1>7

\* send_bundle_file: the next chunk
LEMMA WriteInv ==
  ASSUME UpdateInv, fwAt = "opened", answer = "ok", part < Size(Head(todo)), part' = part + 1,
         buf' = <<run, Head(todo), part'>>, Command("write", "opened"),
         UNCHANGED <<run, dest, netVars, known, want, todo, tmp, disk, moduleDir, recorded>>
  PROVE  UpdateInv'
<1>1. /\ todo # << >> /\ Head(todo) \in Files /\ part < 2 /\ part \in Nat /\ run \in Nat
      /\ run # 0 /\ run \in 0..MaxUpdates /\ recorded \in 0..run /\ ~waiting
      /\ dest \in {"online", "own", "tool"}
  BY BeingSent DEF UpdateInv, UpdateTypeOK
<1>2. fwAt' = "wait" /\ waiting' = TRUE /\ Phase' = "opened" /\ Phase = "opened"
  BY DEF Command, Phase
<1>3. UpdateTypeOK'
  <2>1. "write" \in FwCommands /\ "opened" \in Answers /\ part' \in Nat
    BY <1>1 DEF FwCommands, Answers
  <2>2. \E k \in Nat, f \in Files, i \in Nat : buf' = <<k, f, i>>
    BY <1>1, <2>1
  <2> QED  BY <1>1, <2>1, <2>2, IssuedTypes DEF UpdateInv, netVars
<1>4. DownloadInv'
  BY <1>2 DEF UpdateInv, DownloadInv, Sending, netVars
<1>5. TodoInv'
  BY <1>1, <1>2 DEF UpdateInv, TodoInv, Sending, Target, Left
<1>6. CardInv'
  <2> SUFFICES ASSUME ~overlapped'
               PROVE  /\ QueueOK' /\ DiskOK' /\ LateOK' /\ VersionsOK'
                      /\ OwnOpened' /\ OwnClosed' /\ SentOK' /\ InstalledOK'
    BY <1>2 DEF CardInv
  <2>1. /\ ~overlapped /\ cmds = << >> /\ cmds' = <<"write">>
        /\ QueueOK' /\ DiskOK' /\ LateOK' /\ VersionsOK' /\ InstalledOK'
    BY Issued DEF UpdateInv, Downloading
  <2>2. tmp.file = Head(todo) /\ tmp.data = Sent(run, Head(todo), part)
    BY <1>1, <1>2, <2>1 DEF UpdateInv, CardInv, OwnOpened
  <2>3. part' - 1 = part /\ part' <= 2 /\ part' # 0
    BY <1>1
  <2>4. OwnOpened'
    BY <1>2, <2>1, <2>2, <2>3 DEF OwnOpened
  <2>5. \A f : Ver(f)' = Ver(f)
    BY SameDisk
  <2>6. OwnClosed' /\ SentOK'
    BY <1>2, <2>1, <2>5 DEF UpdateInv, CardInv, OwnClosed, SentOK, Sending, Target, Left
  <2> QED  BY <2>1, <2>4, <2>6
<1> QED  BY <1>3, <1>4, <1>5, <1>6 DEF UpdateInv

\* send_bundle_file: the end of a file
LEMMA CloseInv ==
  ASSUME UpdateInv, fwAt = "opened", answer = "ok", part = Size(Head(todo)), part' = part,
         buf' = buf, Command("close", "closed"),
         UNCHANGED <<run, dest, netVars, known, want, todo, tmp, disk, moduleDir, recorded>>
  PROVE  UpdateInv'
<1>1. /\ todo # << >> /\ Head(todo) \in Target /\ Head(todo) \in Files /\ part = 2 /\ run \in Nat
      /\ run # 0 /\ run \in 0..MaxUpdates /\ recorded \in 0..run /\ ~waiting /\ part \in Nat
      /\ dest \in {"online", "own", "tool"}
  BY BeingSent DEF UpdateInv, UpdateTypeOK
<1>2. fwAt' = "wait" /\ waiting' = TRUE /\ Phase' = "closed" /\ Phase = "opened"
  BY DEF Command, Phase
<1>3. UpdateTypeOK'
  <2>1. "close" \in FwCommands /\ "closed" \in Answers
    BY DEF FwCommands, Answers
  <2> QED  BY <1>1, <2>1, IssuedTypes DEF UpdateInv, netVars
<1>4. DownloadInv'
  BY <1>2 DEF UpdateInv, DownloadInv, Sending, netVars
<1>5. TodoInv'
  BY <1>1, <1>2 DEF UpdateInv, TodoInv, Sending, Target, Left
<1>6. CardInv'
  <2> SUFFICES ASSUME ~overlapped'
               PROVE  /\ QueueOK' /\ DiskOK' /\ LateOK' /\ VersionsOK'
                      /\ OwnOpened' /\ OwnClosed' /\ SentOK' /\ InstalledOK'
    BY <1>2 DEF CardInv
  <2>1. ~overlapped /\ cmds = << >> /\ cmds' = <<"close">>
    BY Issue DEF UpdateInv
  <2>2. tmp.file = Head(todo) /\ tmp.data = Image(run, Head(todo))
    BY <1>1, <1>2, <2>1, Images DEF UpdateInv, CardInv, OwnOpened
  <2>3. \A f : Ver(f)' = Ver(f)
    BY SameDisk
  <2>4. Newest = run /\ Newest' = run
    BY <1>2 DEF Newest, Downloading
  <2>5. DiskOK' /\ VersionsOK'
    BY <1>1, <2>1, <2>4, KeptDisk DEF UpdateInv, CardInv
  <2>6. QueueOK'
    BY <2>1 DEF QueueOK
  <2>7. Ver("BOOT") <= run
    BY <1>1, <2>1, <2>4 DEF UpdateInv, CardInv, DiskOK, Files
  <2>8. moduleDir /\ Head(todo) = "BOOT" => \A m \in want[run] : Ver(m) >= run
    <3> SUFFICES ASSUME moduleDir, Head(todo) = "BOOT", NEW m \in want[run]
                 PROVE  Ver(m) = run
      BY <1>1
    <3>1. m \in Target /\ m # "BOOT"
      BY <1>1, UpdateAssumption DEF Target, UpdateInv, UpdateTypeOK
    <3>2. todo \in Seq(Files) /\ todo[1] = "BOOT" /\ 1 \in DOMAIN todo
      BY <1>1 DEF UpdateInv, UpdateTypeOK
    <3>3. Len(todo) = 1
      BY <1>1, <1>2, <3>2 DEF UpdateInv, TodoInv, Sending
    <3>4. m \notin Left
      BY <3>1, <3>2, <3>3 DEF Left
    <3> QED  BY <1>2, <2>1, <3>1, <3>4 DEF UpdateInv, CardInv, SentOK, Sending
  <2>9. LateOK'
    <3>1. Head(cmds') = "close"
      BY <2>1
    <3>2. run \in 1..Newest'
      BY <1>1, <2>4
    <3> QED  BY <2>2, <2>3, <2>7, <2>8, <3>1, <3>2 DEF LateOK
  <2>10. OwnOpened' /\ OwnClosed'
    BY <1>2, <2>1, <2>2 DEF OwnOpened, OwnClosed
  <2>11. SentOK'
    BY <1>2, <2>1, <2>3 DEF UpdateInv, CardInv, SentOK, Sending, Target, Left
  <2>12. InstalledOK'
    BY <2>1 DEF UpdateInv, CardInv, InstalledOK
  <2> QED  BY <2>5, <2>6, <2>9, <2>10, <2>11, <2>12
<1> QED  BY <1>3, <1>4, <1>5, <1>6 DEF UpdateInv

\* send_bundle_file: chunk, end of file, read error, refused or unanswered
LEMMA SendChunkInv == UpdateInv /\ SendChunk => UpdateInv'
<1> SUFFICES ASSUME UpdateInv, SendChunk PROVE UpdateInv'
  OBVIOUS
<1>1. /\ fwAt = "opened" /\ fwAt \in Sending
      /\ UNCHANGED <<run, dest, netVars, known, want, todo, tmp, disk, moduleDir, recorded>>
  BY DEF SendChunk, Sending
<1>2. CASE fwAt' = "remove" /\ Unstaged /\ UNCHANGED <<cmds, callVars, part>>
  BY <1>1, <1>2, Stopped DEF Unstaged, cardVars
<1>3. CASE Command("abort", "remove") /\ Unstaged /\ UNCHANGED part
  BY <1>1, <1>3, StoppedByAbort DEF Unstaged
<1>4. CASE /\ answer = "ok" /\ part < Size(Head(todo)) /\ part' = part + 1
           /\ Stage(<<run, Head(todo), part'>>) /\ Command("write", "opened")
  BY <1>1, <1>4, WriteInv DEF Stage
<1>5. CASE /\ answer = "ok" /\ part = Size(Head(todo)) /\ Command("close", "closed") /\ Unstaged
           /\ UNCHANGED part
  BY <1>1, <1>5, CloseInv DEF Unstaged
<1> QED  BY <1>2, <1>3, <1>4, <1>5 DEF SendChunk

\* send_bundle_file: the answer of CLOSE
LEMMA SendDoneInv == UpdateInv /\ SendDone => UpdateInv'
<1> SUFFICES ASSUME UpdateInv, SendDone PROVE UpdateInv'
  OBVIOUS
<1>1. /\ fwAt = "closed" /\ fwAt \in Sending /\ Phase = "closed"
      /\ UNCHANGED <<run, dest, netVars, known, want, tmp, disk, buf, moduleDir, recorded>>
  BY DEF SendDone, Sending, Unstaged, Phase
<1>2. CASE Command("abort", "remove") /\ UNCHANGED <<todo, part>>
  BY <1>1, <1>2, StoppedByAbort
<1>3. CASE /\ answer = "ok" /\ fwAt' = "file" /\ todo' = Tail(todo) /\ part' = 0
           /\ UNCHANGED <<cmds, callVars>>
  <2>1. /\ todo # << >> /\ todo' \in Seq(Files) /\ Len(todo') = Len(todo) - 1 /\ Len(todo) \in Nat
        /\ (\A i \in DOMAIN todo' : i + 1 \in DOMAIN todo /\ todo'[i] = todo[i + 1])
        /\ \A f \in Left : f = Head(todo) \/ \E i \in DOMAIN todo' : todo'[i] = f
    BY <1>1, <1>3, BeingSent, HeadOfList DEF UpdateInv
  <2>2. Left' \subseteq Left /\ (\A f \in Left : f = Head(todo) \/ f \in Left') /\ Target' = Target
    <3>1. \A f \in Left' : \E i \in DOMAIN todo' : todo'[i] = f
      BY DEF Left
    <3>2. \A f : (\E i \in DOMAIN todo : todo[i] = f) => f \in Left
      BY DEF Left
    <3>3. \A f : (\E i \in DOMAIN todo' : todo'[i] = f) => f \in Left'
      BY DEF Left
    <3>4. Target' = Target
      BY <1>1 DEF Target
    <3>5. Left' \subseteq Left
      BY <2>1, <3>1, <3>2
    <3> QED  BY <2>1, <3>3, <3>4, <3>5
  <2>3. Phase' = "file"
    BY <1>3 DEF Phase
  <2>4. UpdateTypeOK'
    BY <1>1, <1>3, <2>1 DEF UpdateInv, UpdateTypeOK, FwPlaces, Sending, netVars, callVars
  <2>5. DownloadInv'
    BY <1>1, <1>3, <2>3 DEF UpdateInv, DownloadInv, Sending, netVars
  <2>6. TodoInv'
    <3>1. todo \in Seq(Files) /\ \A i \in DOMAIN todo : todo[i] = "BOOT" <=> i = Len(todo)
      BY <1>1, <2>1 DEF UpdateInv, UpdateTypeOK, TodoInv, Sending
    <3>2. \A i \in DOMAIN todo' : i \in Nat /\ (todo'[i] = "BOOT" <=> i = Len(todo'))
      BY <2>1, <3>1
    <3> QED  BY <1>1, <1>3, <2>2, <2>3, <3>2 DEF UpdateInv, TodoInv, Sending
  <2>7. CardInv'
    <3>0. ~waiting
      BY <1>1 DEF UpdateInv, CardInv
    <3> SUFFICES ASSUME ~overlapped
                 PROVE  /\ QueueOK' /\ DiskOK' /\ LateOK' /\ VersionsOK'
                        /\ OwnOpened' /\ OwnClosed' /\ SentOK' /\ InstalledOK'
      BY <1>3, <3>0 DEF CardInv, callVars
    <3>1. cmds = << >> /\ Ver(Head(todo)) = run
      BY <1>1, <1>3, <3>0 DEF UpdateInv, CardInv, OwnClosed
    <3>2. Newest = run /\ Newest' = run /\ run \in Nat
      BY <1>1, <1>3 DEF Newest, Downloading, UpdateInv, UpdateTypeOK
    <3>3. QueueOK' /\ DiskOK' /\ LateOK' /\ VersionsOK'
      BY <1>1, <1>3, <3>2, KeptDisk, KeptQueue DEF UpdateInv, CardInv
    <3>4. OwnOpened' /\ OwnClosed'
      BY <2>3 DEF OwnOpened, OwnClosed
    <3>5. \A f : Ver(f)' = Ver(f)
      BY <1>1, SameDisk
    <3>6. \A f \in Target \ Left' : Ver(f) = run
      BY <1>1, <2>2, <3>1 DEF UpdateInv, CardInv, SentOK, Sending
    <3>7. SentOK'
      BY <1>1, <1>3, <2>2, <3>1, <3>5, <3>6 DEF SentOK
    <3>8. InstalledOK'
      BY <1>1 DEF UpdateInv, CardInv, InstalledOK
    <3> QED  BY <3>3, <3>4, <3>7, <3>8
  <2> QED  BY <2>4, <2>5, <2>6, <2>7 DEF UpdateInv
<1> QED  BY <1>2, <1>3 DEF SendDone, CloseAccepted

-----------------------------------------------------------------------------
(* The steps of the card.                                                  *)

\* A command is carried out: what remains are ABORTs, none in a push of a file.
LEMMA Popped ==
  ASSUME UpdateTypeOK, QueueOK, cmds # << >>, cmds' = Tail(cmds)
  PROVE  /\ cmds' \in Seq(FwCommands) /\ QueueOK' /\ LateOK'
         /\ \A c : cmds = <<c>> => cmds' = << >> /\ Head(cmds) = c
<1>1. cmds \in Seq(FwCommands)
  BY DEF UpdateTypeOK
<1>2. cmds' \in Seq(FwCommands) /\ \A i \in DOMAIN cmds' : i + 1 \in DOMAIN cmds /\ i + 1 > 1
                                   /\ cmds'[i] = cmds[i + 1]
  BY <1>1
<1>3. \A i \in DOMAIN cmds' : cmds'[i] = "abort"
  BY <1>2 DEF QueueOK
<1>4. cmds' # << >> => Head(cmds') = "abort"
  <2>1. cmds' # << >> => 1 \in DOMAIN cmds' /\ Head(cmds') = cmds'[1]
    BY <1>2
  <2> QED
    BY <1>3, <2>1
<1>5. \A c : cmds = <<c>> => cmds' = << >> /\ Head(cmds) = c
  BY <1>1
<1> QED  BY <1>2, <1>3, <1>4, <1>5 DEF QueueOK, LateOK

\* The answer of a command that was still awaited, or of one given up.
AnsweredBy(st) == answer' = IF waiting THEN st ELSE answer

\* What is left of the push when a command has been carried out, by what it
\* did to the transfer and to the disk.
LEMMA Executed ==
  ASSUME UpdateInv, ~overlapped, cmds # << >>, cmds' = Tail(cmds), waiting' = FALSE,
         UNCHANGED <<fwAt, run, dest, netVars, known, want, todo, part, then, overlapped, buf,
                     moduleDir, recorded>>,
         NEW st, AnsweredBy(st), st # "none",
         DOMAIN disk' = Files, DiskOK', VersionsOK',
         Phase \in Sending => \A f \in Target \ Left : Ver(f)' = Ver(f),
         Phase = "opened" /\ st = "ok" =>
           tmp'.file = Head(todo) /\ tmp'.data = Sent(run, Head(todo), part),
         Phase = "closed" /\ st = "ok" => Ver(Head(todo))' = run
  PROVE  CardInv'
<1>1. /\ QueueOK' /\ LateOK' /\ Phase' = Phase
      /\ \A c : cmds = <<c>> => cmds' = << >> /\ Head(cmds) = c
  BY Popped DEF UpdateInv, CardInv, Phase
<1>2. Target' = Target /\ Left' = Left
  BY DEF Target, Left
<1>3. ~waiting => answer' = answer
  BY DEF AnsweredBy, UpdateInv, UpdateTypeOK
<1>4. waiting => answer' = st
  BY DEF AnsweredBy, UpdateInv, UpdateTypeOK
<1>5. OwnOpened'
  <2> SUFFICES ASSUME Phase = "opened"
               PROVE  /\ part <= 2 /\ cmds' = << >>
                      /\ answer' = "ok" =>
                           tmp'.file = Head(todo) /\ tmp'.data = Sent(run, Head(todo), part)
    BY <1>1 DEF OwnOpened
  <2>1. part <= 2 /\ (cmds = <<"open">> \/ cmds = <<"write">>)
    BY DEF UpdateInv, CardInv, OwnOpened
  <2>2. ~waiting => answer = "busy"
    BY DEF UpdateInv, CardInv, OwnOpened
  <2> QED  BY <1>1, <1>3, <1>4, <2>1, <2>2 DEF UpdateInv, UpdateTypeOK
<1>6. OwnClosed'
  <2> SUFFICES ASSUME Phase = "closed"
               PROVE  cmds' = << >> /\ (answer' = "ok" => Ver(Head(todo))' = run)
    BY <1>1 DEF OwnClosed
  <2>1. cmds = <<"close">>
    BY DEF UpdateInv, CardInv, OwnClosed
  <2>2. ~waiting => answer = "busy"
    BY DEF UpdateInv, CardInv, OwnClosed
  <2> QED  BY <1>1, <1>3, <1>4, <2>1, <2>2 DEF UpdateInv, UpdateTypeOK
<1>7. SentOK'
  BY <1>1, <1>2 DEF UpdateInv, CardInv, SentOK
<1>8. InstalledOK'
  BY DEF UpdateInv, CardInv, InstalledOK
<1> QED  BY <1>1, <1>5, <1>6, <1>7, <1>8 DEF CardInv

\* A command that leaves the disk alone.
LEMMA ExecutedIdle ==
  ASSUME UpdateInv, ~overlapped, cmds # << >>, cmds' = Tail(cmds), waiting' = FALSE,
         UNCHANGED <<fwAt, run, dest, netVars, known, want, todo, part, then, overlapped, buf,
                     moduleDir, recorded, disk>>,
         NEW st, AnsweredBy(st), st # "none",
         Phase = "opened" /\ st = "ok" =>
           tmp'.file = Head(todo) /\ tmp'.data = Sent(run, Head(todo), part),
         ~(Phase = "closed" /\ st = "ok")
  PROVE  CardInv'
<1>1. \A f : Ver(f)' = Ver(f)
  BY SameDisk
<1>2. Newest' = Newest /\ Newest \in Int
  BY DEF Newest, UpdateInv, UpdateTypeOK
<1>3. DiskOK' /\ VersionsOK'
  BY <1>2, KeptDisk DEF UpdateInv, CardInv
<1>4. DOMAIN disk' = Files
  BY DEF UpdateInv, UpdateTypeOK
<1> QED  BY <1>1, <1>3, <1>4, Executed

\* CLOSE stores a whole file, BOOT.bin only after its modules.
LEMMA ExecutedClose ==
  ASSUME UpdateInv, ~overlapped, cmds # << >>, cmds' = Tail(cmds), waiting' = FALSE,
         UNCHANGED <<fwAt, run, dest, netVars, known, want, todo, part, then, overlapped, buf,
                     moduleDir, recorded>>,
         Head(cmds) = "close", tmp.file # "none", AnsweredBy("ok"),
         disk' = [disk EXCEPT ![tmp.file] = tmp.data]
  PROVE  CardInv'
<1>0. PICK x \in Files : x = tmp.file
  BY DEF UpdateInv, UpdateTypeOK
<1>1. x \in Files /\ DOMAIN disk = Files /\ run \in Nat /\ DiskOK /\ VersionsOK /\ QueueOK
      /\ UpdateTypeOK
  BY DEF UpdateInv, UpdateTypeOK, CardInv
<1>2. Newest' = Newest /\ Newest \in Int
  BY <1>1 DEF Newest
<1>3. PICK k \in 1..Newest : /\ tmp.data = Image(k, x) /\ Ver("BOOT") <= k
                             /\ moduleDir /\ x = "BOOT" => \A m \in want[k] : Ver(m) >= k
  BY <1>0 DEF UpdateInv, CardInv, LateOK
<1>4. /\ DOMAIN disk' = Files /\ DiskOK' /\ Ver(x)' = k
      /\ \A f \in Files \ {x} : Ver(f)' = Ver(f)
  <2>1. k \in 0..Newest /\ disk' = [disk EXCEPT ![x] = Image(k, x)]
    BY <1>0, <1>2, <1>3
  <2> QED  BY <1>1, <1>2, <2>1, Stored, Zenon
<1>5. \A j \in 1..Newest : want[j] \subseteq Mods /\ want[j] \subseteq Files
  <2>1. Newest <= MaxUpdates /\ MaxUpdates \in Nat
    BY <1>1, UpdateAssumption DEF Newest, UpdateTypeOK
  <2> QED  BY <1>1, <1>2, <2>1 DEF UpdateTypeOK, Files
<1>6. Ver("BOOT") \in 0..Newest /\ \A f \in Files : Ver(f) \in 0..Newest
  BY <1>1 DEF DiskOK, Files
<1>7. VersionsOK'
  <2>1. CASE x = "BOOT"
    <3>1. \A m \in want[k] : m \in Files \ {x}
      BY <1>3, <1>5, <2>1, UpdateAssumption
    <3>2. Ver("BOOT")' = k
      BY <1>4, <2>1
    <3>3. ASSUME moduleDir, NEW m \in want[k] PROVE Ver(m)' >= k
      <4>1. Ver(m)' = Ver(m) /\ Ver(m) >= k
        BY <1>3, <1>4, <2>1, <3>1, <3>3
      <4> QED  BY <4>1
    <3> QED  BY <3>2, <3>3 DEF VersionsOK
  <2>2. CASE x # "BOOT"
    <3>1. Ver("BOOT")' = Ver("BOOT")
      BY <1>4, <2>2 DEF Files
    <3>2. ASSUME moduleDir, Ver("BOOT") # 0, NEW m \in want[Ver("BOOT")]
          PROVE  Ver(m)' >= Ver("BOOT")
      <4>1. Ver("BOOT") \in 1..Newest
        BY <1>2, <1>6, <3>2
      <4>2. m \in Files /\ Ver(m) >= Ver("BOOT")
        BY <1>1, <1>5, <3>2, <4>1 DEF VersionsOK
      <4>3. CASE m = x
        BY <1>2, <1>3, <1>4, <4>1, <4>3
      <4>4. CASE m # x
        BY <1>4, <4>2, <4>4
      <4> QED  BY <4>3, <4>4
    <3> QED  BY <3>1, <3>2 DEF VersionsOK
  <2> QED  BY <2>1, <2>2
<1>8. ASSUME Phase \in Sending PROVE \A f \in Target \ Left : Ver(f)' = Ver(f)
  <2>1. Phase # "opened"
    <3>1. cmds # <<"open">> /\ cmds # <<"write">>
      OBVIOUS
    <3> QED  BY <3>1 DEF UpdateInv, CardInv, OwnOpened
  <2>2. CASE Phase = "file"
    <3>1. fwAt = "file"
      BY <2>2, <1>1 DEF Phase, UpdateTypeOK, Answers
    <3> QED  BY <3>1 DEF UpdateInv, CardInv, SentOK
  <2>3. CASE Phase = "closed"
    <3>1. x = Head(todo) /\ todo # << >>
      BY <1>0, <2>3 DEF UpdateInv, CardInv, OwnClosed, TodoInv
    <3>2. x \in Left
      BY <1>1, <3>1, HeadOfList
    <3>3. run \in 1..MaxUpdates
      BY <1>1, <2>3 DEF UpdateTypeOK, Phase
    <3>4. Target \subseteq Files
      BY <1>1, <3>3 DEF Target, Files, UpdateTypeOK
    <3> QED  BY <1>4, <3>2, <3>4
  <2> QED  BY <1>8, <2>1, <2>2, <2>3 DEF Sending
<1>9. Phase # "opened"
  <2>1. cmds # <<"open">> /\ cmds # <<"write">>
    OBVIOUS
  <2> QED  BY <2>1 DEF UpdateInv, CardInv, OwnOpened
<1>10. ASSUME Phase = "closed" PROVE Ver(Head(todo))' = run
  <2>1. x = Head(todo) /\ Image(k, x) = Image(run, x)
    BY <1>0, <1>3, <1>10 DEF UpdateInv, CardInv, OwnClosed
  <2>2. k = run
    BY <2>1, Images
  <2>3. Ver(x)' = Ver(Head(todo))'
    BY <2>1 DEF Ver
  <2> QED  BY <1>4, <2>2, <2>3
<1> QED  BY <1>4, <1>7, <1>8, <1>9, <1>10, Executed

\* RESTORE brings back BOOT.bak.
LEMMA ExecutedRestore ==
  ASSUME UpdateInv, ~overlapped, cmds # << >>, cmds' = Tail(cmds), waiting' = FALSE,
         UNCHANGED <<fwAt, run, dest, netVars, known, want, todo, part, then, overlapped, buf,
                     moduleDir, recorded>>,
         Head(cmds) = "restore", AnsweredBy("ok"),
         disk' = [disk EXCEPT ![buf[2]] = Image(0, buf[2])]
  PROVE  CardInv'
<1>1. /\ DOMAIN disk = Files /\ "BOOT" \in Files /\ DiskOK /\ buf = Name("BOOT")
  BY DEF UpdateInv, UpdateTypeOK, CardInv, LateOK, Files
<1>2. buf[2] = "BOOT"
  BY <1>1, Names
<1>3. Newest' = Newest /\ Newest \in Nat
  BY DEF Newest, UpdateInv, UpdateTypeOK, Downloading
<1>4. /\ DOMAIN disk' = Files /\ DiskOK' /\ Ver("BOOT")' = 0
  <2>1. 0 \in 0..Newest /\ disk' = [disk EXCEPT !["BOOT"] = Image(0, "BOOT")]
    BY <1>2, <1>3
  <2> QED  BY <1>1, <1>3, <2>1, Stored, Zenon
<1>5. VersionsOK'
  BY <1>4 DEF VersionsOK
<1>6. Phase \notin {"opened", "closed"}
  <2>1. cmds # <<"open">> /\ cmds # <<"write">> /\ cmds # <<"close">>
    OBVIOUS
  <2> QED  BY <2>1 DEF UpdateInv, CardInv, OwnOpened, OwnClosed
<1>7. Phase \in Sending => Target \ Left = {}
  <2>1. Phase \in Sending => fwAt = "file"
    BY <1>6 DEF Phase, Sending, UpdateInv, UpdateTypeOK, Answers
  <2> QED  BY <2>1 DEF UpdateInv, CardInv, SentOK
<1> QED  BY <1>4, <1>5, <1>6, <1>7, Executed

\* The card carries out a command.
LEMMA FwExecInv == UpdateInv /\ FwExec => UpdateInv'
<1> SUFFICES ASSUME UpdateInv, FwExec PROVE UpdateInv'
  OBVIOUS
<1> DEFINE c == Head(cmds)
           Done(st) == answer' = IF waiting THEN st ELSE answer
           Abort == c = "abort" /\ tmp' = NoTransfer /\ Done("ok") /\ UNCHANGED disk
           Open == /\ c = "open" /\ IsName(buf) /\ tmp' = [file |-> buf[2], data |-> << >>]
                   /\ Done("ok") /\ UNCHANGED disk
           NoOpen == c = "open" /\ tmp' = NoTransfer /\ Done("error") /\ UNCHANGED disk
           Write == /\ c = "write" /\ tmp.file # "none" /\ ~IsName(buf)
                    /\ tmp' = [tmp EXCEPT !.data = Append(@, buf)] /\ Done("ok") /\ UNCHANGED disk
           Declined == c \in FwCommands /\ UNCHANGED <<tmp, disk>> /\ Done("error")
           Ask == c = "probe" /\ UNCHANGED <<tmp, disk>> /\ Done("state")
           Close == /\ c = "close" /\ tmp.file # "none" /\ tmp' = NoTransfer
                    /\ disk' = [disk EXCEPT ![tmp.file] = tmp.data] /\ Done("ok")
           Back == /\ c = "restore" /\ UNCHANGED tmp /\ IsName(buf)
                   /\ disk' = [disk EXCEPT ![buf[2]] = Image(0, buf[2])] /\ Done("ok")
<1>1. /\ cmds # << >> /\ cmds' = Tail(cmds) /\ waiting' = FALSE
      /\ UNCHANGED <<fwAt, run, dest, netVars, known, want, todo, part, then, overlapped, buf,
                     moduleDir, recorded>>
  BY DEF FwExec
<1>2. Abort \/ Open \/ NoOpen \/ Write \/ Declined \/ Ask \/ Close \/ Back
  BY DEF FwExec, FwCommands
<1>3. UpdateTypeOK'
  <2>1. cmds' \in Seq(FwCommands)
    BY <1>1 DEF UpdateInv, UpdateTypeOK
  <2>2. DOMAIN disk' = Files
    BY <1>2 DEF UpdateInv, UpdateTypeOK
  <2>3. IsName(buf) => buf[2] \in Files
    BY Names DEF UpdateInv, UpdateTypeOK
  <2>4. DOMAIN tmp' = {"file", "data"} /\ tmp'.file \in Files \cup {"none"}
    <3>1. DOMAIN tmp = {"file", "data"} /\ tmp.file \in Files \cup {"none"}
      BY DEF UpdateInv, UpdateTypeOK
    <3>2. \/ tmp' = tmp \/ tmp' = NoTransfer
          \/ IsName(buf) /\ tmp' = [file |-> buf[2], data |-> << >>]
          \/ tmp' = [tmp EXCEPT !.data = Append(@, buf)]
      BY <1>2
    <3>3. CASE tmp' = tmp
      BY <3>1, <3>3
    <3>4. CASE tmp' = NoTransfer
      BY <3>4 DEF NoTransfer
    <3>5. CASE IsName(buf) /\ tmp' = [file |-> buf[2], data |-> << >>]
      BY <2>3, <3>5
    <3>6. CASE tmp' = [tmp EXCEPT !.data = Append(@, buf)]
      BY <3>1, <3>6
    <3> QED  BY <3>2, <3>3, <3>4, <3>5, <3>6
  <2> QED  BY <1>1, <2>1, <2>2, <2>4 DEF UpdateInv, UpdateTypeOK, netVars
<1>4. DownloadInv' /\ TodoInv'
  BY <1>1 DEF UpdateInv, DownloadInv, TodoInv, Phase, Complete, Left, Target, netVars
<1>5. CardInv'
  <2>0. CASE overlapped
    BY <1>1, <2>0 DEF CardInv
  <2> SUFFICES ASSUME ~overlapped PROVE CardInv'
    BY <2>0
  <2>1. /\ Phase = "opened" => cmds = <<"open">> \/ cmds = <<"write">>
        /\ Phase = "closed" => cmds = <<"close">>
    BY <1>1 DEF UpdateInv, CardInv, OwnOpened, OwnClosed
  <2>2. /\ Phase = "opened" => c \in {"open", "write"}
        /\ Phase = "closed" => c = "close"
    BY <2>1
  <2>3. CASE Abort
    BY <1>1, <2>2, <2>3, ExecutedIdle DEF AnsweredBy
  <2>4. CASE Open
    <3>1. Phase = "opened" => part = 0 /\ buf = Name(Head(todo))
      BY <1>1, <2>1, <2>4 DEF UpdateInv, CardInv, OwnOpened
    <3>2. Phase = "opened" =>
            tmp'.file = Head(todo) /\ tmp'.data = Sent(run, Head(todo), part)
      BY <2>4, <3>1, Names, Images
    <3> QED  BY <1>1, <2>2, <2>4, <3>2, ExecutedIdle DEF AnsweredBy
  <2>5. CASE NoOpen \/ Declined
    <3>1. AnsweredBy("error") /\ UNCHANGED disk
      BY <2>5 DEF AnsweredBy
    <3>2. "error" # "none" /\ "error" # "ok"
      OBVIOUS
    <3> QED  BY <1>1, <3>1, <3>2, ExecutedIdle
  <2>6. CASE Write
    <3>1. Phase = "opened" =>
            /\ part \in 1..2 /\ buf = <<run, Head(todo), part>>
            /\ tmp.file = Head(todo) /\ tmp.data = Sent(run, Head(todo), part - 1)
      BY <1>1, <2>1, <2>6 DEF UpdateInv, UpdateTypeOK, CardInv, OwnOpened
    <3>2. tmp'.file = tmp.file /\ tmp'.data = Append(tmp.data, buf)
      BY <2>6 DEF UpdateInv, UpdateTypeOK
    <3>3. Phase = "opened" =>
            tmp'.file = Head(todo) /\ tmp'.data = Sent(run, Head(todo), part)
      <4> SUFFICES ASSUME Phase = "opened"
                   PROVE  Append(tmp.data, buf) = Sent(run, Head(todo), part)
        BY <3>1, <3>2
      <4>1. CASE part = 1
        <5>1. tmp.data = Sent(run, Head(todo), 0) /\ buf = <<run, Head(todo), 1>>
          BY <3>1, <4>1
        <5> QED  BY <4>1, <5>1, Images
      <4>2. CASE part = 2
        <5>1. tmp.data = Sent(run, Head(todo), 1) /\ buf = <<run, Head(todo), 2>>
          BY <3>1, <4>2
        <5> QED  BY <4>2, <5>1, Images
      <4> QED  BY <3>1, <4>1, <4>2
    <3> QED  BY <1>1, <2>2, <2>6, <3>3, ExecutedIdle DEF AnsweredBy
  <2>7. CASE Ask
    BY <1>1, <2>2, <2>7, ExecutedIdle DEF AnsweredBy
  <2>8. CASE Close
    BY <1>1, <2>8, ExecutedClose DEF AnsweredBy
  <2>9. CASE Back
    BY <1>1, <2>9, ExecutedRestore DEF AnsweredBy
  <2> QED  BY <1>2, <2>3, <2>4, <2>5, <2>6, <2>7, <2>8, <2>9
<1> QED  BY <1>3, <1>4, <1>5 DEF UpdateInv

-----------------------------------------------------------------------------
(* The theorem.                                                            *)

\* Every step preserves the invariant.
LEMMA UpdateInvNext == UpdateInv /\ [UpdateNext]_updateVars => UpdateInv'
<1> SUFFICES ASSUME UpdateInv, [UpdateNext]_updateVars PROVE UpdateInv'
  OBVIOUS
<1>1. CASE UNCHANGED updateVars
  <2>1. UNCHANGED <<fwAt, run, dest, arch, rx, zipRes, drawer, want, todo, part, then, cmds, buf,
                    tmp, disk, waiting, answer, overlapped, moduleDir, recorded>>
    BY <1>1 DEF updateVars, netVars, callVars, cardVars
  <2>2. UpdateTypeOK' /\ DownloadInv' /\ TodoInv'
    <3>1. UpdateTypeOK'
      BY <2>1 DEF UpdateInv, UpdateTypeOK
    <3>2. DownloadInv'
      BY <2>1 DEF UpdateInv, DownloadInv, Phase, Complete
    <3>3. TodoInv'
      BY <2>1 DEF UpdateInv, TodoInv, Phase, Left, Target
    <3> QED  BY <3>1, <3>2, <3>3
  <2>3. \A f : Ver(f)' = Ver(f)
    BY <2>1, SameDisk
  <2>4. Phase' = Phase /\ Newest' = Newest /\ Left' = Left /\ Target' = Target
    BY <2>1 DEF Phase, Newest, Left, Target
  <2>5. CardInv'
    BY <2>1, <2>3, <2>4
       DEF UpdateInv, CardInv, QueueOK, DiskOK, LateOK, VersionsOK, OwnOpened, OwnClosed, SentOK,
           InstalledOK
  <2> QED  BY <2>2, <2>5 DEF UpdateInv
<1>2. CASE CheckOnline
  BY <1>2, CheckOnlineInv
<1>3. CASE BeginDownload
  BY <1>3, BeginDownloadInv
<1>4. CASE ConnOpen
  BY <1>4, ConnOpenInv
<1>5. CASE Redirect
  BY <1>5, RedirectInv
<1>6. CASE ResponseHead
  BY <1>6, ResponseHeadInv
<1>7. CASE Receive
  BY <1>7, ReceiveInv
<1>8. CASE StreamEnds
  BY <1>8, StreamEndsInv
<1>9. CASE PressEscape
  BY <1>9, PressEscapeInv
<1>10. CASE Discover
  BY <1>10, DiscoverInv
<1>11. CASE FwExec
  BY <1>11, FwExecInv
<1>12. CASE Polled
  BY <1>12, PolledInv
<1>13. CASE BeginOwn
  BY <1>13, BeginOwnInv
<1>14. CASE Probe
  BY <1>14, ProbeInv
<1>15. CASE Probed
  BY <1>15, ProbedInv
<1>16. CASE ListBundle
  BY <1>16, ListBundleInv
<1>17. CASE SendOpen
  BY <1>17, SendOpenInv
<1>18. CASE SendChunk
  BY <1>18, SendChunkInv
<1>19. CASE SendDone
  BY <1>19, SendDoneInv
<1>20. CASE Remove
  BY <1>20, RemoveInv
<1>21. CASE Restore
  BY <1>21, RestoreInv
<1>22. CASE Restored
  BY <1>22, RestoredInv
<1> QED  BY <1>1, <1>2, <1>3, <1>4, <1>5, <1>6, <1>7, <1>8, <1>9, <1>10, <1>11, <1>12, <1>13,
            <1>14, <1>15, <1>16, <1>17, <1>18, <1>19, <1>20, <1>21, <1>22 DEF UpdateNext

\* The invariant gives what the card and the drawer promise.
LEMMA UpdateInvSafe == UpdateInv => UpdateSafe
<1> SUFFICES ASSUME UpdateInv PROVE UpdateSafe
  OBVIOUS
<1>1. DrawerRemoved
  BY DEF UpdateInv, DownloadInv, DrawerRemoved, Phase
<1>2. ASSUME ~overlapped PROVE CardIntact /\ BootAfterModules /\ RecordedIsInstalled
  <2>1. DiskOK /\ VersionsOK /\ InstalledOK /\ UpdateTypeOK
    BY <1>2 DEF UpdateInv, CardInv
  <2>2. run \in Nat /\ run <= MaxUpdates /\ Newest \in Int /\ Newest <= run /\ MaxUpdates \in Nat
    BY <2>1, UpdateAssumption DEF UpdateTypeOK, Newest
  <2>3. \A f \in Files : Ver(f) \in 0..run /\ disk[f] = Image(Ver(f), f)
    BY <2>1, <2>2 DEF DiskOK
  <2>4. CardIntact
    <3>1. \A f \in Files : Ver(f) \in 0..MaxUpdates
      BY <2>2, <2>3
    <3> QED  BY <2>3, <3>1 DEF CardIntact
  <2>5. BootAfterModules
    <3> SUFFICES ASSUME moduleDir, NEW k \in 1..run, disk["BOOT"] = Image(k, "BOOT"),
                        NEW m \in want[k]
                 PROVE  \E j \in k..run : disk[m] = Image(j, m)
      BY DEF BootAfterModules
    <3>1. Ver("BOOT") = k
      BY Images DEF Ver
    <3>2. m \in Files
      BY <2>1, <2>2 DEF UpdateTypeOK, Files
    <3>3. Ver(m) >= k
      BY <2>1, <3>1 DEF VersionsOK
    <3>4. Ver(m) \in k..run
      BY <2>2, <2>3, <3>2, <3>3
    <3> QED  BY <2>3, <3>2, <3>4
  <2>6. RecordedIsInstalled
    <3> SUFFICES ASSUME recorded # 0, recorded = run, NEW f \in Target
                 PROVE  disk[f] = Image(run, f)
      BY DEF RecordedIsInstalled, Target
    <3>1. Ver(f) = run
      BY <2>1 DEF InstalledOK
    <3>2. run \in 1..MaxUpdates
      BY <2>2
    <3>3. f \in Files
      BY <2>1, <3>2 DEF UpdateTypeOK, Target, Files
    <3> QED  BY <2>3, <3>1, <3>3
  <2> QED  BY <2>4, <2>5, <2>6
<1> QED  BY <1>1, <1>2 DEF UpdateSafe

\* However an update fails, the card holds whole images with BOOT.bin never
\* ahead of its modules, unless a command overlapped one that had timed out;
\* no download is left behind: for any modules, archives and number of updates.
THEOREM UpdateIsSafe == UpdateSpec => []UpdateSafe
<1>1. UpdateInit => UpdateInv
  BY UpdateInvInit
<1>2. UpdateInv /\ [UpdateNext]_updateVars => UpdateInv'
  BY UpdateInvNext
<1>3. UpdateInv => UpdateSafe
  BY UpdateInvSafe
<1> QED  BY <1>1, <1>2, <1>3, PTL DEF UpdateSpec

-----------------------------------------------------------------------------
(* The transfers and the boot scan of zzsd.device.                          *)

\* Quotient and remainder of a number by a word.
LEMMA WordRange ==
  ASSUME NEW W \in Nat \ {0}, NEW x \in Nat
  PROVE  x % W \in 0..(W - 1) /\ x \div W \in Nat /\ x = W * (x \div W) + (x % W)
  BY SMT

\* They are unique.
LEMMA WordUnique ==
  ASSUME NEW W \in Nat \ {0}, NEW q \in Nat, NEW p \in Nat, NEW r \in 0..(W - 1),
         NEW s \in 0..(W - 1), W * q + r = W * p + s
  PROVE  q = p /\ r = s
<1>1. ASSUME NEW a \in Nat, NEW b \in Nat, a > b PROVE W * a >= W * b + W
  BY <1>1, SMT
<1>2. ~(q > p)
  BY <1>1, SMT
<1>3. ~(p > q)
  BY <1>1, SMT
<1> QED
  BY <1>2, <1>3, SMT
\* Addresses that do not pass the word are added as numbers.
LEMMA WordStep ==
  ASSUME NEW W \in Nat \ {0}, NEW x \in Nat, NEW j \in Nat, (x % W) + j < W
  PROVE  (x + j) % W = (x % W) + j
<1> DEFINE q == x \div W  r == x % W  p == (x + j) \div W  s == (x + j) % W
<1>1. q \in Nat /\ r \in 0..(W - 1) /\ x = W * q + r
  BY WordRange
<1>2. x + j \in Nat
  OBVIOUS
<1>3. p \in Nat /\ s \in 0..(W - 1) /\ x + j = W * p + s
  BY <1>2, WordRange
<1>4. r + j \in 0..(W - 1)
  BY <1>1
<1>5. W * q \in Nat /\ W * p \in Nat
  BY <1>1, <1>3
<1> HIDE DEF q, r, p, s
<1>6. W * q + (r + j) = W * p + s
  BY <1>1, <1>3, <1>5
<1>7. r + j = s
  BY <1>1, <1>3, <1>4, <1>6, WordUnique
<1> QED
  BY <1>7 DEF r, s

\* An address of a word is its own remainder.
LEMMA WordSmall ==
  ASSUME NEW W \in Nat \ {0}, NEW x \in 0..(W - 1)
  PROVE  x % W = x
<1> DEFINE q == x \div W  r == x % W
<1>0. x \in Nat
  OBVIOUS
<1>1. q \in Nat /\ r \in 0..(W - 1) /\ x = W * q + r
  BY <1>0, WordRange
<1> HIDE DEF q, r
<1>2. W * 0 + x = W * q + r
  BY <1>1
<1>3. x = r
  BY <1>1, <1>2, WordUnique
<1> QED
  BY <1>3 DEF r

\* Addresses less than a word apart are different.
LEMMA WordInjective ==
  ASSUME NEW W \in Nat \ {0}, NEW x \in Nat, NEW i \in 0..(W - 1), NEW j \in 0..(W - 1),
         (x + i) % W = (x + j) % W
  PROVE  i = j
<1> DEFINE q == (x + i) \div W  p == (x + j) \div W  r == (x + i) % W
<1>0. x + i \in Nat /\ x + j \in Nat
  OBVIOUS
<1>1. q \in Nat /\ r \in 0..(W - 1) /\ x + i = W * q + r
  BY <1>0, WordRange
<1>2. p \in Nat /\ x + j = W * p + r
  BY <1>0, WordRange
<1> HIDE DEF q, p, r
<1>3. ASSUME NEW a \in Nat, NEW b \in Nat, a > b PROVE W * a >= W * b + W
  BY <1>3, SMT
<1>4. W * q \in Nat /\ W * p \in Nat
  BY <1>1, <1>2
<1>5. ~(q > p)
  BY <1>1, <1>2, <1>3, <1>4
<1>6. ~(p > q)
  BY <1>1, <1>2, <1>3, <1>4
<1>7. q = p
  BY <1>1, <1>2, <1>5, <1>6
<1> QED
  BY <1>1, <1>2, <1>7
-----------------------------------------------------------------------------
\* Transfers and requests of the right kind.
Transfers == [write : BOOLEAN, block : 0..(WordMod - 1), n : 1..AtOnce]
Requests == [via : {"none", "cmd", "scsi"}, write : BOOLEAN, lba : 0..(WordMod - 1), n : 0..MaxLen]

DiskTypeOK ==
  /\ dImage \in [ImageBlocks -> Nat] /\ dBuffer \in [0..(AtOnce - 1) -> Nat]
  /\ dStatus \in {"busy", "ok", "error"} /\ dFw \in Seq(Transfers)
  /\ dIo \in Requests /\ dMem \in [0..(dIo.n - 1) -> Nat]
  /\ dPc \in {"idle", "chunk", "poll"} /\ dAt \in 0..dIo.n 
  /\ (dPc = "poll" => dAt < dIo.n) /\ (dPc = "idle" => dIo.via = "none")
  /\ dTries \in Nat /\ dLate \in BOOLEAN /\ dDone \in Nat

\* The block of the image for block k of the request.
Where(k) == (dIo.lba + Base + k) % WordMod

HoldsBlock(k, v) == Where(k) \in ImageBlocks /\ dImage[Where(k)] = v

\* The one unfinished transfer is a chunk of the request, the current one unless
\* it timed out; a write still finds its data in the buffer.
PendingOK ==
  /\ dFw = << >> \/ Len(dFw) = 1
  /\ dPc # "idle" /\ dFw # << >> => \E a \in 0..(dIo.n - 1) :
       LET t == Head(dFw)
       IN /\ t.write = dIo.write /\ t.block = Where(a) /\ t.n <= dIo.n - a
          /\ dPc = "poll" => a = dAt /\ t.n = num_blocks
          /\ dIo.write => \A j \in 0..(t.n - 1) : dBuffer[j] = dMem[a + j]

\* The status is that of the current chunk.
StatusOK ==
  dPc = "poll" =>
    \/ dFw # << >> /\ dStatus = "busy"
    \/ dFw = << >> /\ dStatus = "error"
    \/ /\ dFw = << >> /\ dStatus = "ok"
       /\ \A j \in 0..(num_blocks - 1) :
            HoldsBlock(dAt + j, IF dIo.write THEN dMem[dAt + j] ELSE dBuffer[j])

\* The blocks before the current chunk are done.
BlocksDone == dPc # "idle" => \A k \in 0..(dAt - 1) : HoldsBlock(k, dMem[k])

ScsiInside == dIo.via = "scsi" /\ dIo.lba + dIo.n < WordMod => dIo.lba + dIo.n <= PartBlocks

DiskInv == DiskTypeOK /\ ScsiInside /\ (~dLate => PendingOK /\ StatusOK /\ BlocksDone)

\* The blocks of a request lie where its numbers say.
LEMMA WhereRange ==
  ASSUME DiskTypeOK, NEW k \in Nat
  PROVE  Where(k) \in 0..(WordMod - 1) /\ dIo.lba + Base \in Nat /\ WordMod \in Nat \ {0}
<1>1. dIo.lba \in 0..(WordMod - 1) /\ WordMod \in Nat /\ Base \in Nat
  BY DiskAssumption DEF DiskTypeOK, Requests
<1>2. WordMod # 0 /\ dIo.lba + Base + k \in Nat /\ dIo.lba + Base \in Nat
  BY <1>1
<1> QED
  BY <1>1, <1>2, WordRange DEF Where

LEMMA WhereStep ==
  ASSUME DiskTypeOK, NEW a \in Nat, NEW j \in Nat, Where(a) + j \in ImageBlocks
  PROVE  Where(a + j) = Where(a) + j
<1>1. WordMod \in Nat \ {0} /\ dIo.lba + Base + a \in Nat /\ Where(a) \in Nat
  BY WhereRange
<1>2. Where(a) + j < WordMod
  BY <1>1, DiskAssumption DEF ImageBlocks
<1>3. (dIo.lba + Base + a + j) % WordMod = Where(a) + j
  BY <1>1, <1>2, WordStep DEF Where
<1>4. dIo.lba \in Nat /\ Base \in Nat
  BY DiskAssumption DEF DiskTypeOK, Requests
<1>5. dIo.lba + Base + a + j = dIo.lba + Base + (a + j)
  BY <1>4
<1> QED
  BY <1>3, <1>5 DEF Where

LEMMA WhereInjective ==
  ASSUME DiskTypeOK, NEW i \in 0..(dIo.n - 1), NEW j \in 0..(dIo.n - 1), Where(i) = Where(j)
  PROVE  i = j
<1>1. WordMod \in Nat \ {0} /\ dIo.lba + Base \in Nat
  BY WhereRange
<1>2. i \in 0..(WordMod - 1) /\ j \in 0..(WordMod - 1)
  BY DiskAssumption DEF DiskTypeOK, Requests
<1> QED
  BY <1>1, <1>2, WordInjective DEF Where

\* The next chunk of a request.
LEMMA ChunkSize ==
  ASSUME DiskTypeOK
  PROVE  /\ dIo.n \in Nat /\ dAt \in Nat /\ Remaining = dIo.n - dAt /\ Remaining \in Nat
         /\ num_blocks \in Nat /\ num_blocks <= Remaining /\ num_blocks <= AtOnce
         /\ Remaining > 0 => num_blocks > 0
  BY DiskAssumption DEF DiskTypeOK, Requests, Remaining, num_blocks

\* Sequences of transfers.
LEMMA TransfersSeq ==
  ASSUME NEW s \in Seq(Transfers)
  PROVE  /\ \A t \in Transfers : Append(s, t) \in Seq(Transfers)
         /\ \A t \in Transfers : s = << >> => Len(Append(s, t)) = 1 /\ Head(Append(s, t)) = t
         /\ s # << >> => Head(s) \in Transfers /\ Tail(s) \in Seq(Transfers)
         /\ Len(s) = 1 => Tail(s) = << >>
<1>1. ASSUME NEW t \in Transfers
      PROVE  /\ Append(s, t) \in Seq(Transfers)
             /\ s = << >> => Len(Append(s, t)) = 1 /\ Head(Append(s, t)) = t
  <2>1. Append(s, t) \in Seq(Transfers) /\ Len(Append(s, t)) = Len(s) + 1
        /\ Append(s, t)[Len(s) + 1] = t
    BY AppendProperties
  <2>2. s = << >> => Len(s) = 0
    OBVIOUS
  <2> QED
    BY <2>1, <2>2
<1>2. s # << >> => Head(s) \in Transfers /\ Tail(s) \in Seq(Transfers)
  BY HeadTailProperties
<1>3. Len(s) = 1 => Tail(s) = << >>
  <2>1. Len(s) = 1 => s # << >>
    OBVIOUS
  <2>2. Len(s) = 1 => Tail(s) \in Seq(Transfers) /\ Len(Tail(s)) = 0
    BY <2>1, HeadTailProperties
  <2> QED
    BY <2>2, EmptySeq
<1> QED
  BY <1>1, <1>2, <1>3

\* What a transfer carried out by the firmware changes.
LEMMA TransferDone ==
  ASSUME DiskTypeOK, FwTransfer
  PROVE  \E ks \in SUBSET (0..(Head(dFw).n - 1)) :
           /\ \A k \in ks : Head(dFw).block + k \in ImageBlocks
           /\ \/ dStatus' = "ok" /\ ks = 0..(Head(dFw).n - 1)
              \/ dStatus' = "error"
           /\ Head(dFw).write =>
                /\ dBuffer' = dBuffer
                /\ dImage' = [b \in ImageBlocks |-> IF \E k \in ks : b = Head(dFw).block + k
                                                    THEN dBuffer[b - Head(dFw).block]
                                                    ELSE dImage[b]]
           /\ ~Head(dFw).write =>
                /\ dImage' = dImage
                /\ dBuffer' = [k \in DOMAIN dBuffer |->
                                 IF k \in ks THEN dImage[Head(dFw).block + k] ELSE dBuffer[k]]
<1> DEFINE t == Head(dFw)
           in == {k \in 0..(t.n - 1) : t.block + k \in ImageBlocks}
           some(m) == {k \in in : k < m}
<1>1. CASE in = 0..(t.n - 1) /\ dStatus' = "ok"
  <2>1. in \in SUBSET (0..(t.n - 1)) /\ \A k \in in : t.block + k \in ImageBlocks
    OBVIOUS
  <2> QED
    BY <1>1, <2>1 DEF FwTransfer
<1>2. CASE dStatus' = "error"
  <2>1. \A m \in {0, 1} :
          some(m) \in SUBSET (0..(t.n - 1)) /\ \A k \in some(m) : t.block + k \in ImageBlocks
    OBVIOUS
  <2> QED
    BY <1>2, <2>1 DEF FwTransfer
<1> QED
  BY <1>1, <1>2 DEF FwTransfer

\* The kinds of the disk's variables are kept by each step.
LEMMA DiskTypeStep ==
  ASSUME DiskTypeOK, [DiskNext]_diskVars
  PROVE  DiskTypeOK'
<1> USE DiskAssumption
<1>0. /\ dIo.lba \in 0..(WordMod - 1) /\ dIo.n \in Nat /\ dIo.n \in 0..MaxLen /\ WordMod \in Nat \ {0}
      /\ dIo.write \in BOOLEAN
  BY WhereRange, ChunkSize DEF DiskTypeOK, Requests
<1>1. CASE begin_io
  <2>1. PICK via \in {"cmd", "scsi"}, write \in BOOLEAN, lba \in 0..(WordMod - 1), n \in 0..MaxLen :
          dIo' = [via |-> via, write |-> write, lba |-> lba, n |-> n] /\ dMem' = Fresh(n)
    BY <1>1 DEF begin_io
  <2>2. dIo' \in Requests /\ dIo'.n = n
    BY <2>1 DEF Requests
  <2>3. Fresh(n) \in [0..(n - 1) -> Nat]
    BY DEF Fresh
  <2>4. 0 \in 0..n /\ dDone + 1 \in Nat
    BY DEF DiskTypeOK
  <2> QED
    BY <1>1, <2>1, <2>2, <2>3, <2>4 DEF begin_io, DiskTypeOK
<1>2. CASE StartChunk
  <2> DEFINE t == [write |-> dIo.write, block |-> Block, n |-> num_blocks]
  <2>1. Block \in 0..(WordMod - 1)
    BY ChunkSize, WhereRange DEF Block, Where
  <2>2. num_blocks \in 1..AtOnce
    BY <1>2, ChunkSize DEF StartChunk
  <2>3. t \in Transfers
    BY <1>0, <2>1, <2>2 DEF Transfers
  <2>4. dFw' \in Seq(Transfers)
    BY <1>2, <2>3, TransfersSeq DEF StartChunk, DiskTypeOK
  <2>5. dBuffer' \in [0..(AtOnce - 1) -> Nat]
    <3>1. ASSUME NEW k \in 0..(AtOnce - 1), k < num_blocks
          PROVE  dMem[dAt + k] \in Nat
      <4>1. dAt + k \in 0..(dIo.n - 1)
        BY <3>1, ChunkSize
      <4> QED
        BY <4>1 DEF DiskTypeOK
    <3>2. CASE dIo.write
      BY <1>2, <3>1, <3>2 DEF StartChunk, DiskTypeOK
    <3>3. CASE ~dIo.write
      BY <1>2, <3>3 DEF StartChunk, DiskTypeOK
    <3> QED
      BY <3>2, <3>3
  <2>6. dAt < dIo.n
    BY <1>2, ChunkSize DEF StartChunk
  <2> QED
    BY <1>2, <2>4, <2>5, <2>6 DEF StartChunk, DiskTypeOK
<1>3. CASE EndChunk
  <2>1. dAt' \in 0..dIo.n
    BY <1>3, ChunkSize DEF EndChunk
  <2>2. dMem' \in [0..(dIo.n - 1) -> Nat]
    <3>1. \A k \in dAt..(dAt + num_blocks - 1) : dBuffer[k - dAt] \in Nat
      BY ChunkSize DEF DiskTypeOK
    <3>2. CASE dIo.write
      BY <1>3, <3>2 DEF EndChunk, DiskTypeOK
    <3>3. CASE ~dIo.write
      BY <1>3, <3>1, <3>3 DEF EndChunk, DiskTypeOK
    <3> QED
      BY <3>2, <3>3
  <2> QED
    BY <1>3, <2>1, <2>2 DEF EndChunk, DiskTypeOK
<1>4. ASSUME Returned PROVE /\ dIo' \in Requests /\ dMem' \in [0..(dIo'.n - 1) -> Nat]
                            /\ dPc' = "idle" /\ dAt' \in 0..dIo'.n /\ dTries' \in Nat
                            /\ dIo'.via = "none"
  <2>1. NoIo \in Requests /\ NoIo.n = 0 /\ NoIo.via = "none"
    BY <1>0 DEF NoIo, Requests
  <2>2. Fresh(0) \in [0..(0 - 1) -> Nat]
    BY DEF Fresh
  <2> QED
    BY <1>4, <2>1, <2>2 DEF Returned
<1>5. CASE FailChunk
  <2>1. CASE dTries > 1
    BY <1>0, <1>5, <2>1 DEF FailChunk, DiskTypeOK
  <2>2. CASE ~(dTries > 1)
    BY <1>4, <1>5, <2>2 DEF FailChunk, DiskTypeOK
  <2> QED
    BY <2>1, <2>2
<1>6. CASE Reply
  BY <1>4, <1>6 DEF Reply, DiskTypeOK
<1>7. CASE FwTransfer
  <2> DEFINE t == Head(dFw)
  <2>1. t \in Transfers /\ dFw' \in Seq(Transfers)
    BY <1>7, TransfersSeq DEF FwTransfer, DiskTypeOK
  <2>2. PICK ks \in SUBSET (0..(t.n - 1)) :
           /\ \A k \in ks : t.block + k \in ImageBlocks
           /\ dStatus' \in {"ok", "error"}
           /\ t.write =>
                /\ dBuffer' = dBuffer
                /\ dImage' = [b \in ImageBlocks |-> IF \E k \in ks : b = t.block + k
                                                    THEN dBuffer[b - t.block]
                                                    ELSE dImage[b]]
           /\ ~t.write =>
                /\ dImage' = dImage
                /\ dBuffer' = [k \in DOMAIN dBuffer |->
                                 IF k \in ks THEN dImage[t.block + k] ELSE dBuffer[k]]
    BY <1>7, TransferDone
  <2>3. dImage' \in [ImageBlocks -> Nat] /\ dBuffer' \in [0..(AtOnce - 1) -> Nat]
    <3> HIDE DEF t
    <3>1. t.n \in 1..AtOnce /\ t.block \in Nat
      BY <2>1 DEF Transfers
    <3>2. CASE t.write
      <4>1. ASSUME NEW b \in ImageBlocks, NEW k \in ks, b = t.block + k
            PROVE  dBuffer[b - t.block] \in Nat
        <5>1. b - t.block = k /\ k \in 0..(AtOnce - 1)
          BY <3>1, <4>1
        <5> QED
          BY <5>1 DEF DiskTypeOK
      <4>2. \A b \in ImageBlocks :
              (IF \E k \in ks : b = t.block + k THEN dBuffer[b - t.block] ELSE dImage[b]) \in Nat
        BY <4>1 DEF DiskTypeOK
      <4>3. dImage' = [b \in ImageBlocks |-> IF \E k \in ks : b = t.block + k
                                             THEN dBuffer[b - t.block] ELSE dImage[b]]
        BY <2>2, <3>2
      <4>4. dImage' \in [ImageBlocks -> Nat]
        BY <4>2, <4>3
      <4> QED
        BY <2>2, <3>2, <4>4 DEF DiskTypeOK
    <3>3. CASE ~t.write
      BY <2>2, <3>3 DEF DiskTypeOK
    <3>4. t.write \in BOOLEAN
      BY <2>1 DEF Transfers
    <3> QED
      BY <3>2, <3>3, <3>4
  <2> QED
    BY <1>7, <2>1, <2>2, <2>3 DEF FwTransfer, DiskTypeOK
<1>8. CASE UNCHANGED diskVars
  BY <1>8 DEF diskVars, DiskTypeOK
<1> QED
  BY <1>1, <1>2, <1>3, <1>5, <1>6, <1>7, <1>8 DEF DiskNext

\* A request begins with nothing of an earlier one unfinished, or dLate says so.
LEMMA BeginKeeps ==
  ASSUME DiskInv, begin_io
  PROVE  ScsiInside' /\ (~dLate' => PendingOK' /\ StatusOK' /\ BlocksDone')
<1>1. PICK via \in {"cmd", "scsi"}, write \in BOOLEAN, lba \in 0..(WordMod - 1), n \in 0..MaxLen :
        LET io == [via |-> via, write |-> write, lba |-> lba, n |-> n]
        IN (Trackdisk(io) \/ Scsi(io)) /\ dIo' = io
  BY DEF begin_io
<1>2. WordMod \in Nat \ {0}
  BY WhereRange DEF DiskInv
<1>3. ScsiInside'
  <2> SUFFICES ASSUME via = "scsi", lba + n < WordMod
               PROVE  lba + n <= PartBlocks
    BY <1>1 DEF ScsiInside
  <2>1. (lba + n) % WordMod <= PartBlocks
    BY <1>1 DEF Trackdisk, Scsi
  <2>2. lba + n \in 0..(WordMod - 1)
    BY <1>2, DiskAssumption
  <2> QED
    BY <1>2, <2>1, <2>2, WordSmall
<1>4. ~dLate' => dFw' = << >> /\ dPc' = "chunk" /\ dAt' = 0
  BY DEF begin_io
<1> QED
  BY <1>3, <1>4 DEF PendingOK, StatusOK, BlocksDone

\* A chunk is handed over with its data in the buffer.
LEMMA StartKeeps ==
  ASSUME DiskInv, StartChunk
  PROVE  ScsiInside' /\ (~dLate' => PendingOK' /\ StatusOK' /\ BlocksDone')
<1>1. ScsiInside'
  BY DEF DiskInv, ScsiInside, StartChunk
<1> SUFFICES ASSUME ~dLate'
             PROVE  PendingOK' /\ StatusOK' /\ BlocksDone'
  BY <1>1
<1> DEFINE t == [write |-> dIo.write, block |-> Block, n |-> num_blocks]
<1>2. /\ ~dLate /\ dFw = << >> /\ dFw' = Append(dFw, t) /\ dPc = "chunk" /\ dPc' = "poll"
      /\ dStatus' = "busy" /\ dAt' = dAt /\ dIo' = dIo /\ dMem' = dMem /\ dImage' = dImage
      /\ Remaining > 0
  BY DEF StartChunk
<1>3. num_blocks' = num_blocks
  BY <1>2 DEF num_blocks, Remaining
<1>4. t \in Transfers
  <2>1. Block \in 0..(WordMod - 1) /\ num_blocks \in 1..AtOnce /\ dIo.write \in BOOLEAN
    <3>1. DiskTypeOK
      BY DEF DiskInv
    <3>2. dAt \in Nat /\ num_blocks \in 1..AtOnce
      BY <1>2, <3>1, ChunkSize, DiskAssumption
    <3>3. Block = Where(dAt) /\ Where(dAt) \in 0..(WordMod - 1)
      BY <3>1, <3>2, WhereRange DEF Block, Where
    <3> QED
      BY <3>1, <3>2, <3>3 DEF DiskTypeOK, Requests
  <2> QED
    BY <2>1 DEF Transfers
<1>5. dFw' # << >> /\ Len(dFw') = 1 /\ Head(dFw') = t
  <2>1. dFw \in Seq(Transfers)
    BY DEF DiskInv, DiskTypeOK
  <2> HIDE DEF t
  <2>2. Len(dFw') = 1 /\ Head(dFw') = t
    BY <1>2, <1>4, <2>1, TransfersSeq
  <2> QED
    BY <2>2, EmptySeq
<1>6. PendingOK'
  <2>1. dAt \in 0..(dIo.n - 1) /\ num_blocks <= dIo.n - dAt
    BY <1>2, ChunkSize DEF DiskInv
  <2>2. t.write = dIo.write /\ t.block = Where(dAt) /\ t.n = num_blocks
    BY DEF Block, Where
  <2>3. ASSUME dIo.write, NEW j \in 0..(num_blocks - 1) PROVE dBuffer'[j] = dMem[dAt + j]
    <3>1. j \in DOMAIN dBuffer /\ j < num_blocks
      BY ChunkSize, DiskAssumption DEF DiskInv, DiskTypeOK
    <3> QED
      BY <2>3, <3>1 DEF StartChunk
  <2>4. Where(dAt)' = Where(dAt)
    BY <1>2 DEF Where
  <2> HIDE DEF t
  <2> QED
    BY <1>2, <1>3, <1>5, <2>1, <2>2, <2>3, <2>4 DEF PendingOK, Where
<1>7. StatusOK'
  BY <1>2, <1>5 DEF StatusOK
<1>8. BlocksDone'
  <2>1. BlocksDone
    BY <1>2 DEF DiskInv
  <2>2. ASSUME NEW k \in 0..(dAt - 1)
        PROVE  Where(k)' \in ImageBlocks /\ dImage'[Where(k)'] = dMem'[k]
    BY <1>2, <2>1 DEF BlocksDone, HoldsBlock, Where
  <2> QED
    BY <1>2, <2>2 DEF BlocksDone, HoldsBlock
<1> QED
  BY <1>6, <1>7, <1>8

\* A chunk that is taken arrived.
LEMMA EndKeeps ==
  ASSUME DiskInv, EndChunk
  PROVE  ScsiInside' /\ (~dLate' => PendingOK' /\ StatusOK' /\ BlocksDone')
<1>1. ScsiInside'
  BY DEF DiskInv, ScsiInside, EndChunk
<1> SUFFICES ASSUME ~dLate'
             PROVE  PendingOK' /\ StatusOK' /\ BlocksDone'
  BY <1>1
<1>2. /\ ~dLate /\ dFw' = dFw /\ dPc = "poll" /\ dPc' = "chunk" /\ dStatus = "ok"
      /\ dAt' = dAt + num_blocks /\ dIo' = dIo /\ dImage' = dImage
  BY DEF EndChunk, Taken
<1>3. dFw = << >> /\ \A j \in 0..(num_blocks - 1) :
                       HoldsBlock(dAt + j, IF dIo.write THEN dMem[dAt + j] ELSE dBuffer[j])
  BY <1>2 DEF DiskInv, StatusOK
<1>4. BlocksDone'
  <2> SUFFICES ASSUME NEW k \in 0..(dAt + num_blocks - 1)
               PROVE  Where(k) \in ImageBlocks /\ dImage[Where(k)] = dMem'[k]
    <3>1. dAt' - 1 = dAt + num_blocks - 1
      BY <1>2, ChunkSize DEF DiskInv
    <3>2. \A k : Where(k)' = Where(k)
      BY <1>2 DEF Where
    <3> QED
      BY <1>2, <3>1, <3>2 DEF BlocksDone, HoldsBlock
  <2>1. dAt \in Nat /\ num_blocks \in Nat /\ dAt + num_blocks <= dIo.n /\ dIo.n \in Nat
    BY ChunkSize DEF DiskInv
  <2>2. k \in DOMAIN dMem
    BY <2>1 DEF DiskInv, DiskTypeOK
  <2>3. CASE k < dAt
    <3>1. HoldsBlock(k, dMem[k])
      BY <1>2, <2>1, <2>3 DEF DiskInv, BlocksDone
    <3>2. dMem'[k] = dMem[k]
      BY <2>1, <2>2, <2>3 DEF EndChunk
    <3> QED
      BY <3>1, <3>2 DEF HoldsBlock
  <2>4. CASE k >= dAt
    <3>1. k - dAt \in 0..(num_blocks - 1) /\ dAt + (k - dAt) = k
          /\ k \in dAt..(dAt + num_blocks - 1)
      BY <2>1, <2>4
    <3>2. HoldsBlock(k, IF dIo.write THEN dMem[k] ELSE dBuffer[k - dAt])
      BY <1>3, <3>1
    <3>3. dMem'[k] = IF dIo.write THEN dMem[k] ELSE dBuffer[k - dAt]
      BY <2>2, <3>1 DEF EndChunk
    <3> QED
      BY <3>2, <3>3 DEF HoldsBlock
  <2> QED
    BY <2>1, <2>3, <2>4
<1> QED
  BY <1>2, <1>3, <1>4 DEF PendingOK, StatusOK

\* After a failure the request is tried from its first block, or given back; the
\* transfer may still be carried out.
LEMMA FailKeeps ==
  ASSUME DiskInv, FailChunk
  PROVE  ScsiInside' /\ (~dLate' => PendingOK' /\ StatusOK' /\ BlocksDone')
<1>1. CASE dTries > 1
  <2>1. /\ dPc = "poll" /\ dPc' = "chunk" /\ dAt' = 0 /\ dIo' = dIo /\ dMem' = dMem
        /\ dFw' = dFw /\ dBuffer' = dBuffer /\ dLate' = dLate /\ dImage' = dImage
    BY <1>1 DEF FailChunk
  <2>2. ScsiInside'
    BY <2>1 DEF DiskInv, ScsiInside
  <2>3. ~dLate => PendingOK'
    BY <2>1 DEF DiskInv, PendingOK, Where
  <2> QED
    BY <2>1, <2>2, <2>3 DEF StatusOK, BlocksDone
<1>2. CASE ~(dTries > 1)
  <2>1. /\ dPc' = "idle" /\ dIo' = NoIo /\ dFw' = dFw /\ dLate' = dLate
    BY <1>2 DEF FailChunk, Returned
  <2> QED
    BY <2>1 DEF DiskInv, ScsiInside, NoIo, PendingOK, StatusOK, BlocksDone
<1> QED
  BY <1>1, <1>2

LEMMA ReplyKeeps ==
  ASSUME DiskInv, Reply
  PROVE  ScsiInside' /\ (~dLate' => PendingOK' /\ StatusOK' /\ BlocksDone')
<1>1. /\ dPc' = "idle" /\ dIo' = NoIo /\ dFw' = dFw /\ dLate' = dLate
  BY DEF Reply, Returned
<1> QED
  BY <1>1 DEF DiskInv, ScsiInside, NoIo, PendingOK, StatusOK, BlocksDone

\* A transfer carried out moves its own blocks; a late write stores what the
\* blocks done before it hold.
LEMMA TransferKeeps ==
  ASSUME DiskInv, FwTransfer
  PROVE  ScsiInside' /\ (~dLate' => PendingOK' /\ StatusOK' /\ BlocksDone')
<1>1. /\ dFw # << >> /\ dFw' = Tail(dFw) /\ dIo' = dIo /\ dMem' = dMem /\ dPc' = dPc
      /\ dAt' = dAt /\ dLate' = dLate
  BY DEF FwTransfer
<1>2. ScsiInside'
  BY <1>1 DEF DiskInv, ScsiInside
<1> SUFFICES ASSUME ~dLate
             PROVE  PendingOK' /\ StatusOK' /\ BlocksDone'
  BY <1>1, <1>2
<1>3. DiskTypeOK /\ PendingOK /\ BlocksDone
  BY DEF DiskInv
<1>4. dFw' = << >>
  BY <1>1, <1>3, TransfersSeq DEF DiskTypeOK, PendingOK
<1> DEFINE t == Head(dFw)
<1>5. t \in Transfers
  BY <1>1, <1>3, TransfersSeq DEF DiskTypeOK
<1>6. PICK ks \in SUBSET (0..(t.n - 1)) :
         /\ \A k \in ks : t.block + k \in ImageBlocks
         /\ \/ dStatus' = "ok" /\ ks = 0..(t.n - 1)
            \/ dStatus' = "error"
         /\ t.write =>
              /\ dBuffer' = dBuffer
              /\ dImage' = [b \in ImageBlocks |-> IF \E k \in ks : b = t.block + k
                                                  THEN dBuffer[b - t.block]
                                                  ELSE dImage[b]]
         /\ ~t.write =>
              /\ dImage' = dImage
              /\ dBuffer' = [k \in DOMAIN dBuffer |->
                               IF k \in ks THEN dImage[t.block + k] ELSE dBuffer[k]]
  BY <1>3, TransferDone
<1>7. PendingOK'
  BY <1>4 DEF PendingOK
<1>8. CASE dPc = "idle"
  BY <1>1, <1>7, <1>8 DEF StatusOK, BlocksDone
<1>9. CASE dPc # "idle"
  <2>1. PICK a \in 0..(dIo.n - 1) :
          /\ t.write = dIo.write /\ t.block = Where(a) /\ t.n <= dIo.n - a
          /\ dPc = "poll" => a = dAt /\ t.n = num_blocks
          /\ dIo.write => \A j \in 0..(t.n - 1) : dBuffer[j] = dMem[a + j]
    BY <1>1, <1>3, <1>9 DEF PendingOK
  <2>2. /\ dIo.n \in Nat /\ dAt \in Nat /\ dAt <= dIo.n /\ t.n \in Nat /\ t.n <= AtOnce
        /\ a \in Nat /\ t.block \in Nat
    <3>1. t.n \in 1..AtOnce /\ t.block \in Nat
      BY <1>5 DEF Transfers
    <3> HIDE DEF t
    <3> QED
      BY <1>3, <3>1, ChunkSize, DiskAssumption
  <2> HIDE DEF t
  <2>3. ASSUME NEW k \in ks
        PROVE  /\ k \in 0..(t.n - 1) /\ k \in DOMAIN dBuffer /\ Where(a + k) = t.block + k
               /\ Where(a + k) \in ImageBlocks /\ a + k \in 0..(dIo.n - 1)
               /\ dImage'[Where(a + k)] = IF dIo.write THEN dMem[a + k] ELSE dImage[Where(a + k)]
               /\ ~dIo.write => dBuffer'[k] = dImage[Where(a + k)]
    <3>1. k \in 0..(t.n - 1) /\ t.block + k \in ImageBlocks
      BY <1>6, <2>3
    <3>2. k \in Nat /\ k \in DOMAIN dBuffer /\ a + k \in 0..(dIo.n - 1)
      <4>1. k \in 0..(AtOnce - 1)
        BY <2>2, <3>1, DiskAssumption
      <4>2. k \in Nat /\ a + k \in 0..(dIo.n - 1)
        BY <2>1, <2>2, <3>1
      <4> QED
        BY <1>3, <4>1, <4>2 DEF DiskTypeOK
    <3>3. Where(a + k) = t.block + k
      BY <1>3, <2>1, <2>2, <3>1, <3>2, WhereStep
    <3>4. dIo.write => dImage'[t.block + k] = dMem[a + k]
      <4>1. (t.block + k) - t.block = k
        BY <2>2, <3>2
      <4>2. ASSUME dIo.write PROVE dImage'[t.block + k] = dBuffer[(t.block + k) - t.block]
        <5>1. t.write /\ t.block + k \in ImageBlocks /\ k \in ks
          BY <2>1, <2>3, <3>1, <4>2
        <5>2. dImage' = [b \in ImageBlocks |-> IF \E i \in ks : b = t.block + i
                                               THEN dBuffer[b - t.block] ELSE dImage[b]]
          BY <1>6, <5>1
        <5>3. dImage'[t.block + k] = IF \E i \in ks : t.block + k = t.block + i
                                     THEN dBuffer[(t.block + k) - t.block]
                                     ELSE dImage[t.block + k]
          BY <5>1, <5>2
        <5> QED
          BY <5>1, <5>3
      <4> QED
        BY <2>1, <3>1, <4>1, <4>2
    <3>5. ~dIo.write => dImage' = dImage /\ dBuffer'[k] = dImage[t.block + k]
      BY <1>6, <2>1, <3>1, <3>2
    <3> QED
      BY <3>1, <3>2, <3>3, <3>4, <3>5
  <2>4. StatusOK'
    <3> SUFFICES ASSUME dPc = "poll", dStatus' = "ok", NEW j \in 0..(num_blocks - 1)
                 PROVE  /\ Where(dAt + j) \in ImageBlocks
                        /\ dImage'[Where(dAt + j)] = IF dIo.write THEN dMem[dAt + j] ELSE dBuffer'[j]
      BY <1>1, <1>4, <1>6 DEF StatusOK, HoldsBlock, Where, num_blocks, Remaining
    <3>1. a = dAt /\ j \in ks
      BY <1>6, <2>1
    <3> QED
      BY <2>3, <3>1
  <2>5. BlocksDone'
    <3> SUFFICES ASSUME NEW k \in 0..(dAt - 1)
                 PROVE  Where(k) \in ImageBlocks /\ dImage'[Where(k)] = dMem[k]
      BY <1>1 DEF BlocksDone, HoldsBlock, Where
    <3>1. Where(k) \in ImageBlocks /\ dImage[Where(k)] = dMem[k] /\ k \in 0..(dIo.n - 1)
      BY <1>3, <1>9, <2>2 DEF BlocksDone, HoldsBlock
    <3>2. CASE ~dIo.write
      BY <1>6, <2>1, <3>1, <3>2
    <3>3. CASE dIo.write /\ \E i \in ks : Where(k) = t.block + i
      <4>1. PICK i \in ks : Where(k) = t.block + i
        BY <3>3
      <4>2. Where(k) = Where(a + i) /\ a + i \in 0..(dIo.n - 1)
        BY <2>3, <4>1
      <4>3. k = a + i
        BY <1>3, <3>1, <4>2, WhereInjective
      <4> QED
        BY <2>3, <3>1, <3>3, <4>3
    <3>4. CASE dIo.write /\ ~\E i \in ks : Where(k) = t.block + i
      BY <1>6, <2>1, <3>1, <3>4
    <3> QED
      BY <3>1, <3>2, <3>3, <3>4
  <2> QED
    BY <1>7, <2>4, <2>5
<1> QED
  BY <1>8, <1>9

\* The invariant, and what it says of a finished request and of the chunks of a
\* SCSI request.
LEMMA DiskStep ==
  ASSUME DiskInv, [DiskNext]_diskVars
  PROVE  DiskInv'
<1>1. DiskTypeOK'
  BY DiskTypeStep DEF DiskInv
<1>2. CASE UNCHANGED diskVars
  BY <1>1, <1>2
  DEF DiskInv, diskVars, ScsiInside, PendingOK, StatusOK, BlocksDone, HoldsBlock, Where, num_blocks,
      Remaining
<1> QED
  BY <1>1, <1>2, BeginKeeps, StartKeeps, EndKeeps, FailKeeps, ReplyKeeps, TransferKeeps
  DEF DiskInv, DiskNext

LEMMA DiskStart == DiskInit => DiskInv
<1> SUFFICES ASSUME DiskInit PROVE DiskInv
  OBVIOUS
<1>1. ImageBlocks \subseteq Nat /\ Rubbish \in Nat
  BY DEF ImageBlocks, Rubbish
<1>2. dImage \in [ImageBlocks -> Nat] /\ dBuffer \in [0..(AtOnce - 1) -> Nat]
  BY <1>1 DEF DiskInit
<1>3. NoIo \in Requests /\ NoIo.n = 0 /\ NoIo.via = "none"
  <2>1. 0 \in 0..(WordMod - 1) /\ 0 \in 0..MaxLen
    BY DiskAssumption
  <2> QED
    BY <2>1 DEF NoIo, Requests
<1>4. Fresh(0) \in [0..(0 - 1) -> Nat]
  BY DEF Fresh
<1>5. << >> \in Seq(Transfers)
  BY EmptySeq
<1>6. DiskTypeOK
  <2>1. dMem \in [0..(dIo.n - 1) -> Nat] /\ dAt \in 0..dIo.n
    BY <1>3, <1>4 DEF DiskInit
  <2> QED
    BY <1>2, <1>3, <1>5, <2>1 DEF DiskInit, DiskTypeOK
<1> QED
  BY <1>3, <1>6 DEF DiskInv, DiskInit, ScsiInside, PendingOK, StatusOK, BlocksDone

LEMMA DiskEnough == DiskInv => DiskSafe
<1> SUFFICES ASSUME DiskInv, ~dLate PROVE DiskSafe
  BY DEF DiskSafe
<1>1. DiskTypeOK /\ PendingOK /\ BlocksDone /\ ScsiInside
  BY DEF DiskInv
<1>2. ASSUME dPc = "chunk", Remaining = 0, NEW k \in DOMAIN dMem
      PROVE  Where(k) \in ImageBlocks /\ dMem[k] = dImage[Where(k)]
  <2>1. dAt = dIo.n /\ k \in 0..(dAt - 1)
    BY <1>1, <1>2, ChunkSize DEF DiskTypeOK
  <2> QED
    BY <1>1, <1>2, <2>1 DEF BlocksDone, HoldsBlock
<1>3. ASSUME dIo.via = "scsi", dIo.lba + dIo.n < WordMod, NEW i \in DOMAIN dFw
      PROVE  dFw[i].block \in Base..(Base + PartBlocks - dFw[i].n)
  <2>1. dFw \in Seq(Transfers) /\ i = 1 /\ dFw # << >> /\ dFw[i] = Head(dFw)
    BY <1>1, <1>3 DEF DiskTypeOK, PendingOK
  <2>2. dPc # "idle"
    BY <1>1, <1>3 DEF DiskTypeOK
  <2>3. PICK a \in 0..(dIo.n - 1) : dFw[i].block = Where(a) /\ dFw[i].n <= dIo.n - a
    BY <1>1, <2>1, <2>2 DEF PendingOK
  <2>4. /\ dIo.n \in Nat /\ dIo.lba \in Nat /\ Base \in Nat /\ PartBlocks \in Nat
        /\ dFw[i].n \in 1..AtOnce /\ AtOnce \in Nat
    <3>1. dFw[i] \in Transfers
      BY <2>1, ElementOfSeq
    <3> QED
      BY <1>1, <3>1, DiskAssumption DEF DiskTypeOK, Requests, Transfers
  <2>5. dIo.lba + dIo.n <= PartBlocks
    BY <1>1, <1>3 DEF ScsiInside
  <2>6. dIo.lba + Base + a \in 0..(WordMod - 1)
    BY <2>4, <2>5, DiskAssumption
  <2>7. Where(a) = dIo.lba + Base + a
    BY <2>6, WordSmall, DiskAssumption DEF Where
  <2> QED
    BY <2>3, <2>4, <2>5, <2>7
<1> QED
  BY <1>2, <1>3 DEF DiskSafe, Where

-----------------------------------------------------------------------------
\* The invariant of the boot scan, as long as no answer can be another command's.
InfoCmd == [what |-> "info"]
FsCmd == [what |-> "fs", f |-> bF, c |-> Len(bLocal) + 1]

BootTypeOK ==
  /\ bImage.parts \in Seq(DosTypes) /\ bImage.fs \in Seq(Fs)
  /\ bPc \in {"start", "info", "part", "search", "load", "wait", "node", "done"}
  /\ bStatus \in {"busy", "ok", "error"} /\ bI \in Nat \ {0} /\ bF \in Nat \ {0}
  /\ bMem \subseteq {"info", "local", "code"} /\ bLate \in BOOLEAN

\* The command under way is the one waited for, and its answer the one taken.
AskedOK ==
  /\ bPc = "start" => bAsked = << >>
  /\ bPc = "info" =>
       \/ bAsked = <<InfoCmd>> /\ bStatus = "busy"
       \/ bAsked = << >>
  /\ bPc = "wait" =>
       \/ bAsked = <<FsCmd>> /\ bStatus = "busy"
       \/ bAsked = << >> /\ (bStatus = "error" \/ (bStatus = "ok" /\ bShared = FsCmd))

\* What is loaded is the beginning of a file system nobody has registered.
LoadedOK ==
  /\ bPc \in {"part", "search", "load", "wait", "node"} => bInfo = bImage
  /\ bPc = "part" => bI <= Len(bImage.parts) + 1
  /\ bPc \in {"search", "load", "wait", "node"} => bI <= Len(bImage.parts)
  /\ bPc \in {"search", "load", "wait"} => Registered(bImage.parts[bI]) = {} /\ bFound = NoFs
  /\ bPc \in {"load", "wait"} =>
       /\ bF \in DOMAIN bImage.fs /\ bImage.fs[bF].dos = bImage.parts[bI]
       /\ bLocal \in Seq({Chunk(bF, c) : c \in Nat})
       /\ Len(bLocal) <= bImage.fs[bF].chunks
       /\ \A c \in 1..Len(bLocal) : bLocal[c] = Chunk(bF, c)
  /\ bPc = "wait" => Len(bLocal) < bImage.fs[bF].chunks

\* The registered file systems are whole, one for a dos type, and so is the one
\* found for the partition.
Entries == [dos : DosTypes, code : {Rom} \cup {Whole(f) : f \in DOMAIN bImage.fs}]

RegisteredOK ==
  /\ bRes \in Seq(Entries)
  /\ \A k \in DOMAIN bRes : Good(bRes[k])
  /\ \A k, m \in DOMAIN bRes : bRes[k].dos = bRes[m].dos => k = m
  /\ bPc = "node" =>
       bFound = NoFs \/ (bFound \in Entries /\ Good(bFound) /\ bFound.dos = bImage.parts[bI])

\* The nodes are those of the partitions gone through.
Nodes == [part : Nat, dos : DosTypes \cup {"none"}, fs : {NoFs} \cup Entries]

NodesOK ==
  /\ bNodes \in Seq(Nodes)
  /\ bPc \in {"start", "info"} => bI = 1
  /\ bPc # "done" => Len(bNodes) = bI - 1
  /\ bPc = "done" => Len(bNodes) \in {0, Len(bImage.parts)}
  /\ \A n \in DOMAIN bNodes :
       /\ bNodes[n].dos \in {bImage.parts[bNodes[n].part], "none"}
       /\ bNodes[n].fs = NoFs \/ (Good(bNodes[n].fs) /\ bNodes[n].fs.dos = bNodes[n].dos)

\* Memory is held while it is used.
HeldOK ==
  /\ "local" \in bMem => bPc \in {"load", "wait"}
  /\ "info" \in bMem => bPc \notin {"start", "info", "done"}

BootKept == AskedOK /\ LoadedOK /\ RegisteredOK /\ NodesOK /\ HeldOK

BootInv ==
  BootTypeOK /\ (~bLate => BootKept)

\* The image is what it is, and the boot's variables keep their kinds.
LEMMA BootTypeStep ==
  ASSUME BootTypeOK, [BootNext]_bootVars
  PROVE  BootTypeOK' /\ bImage' = bImage /\ (~bLate' => ~bLate)
<1>1. CASE GetInfo
  BY <1>1 DEF GetInfo, SendCommand, BootTypeOK
<1>2. CASE InfoFails
  BY <1>2 DEF InfoFails, BootTypeOK
<1>3. CASE InfoCopied
  BY <1>3 DEF InfoCopied, BootTypeOK
<1>4. CASE BeginPartition
  BY <1>4 DEF BeginPartition, BootTypeOK
<1>5. CASE Finish
  BY <1>5 DEF Finish, BootTypeOK
<1>6. CASE Search
  <2>1. /\ bPc' \in {"search", "node", "load"} /\ bF' \in {bF, bF + 1}
        /\ bMem' \subseteq bMem \cup {"local"}
        /\ UNCHANGED <<bImage, bStatus, bI, bLate>>
    BY <1>6 DEF Search
  <2>2. bF + 1 \in Nat \ {0}
    BY DEF BootTypeOK
  <2> QED
    BY <2>1, <2>2 DEF BootTypeOK
<1>7. CASE LoadChunk
  BY <1>7 DEF LoadChunk, SendCommand, BootTypeOK
<1>8. CASE ChunkCopied
  BY <1>8 DEF ChunkCopied, BootTypeOK
<1>9. CASE LoadFails
  BY <1>9 DEF LoadFails, BootTypeOK
<1>10. CASE Register
  BY <1>10 DEF Register, BootTypeOK
<1>11. CASE Node
  BY <1>11 DEF Node, BootTypeOK
<1>12. CASE FwAnswer
  BY <1>12 DEF FwAnswer, BootTypeOK
<1>13. CASE UNCHANGED bootVars
  BY <1>13 DEF bootVars, BootTypeOK
<1> QED
  BY <1>1, <1>2, <1>3, <1>4, <1>5, <1>6, <1>7, <1>8, <1>9, <1>10, <1>11, <1>12, <1>13 DEF BootNext

\* A file system of the image.
LEMMA FsKind ==
  ASSUME BootTypeOK, NEW f \in Nat \ {0}, f <= Len(bImage.fs)
  PROVE  /\ f \in DOMAIN bImage.fs /\ bImage.fs[f].dos \in DosTypes
         /\ bImage.fs[f].chunks \in Nat
<1>1. bImage.fs \in Seq(Fs)
  BY DEF BootTypeOK
<1>2. f \in 1..Len(bImage.fs)
  BY <1>1
<1>3. f \in DOMAIN bImage.fs /\ bImage.fs[f] \in Fs
  BY <1>1, <1>2, ElementOfSeq
<1> QED
  BY <1>3, BootAssumption DEF Fs

\* A command alone in the queue.
LEMMA OneCommand ==
  ASSUME NEW c
  PROVE  Head(<<c>>) = c /\ Tail(<<c>>) = << >> /\ <<c>> # << >>
<1>1. <<c>> \in Seq({c}) /\ Len(<<c>>) = 1 /\ <<c>> # << >>
  OBVIOUS
<1>2. Tail(<<c>>) \in Seq({c}) /\ Len(Tail(<<c>>)) = 0
  BY <1>1, HeadTailProperties
<1> QED
  BY <1>1, <1>2, EmptySeq

\* What is whole and registered stays so while the image does.
LEMMA WholeKept ==
  ASSUME bImage' = bImage
  PROVE  Entries' = Entries /\ Nodes' = Nodes /\ \A e : Good(e)' = Good(e)
  BY DEF Entries, Nodes, Good, Whole

\* Before the scan, and its end.
LEMMA InfoKeeps ==
  ASSUME BootTypeOK, BootKept, ~bLate', bImage' = bImage,
         GetInfo \/ InfoFails \/ InfoCopied \/ Finish
  PROVE  BootKept'
<1> USE WholeKept
<1>1. CASE GetInfo
  <2>1. /\ bPc = "start" /\ bPc' = "info" /\ bAsked = << >> /\ bStatus' = "busy"
        /\ bAsked' = Append(bAsked, InfoCmd) /\ bI' = bI /\ bRes' = bRes /\ bNodes' = bNodes
        /\ bMem' = bMem
    BY <1>1 DEF GetInfo, SendCommand, BootKept, AskedOK, InfoCmd
  <2>2. bAsked' = <<InfoCmd>>
    BY <2>1
  <2> QED
    BY <2>1, <2>2 DEF BootKept, AskedOK, LoadedOK, RegisteredOK, NodesOK, HeldOK
<1>2. CASE InfoFails
  BY <1>2 DEF InfoFails, BootKept, AskedOK, LoadedOK, RegisteredOK, NodesOK, HeldOK
<1>3. CASE InfoCopied
  BY <1>3 DEF InfoCopied, BootKept, AskedOK, LoadedOK, RegisteredOK, NodesOK, HeldOK, BootTypeOK
<1>4. CASE Finish
  <2>1. bI - 1 \in {0, Len(bImage.parts)}
    BY <1>4 DEF Finish, partition_count, BootKept, LoadedOK, BootTypeOK
  <2>2. bNodes' = bNodes /\ bPc = "part" /\ bPc' = "done" /\ bRes' = bRes /\ bMem' = bMem \ {"info"}
    BY <1>4 DEF Finish
  <2> QED
    BY <2>1, <2>2 DEF BootKept, AskedOK, LoadedOK, RegisteredOK, NodesOK, HeldOK
<1> QED
  BY <1>1, <1>2, <1>3, <1>4

\* A partition uses the registered file system for its dos type, or has a search.
LEMMA PartitionKeeps ==
  ASSUME BootTypeOK, BootKept, ~bLate', bImage' = bImage, BeginPartition
  PROVE  BootKept'
<1> USE WholeKept
<1> DEFINE mine == Registered(bInfo.parts[bI])
<1>1. /\ bPc = "part" /\ bI <= Len(bImage.parts) /\ bInfo = bImage /\ bI' = bI /\ bRes' = bRes
      /\ bNodes' = bNodes /\ bMem' = bMem /\ bInfo' = bInfo
  BY DEF BeginPartition, partition_count, BootKept, LoadedOK
<1>2. CASE mine = {}
  <2>1. bPc' = "search" /\ bFound' = NoFs
    BY <1>2 DEF BeginPartition
  <2>2. Registered(bImage.parts[bI])' = {}
    BY <1>1, <1>2 DEF Registered
  <2> QED
    BY <1>1, <2>1, <2>2 DEF BootKept, AskedOK, LoadedOK, RegisteredOK, NodesOK, HeldOK
<1>3. CASE mine # {}
  <2>1. bPc' = "node" /\ bFound' = bRes[CHOOSE k \in mine : \A m \in mine : k <= m]
    BY <1>3 DEF BeginPartition
  <2>2. \E k \in mine : \A m \in mine : k <= m
    BY <1>3 DEF Registered, BootKept, RegisteredOK
  <2>3. PICK k \in mine : bFound' = bRes[k]
    BY <2>1, <2>2
  <2>4. k \in DOMAIN bRes /\ bRes[k].dos = bImage.parts[bI]
    BY <1>1, <2>3 DEF Registered
  <2>5. bFound' \in Entries /\ Good(bFound') /\ bFound'.dos = bImage.parts[bI]
    BY <2>3, <2>4 DEF BootKept, RegisteredOK
  <2> QED
    BY <1>1, <2>1, <2>5 DEF BootKept, AskedOK, LoadedOK, RegisteredOK, NodesOK, HeldOK
<1> QED
  BY <1>2, <1>3

\* The search for a file system of the image.
LEMMA SearchKeeps ==
  ASSUME BootTypeOK, BootKept, ~bLate', bImage' = bImage, Search
  PROVE  BootKept'
<1> USE WholeKept
<1>1. /\ bPc = "search" /\ bInfo = bImage /\ bInfo' = bInfo /\ bI' = bI /\ bI <= Len(bImage.parts)
      /\ bRes' = bRes /\ bNodes' = bNodes /\ bFound' = bFound /\ bFound = NoFs /\ bF \in Nat \ {0}
      /\ Registered(bImage.parts[bI]) = {} /\ Registered(bImage.parts[bI])' = {}
  BY DEF Search, BootKept, LoadedOK, BootTypeOK, Registered
<1>2. CASE bPc' = "node" /\ bMem' = bMem
  BY <1>1, <1>2 DEF BootKept, AskedOK, LoadedOK, RegisteredOK, NodesOK, HeldOK
<1>3. CASE bPc' = "search" /\ bMem' = bMem
  BY <1>1, <1>3 DEF BootKept, AskedOK, LoadedOK, RegisteredOK, NodesOK, HeldOK
<1>4. CASE /\ bF <= Len(bInfo.fs) /\ bInfo.fs[bF].dos = bInfo.parts[bI] /\ bF' = bF
           /\ bPc' = "load" /\ bMem' = bMem \cup {"local"} /\ bLocal' = << >>
  <2>1. bF \in DOMAIN bImage.fs /\ bImage.fs[bF].chunks \in Nat
    BY <1>1, <1>4, FsKind
  <2>2. << >> \in Seq({Chunk(bF, c) : c \in Nat}) /\ Len(<< >>) = 0
    BY EmptySeq
  <2> QED
    BY <1>1, <1>4, <2>1, <2>2 DEF BootKept, AskedOK, LoadedOK, RegisteredOK, NodesOK, HeldOK
<1> QED
  BY <1>1, <1>2, <1>3, <1>4 DEF Search

\* A chunk is asked for, and appended to those before it.
LEMMA ChunkKeeps ==
  ASSUME BootTypeOK, BootKept, ~bLate', bImage' = bImage, LoadChunk \/ ChunkCopied
  PROVE  BootKept'
<1> USE WholeKept
<1> DEFINE Chunks == {Chunk(bF, c) : c \in Nat}
<1>1. /\ bPc \in {"load", "wait"} /\ bInfo = bImage /\ bInfo' = bInfo /\ bI' = bI /\ bF' = bF
      /\ bRes' = bRes /\ bNodes' = bNodes /\ bFound' = bFound /\ bFound = NoFs /\ bMem' = bMem
      /\ bI <= Len(bImage.parts)
      /\ Registered(bImage.parts[bI]) = {} /\ Registered(bImage.parts[bI])' = {}
      /\ bF \in DOMAIN bImage.fs /\ bImage.fs[bF].dos = bImage.parts[bI]
      /\ bLocal \in Seq(Chunks) /\ Len(bLocal) <= bImage.fs[bF].chunks
      /\ \A c \in 1..Len(bLocal) : bLocal[c] = Chunk(bF, c)
  BY DEF LoadChunk, ChunkCopied, BootKept, LoadedOK, Registered
<1>2. CASE LoadChunk
  <2>1. /\ bPc = "load" /\ bPc' = "wait" /\ bLocal' = bLocal /\ bAsked = << >> /\ bStatus' = "busy"
        /\ bAsked' = Append(bAsked, FsCmd) /\ Len(bLocal) < bImage.fs[bF].chunks /\ FsCmd' = FsCmd
    BY <1>1, <1>2 DEF LoadChunk, SendCommand, FsCmd
  <2>2. bAsked' = <<FsCmd>>
    BY <2>1
  <2> QED
    BY <1>1, <2>1, <2>2 DEF BootKept, AskedOK, LoadedOK, RegisteredOK, NodesOK, HeldOK
<1>3. CASE ChunkCopied
  <2>1. /\ bPc = "wait" /\ bPc' = "load" /\ bStatus = "ok" /\ bShared = FsCmd
        /\ Len(bLocal) < bImage.fs[bF].chunks
    BY <1>3 DEF ChunkCopied, BootKept, AskedOK, LoadedOK
  <2>2. bLocal' = Append(bLocal, Chunk(bF, Len(bLocal) + 1))
    BY <1>3, <2>1 DEF ChunkCopied, FsCmd
  <2>3. bImage.fs[bF].chunks \in Nat
    <3>1. bF \in Nat \ {0} /\ bF <= Len(bImage.fs)
      BY <1>1 DEF BootTypeOK
    <3> QED
      BY <3>1, FsKind
  <2>4. Len(bLocal) \in Nat /\ Chunk(bF, Len(bLocal) + 1) \in Chunks
    <3>1. Len(bLocal) \in Nat
      <4> HIDE DEF Chunks
      <4> QED
        BY <1>1
    <3> QED
      BY <3>1
  <2>5. /\ bLocal' \in Seq(Chunks) /\ Len(bLocal') = Len(bLocal) + 1
        /\ \A i \in 1..Len(bLocal) : bLocal'[i] = bLocal[i]
        /\ bLocal'[Len(bLocal) + 1] = Chunk(bF, Len(bLocal) + 1)
    <3> HIDE DEF Chunks
    <3> QED
      BY <1>1, <2>2, <2>4, AppendProperties
  <2>6. \A c \in 1..Len(bLocal') : bLocal'[c] = Chunk(bF, c)
    BY <1>1, <2>4, <2>5
  <2>7. Len(bLocal') <= bImage.fs[bF].chunks
    BY <2>1, <2>3, <2>4, <2>5
  <2> QED
    BY <1>1, <2>1, <2>5, <2>6, <2>7 DEF BootKept, AskedOK, LoadedOK, RegisteredOK, NodesOK, HeldOK
<1> QED
  BY <1>2, <1>3

\* Code that is not whole is freed, whole code is registered.
LEMMA LoadedKeeps ==
  ASSUME BootTypeOK, BootKept, ~bLate', bImage' = bImage, LoadFails \/ Register
  PROVE  BootKept'
<1> USE WholeKept
<1>1. /\ bPc \in {"load", "wait"} /\ bInfo = bImage /\ bInfo' = bInfo /\ bI' = bI /\ bPc' = "node"
      /\ bNodes' = bNodes /\ bFound = NoFs /\ "local" \notin bMem' /\ bI <= Len(bImage.parts)
  BY DEF LoadFails, Register, BootKept, LoadedOK
<1>2. CASE LoadFails
  <2>1. bRes' = bRes /\ bFound' = NoFs
    BY <1>1, <1>2 DEF LoadFails
  <2> QED
    BY <1>1, <2>1 DEF BootKept, AskedOK, LoadedOK, RegisteredOK, NodesOK, HeldOK
<1>3. CASE Register
  <2> DEFINE fse == [dos |-> bInfo.fs[bF].dos, code |-> bLocal]
  <2>1. /\ bF \in DOMAIN bImage.fs /\ bImage.fs[bF].dos = bImage.parts[bI]
        /\ bLocal \in Seq({Chunk(bF, c) : c \in Nat}) /\ Len(bLocal) = bImage.fs[bF].chunks
        /\ \A c \in 1..Len(bLocal) : bLocal[c] = Chunk(bF, c)
        /\ Registered(bImage.parts[bI]) = {}
    BY <1>1, <1>3 DEF Register, BootKept, LoadedOK
  <2>2. bLocal = Whole(bF)
    BY <2>1 DEF Whole
  <2>3. bImage.parts[bI] \in DosTypes
    <3>1. bF \in Nat \ {0} /\ bF <= Len(bImage.fs)
      BY <2>1 DEF BootTypeOK
    <3> QED
      BY <2>1, <3>1, FsKind
  <2>4. fse \in Entries /\ Good(fse) /\ fse.dos = bImage.parts[bI]
    BY <1>1, <2>1, <2>2, <2>3 DEF Entries, Good
  <2>5. \/ bFound' = NoFs /\ bRes' = bRes
        \/ bFound' = fse /\ bRes' = <<fse>> \o bRes
        \/ bFound' = fse /\ bRes' = bRes
    BY <1>3 DEF Register
  <2> HIDE DEF fse
  <2>6. CASE bRes' = bRes
    BY <1>1, <2>4, <2>5, <2>6 DEF BootKept, AskedOK, LoadedOK, RegisteredOK, NodesOK, HeldOK
  <2>7. CASE bFound' = fse /\ bRes' = <<fse>> \o bRes
    <3>1. bRes \in Seq(Entries) /\ <<fse>> \in Seq(Entries) /\ Len(<<fse>>) = 1 /\ <<fse>>[1] = fse
      BY <2>4 DEF BootKept, RegisteredOK
    <3>2. /\ bRes' \in Seq(Entries) /\ Len(bRes') = Len(bRes) + 1 /\ bRes'[1] = fse
          /\ \A k \in 2..Len(bRes') : bRes'[k] = bRes[k - 1] /\ k - 1 \in DOMAIN bRes
      BY <2>7, <3>1, ConcatProperties
    <3>3. \A k \in DOMAIN bRes' : k = 1 \/ k \in 2..Len(bRes')
      BY <3>2
    <3>4. \A k \in DOMAIN bRes' : Good(bRes'[k])
      BY <2>4, <3>2, <3>3 DEF BootKept, RegisteredOK
    <3>5. \A k \in DOMAIN bRes : bRes[k].dos # fse.dos
      BY <2>1, <2>4 DEF Registered
    <3>6. \A k, m \in DOMAIN bRes' : bRes'[k].dos = bRes'[m].dos => k = m
      <4> SUFFICES ASSUME NEW k \in DOMAIN bRes', NEW m \in DOMAIN bRes',
                          bRes'[k].dos = bRes'[m].dos
                   PROVE  k = m
        OBVIOUS
      <4>1. \A i \in 2..Len(bRes') : bRes'[i].dos # fse.dos
        BY <3>2, <3>5
      <4>2. CASE k = 1 \/ m = 1
        BY <3>2, <3>3, <4>1, <4>2
      <4>3. CASE k \in 2..Len(bRes') /\ m \in 2..Len(bRes')
        <5>1. k - 1 = m - 1
          BY <3>2, <4>3 DEF BootKept, RegisteredOK
        <5> QED
          BY <4>3, <5>1
      <4> QED
        BY <3>3, <4>2, <4>3
    <3>7. RegisteredOK'
      BY <1>1, <2>4, <2>7, <3>2, <3>4, <3>6 DEF RegisteredOK
    <3> QED
      BY <1>1, <3>7 DEF BootKept, AskedOK, LoadedOK, NodesOK, HeldOK
  <2> QED
    BY <2>5, <2>6, <2>7
<1> QED
  BY <1>2, <1>3

\* The node of a partition.
LEMMA NodeKeeps ==
  ASSUME BootTypeOK, BootKept, ~bLate', bImage' = bImage, Node
  PROVE  BootKept'
<1> USE WholeKept
<1>1. /\ bPc = "node" /\ bPc' = "part" /\ bI' = bI + 1 /\ bInfo' = bInfo /\ bInfo = bImage
      /\ bRes' = bRes /\ bMem' = bMem /\ bI <= Len(bImage.parts) /\ bI \in Nat \ {0}
      /\ Len(bNodes) = bI - 1 /\ bNodes \in Seq(Nodes)
      /\ bFound = NoFs \/ (bFound \in Entries /\ Good(bFound) /\ bFound.dos = bImage.parts[bI])
  BY DEF Node, BootKept, LoadedOK, RegisteredOK, NodesOK, BootTypeOK
<1>2. PICK nd : /\ bNodes' = Append(bNodes, nd)
                /\ \/ nd = [part |-> bI, dos |-> bImage.parts[bI], fs |-> bFound]
                   \/ nd = [part |-> bI, dos |-> "none", fs |-> NoFs]
  BY <1>1 DEF Node
<1>3. bImage.parts[bI] \in DosTypes /\ Len(bImage.parts) \in Nat
  BY <1>1 DEF BootTypeOK
<1>4. /\ nd \in Nodes /\ nd.dos \in {bImage.parts[nd.part], "none"}
      /\ nd.fs = NoFs \/ (Good(nd.fs) /\ nd.fs.dos = nd.dos)
  BY <1>1, <1>2, <1>3 DEF Nodes
<1>5. /\ bNodes' \in Seq(Nodes) /\ Len(bNodes') = bI
      /\ \A i \in 1..(bI - 1) : bNodes'[i] = bNodes[i]
      /\ bNodes'[bI] = nd
  BY <1>1, <1>2, <1>4, AppendProperties
<1>6. NodesOK'
  <2> SUFFICES ASSUME NEW n \in DOMAIN bNodes'
               PROVE  /\ bNodes'[n].dos \in {bImage.parts[bNodes'[n].part], "none"}
                      /\ bNodes'[n].fs = NoFs \/ (Good(bNodes'[n].fs) /\ bNodes'[n].fs.dos = bNodes'[n].dos)
    BY <1>1, <1>5 DEF NodesOK
  <2>1. n = bI \/ n \in 1..(bI - 1)
    BY <1>1, <1>5
  <2> QED
    BY <1>1, <1>4, <1>5, <2>1 DEF BootKept, NodesOK
<1> QED
  BY <1>1, <1>3, <1>6 DEF BootKept, AskedOK, LoadedOK, RegisteredOK, HeldOK

\* The answer is that of the command waited for.
LEMMA AnswerKeeps ==
  ASSUME BootTypeOK, BootKept, ~bLate', bImage' = bImage, FwAnswer
  PROVE  BootKept'
<1> USE WholeKept
<1>1. /\ bPc' = bPc /\ bInfo' = bInfo /\ bI' = bI /\ bF' = bF /\ bLocal' = bLocal /\ bRes' = bRes
      /\ bFound' = bFound /\ bNodes' = bNodes /\ bMem' = bMem /\ bAsked # << >>
      /\ bAsked' = Tail(bAsked)
  BY DEF FwAnswer
<1>2. AskedOK'
  <2>1. CASE bPc = "info"
    <3>1. bAsked' = << >>
      BY <1>1, <2>1, OneCommand DEF BootKept, AskedOK
    <3> QED
      BY <1>1, <2>1, <3>1 DEF AskedOK
  <2>2. CASE bPc = "wait"
    <3>1. bAsked = <<FsCmd>> /\ Head(bAsked) = FsCmd /\ bAsked' = << >> /\ FsCmd' = FsCmd
      BY <1>1, <2>2, OneCommand DEF BootKept, AskedOK, FsCmd
    <3> QED
      BY <1>1, <2>2, <3>1 DEF FwAnswer, AskedOK
  <2>3. CASE bPc \notin {"info", "wait"}
    BY <1>1, <2>3 DEF BootKept, AskedOK
  <2> QED
    BY <2>1, <2>2, <2>3
<1> QED
  BY <1>1, <1>2 DEF BootKept, LoadedOK, RegisteredOK, NodesOK, HeldOK, Registered

LEMMA BootStep ==
  ASSUME BootInv, [BootNext]_bootVars
  PROVE  BootInv'
<1>1. BootTypeOK' /\ bImage' = bImage /\ (~bLate' => ~bLate)
  BY BootTypeStep DEF BootInv
<1> SUFFICES ASSUME ~bLate'
             PROVE  BootKept'
  BY <1>1 DEF BootInv
<1>2. BootTypeOK /\ BootKept
  BY <1>1 DEF BootInv
<1>3. CASE UNCHANGED bootVars
  BY <1>2, <1>3, WholeKept
  DEF bootVars, BootKept, AskedOK, FsCmd, LoadedOK, Registered, RegisteredOK, NodesOK, HeldOK
<1> QED
  BY <1>1, <1>2, <1>3, InfoKeeps, PartitionKeeps, SearchKeeps, ChunkKeeps, LoadedKeeps, NodeKeeps,
     AnswerKeeps
  DEF BootNext

LEMMA BootStart == BootInit => BootInv
<1> SUFFICES ASSUME BootInit PROVE BootInv
  OBVIOUS
<1>1. bImage.parts \in Seq(DosTypes) /\ bImage.fs \in Seq(Fs)
  <2>1. \A S, n : n \in Nat => [1..n -> S] \subseteq Seq(S)
    OBVIOUS
  <2>2. 0..MaxParts \subseteq Nat /\ 0..MaxFs \subseteq Nat
    OBVIOUS
  <2> QED
    BY <2>1, <2>2 DEF BootInit, Infos
<1>2. /\ bRes \in Seq(Entries)
      /\ \A k \in DOMAIN bRes : k = 1 /\ bRes[k].code = Rom
  <2>1. PICK ds \in {{}} \cup {{d} : d \in DosTypes} :
          bRes = IF ds = {} THEN << >> ELSE <<[dos |-> CHOOSE d \in ds : TRUE, code |-> Rom]>>
    BY DEF BootInit
  <2>2. CASE ds = {}
    BY <2>1, <2>2, EmptySeq
  <2>3. CASE ds # {}
    <3> DEFINE e == [dos |-> CHOOSE d \in ds : TRUE, code |-> Rom]
    <3>1. (CHOOSE d \in ds : TRUE) \in DosTypes
      BY <2>3
    <3>2. e \in Entries /\ e.code = Rom
      BY <3>1 DEF Entries
    <3> HIDE DEF e
    <3>3. bRes = <<e>>
      BY <2>1, <2>3 DEF e
    <3> QED
      BY <3>2, <3>3
  <2> QED
    BY <2>2, <2>3
<1>3. /\ bPc = "start" /\ bI = 1 /\ bF = 1 /\ bNodes = << >> /\ bMem = {} /\ bStatus = "ok"
      /\ bAsked = << >> /\ bLate = FALSE
  BY DEF BootInit
<1>4. bNodes \in Seq(Nodes) /\ Len(bNodes) = 0
  BY <1>3, EmptySeq
<1>5. RegisteredOK
  BY <1>2, <1>3 DEF RegisteredOK, Good
<1>6. NodesOK
  BY <1>3, <1>4 DEF NodesOK
<1>7. BootTypeOK
  <2>1. /\ bPc \in {"start", "info", "part", "search", "load", "wait", "node", "done"}
        /\ bStatus \in {"busy", "ok", "error"} /\ bMem \subseteq {"info", "local", "code"}
    BY <1>3
  <2>2. bI \in Nat \ {0} /\ bF \in Nat \ {0}
    BY <1>3
  <2>3. bLate \in BOOLEAN
    BY DEF BootInit
  <2> QED
    BY <1>1, <2>1, <2>2, <2>3 DEF BootTypeOK
<1>8. AskedOK /\ LoadedOK /\ HeldOK
  BY <1>3 DEF AskedOK, LoadedOK, HeldOK
<1> QED
  BY <1>5, <1>6, <1>7, <1>8 DEF BootInv, BootKept

LEMMA BootEnough == BootInv => BootSafe
<1> SUFFICES ASSUME BootInv, ~bLate PROVE BootSafe
  BY DEF BootSafe
<1>1. BootTypeOK /\ RegisteredOK /\ NodesOK /\ HeldOK
  BY DEF BootInv, BootKept
<1>2. bPc = "done" => bMem \subseteq {"code"}
  BY <1>1 DEF BootTypeOK, HeldOK
<1>3. bPc = "done" /\ bNodes # << >> => Len(bNodes) = Len(bImage.parts)
  <2>1. bNodes # << >> => Len(bNodes) # 0
    BY <1>1, EmptySeq DEF NodesOK
  <2> QED
    BY <1>1, <2>1 DEF NodesOK
<1> QED
  BY <1>1, <1>2, <1>3 DEF BootSafe, RegisteredOK, NodesOK

\* Whatever the card's firmware refuses, delays or answers late, a transfer of
\* zzsd.device that succeeds moved its own blocks and stayed in its partition.
THEOREM DiskIsSafe == DiskSpec => []DiskSafe
<1>1. DiskInv /\ [DiskNext]_diskVars => DiskInv'
  BY DiskStep
<1> QED
  BY <1>1, DiskStart, DiskEnough, PTL DEF DiskSpec

\* The whole of sd-boot: the transfers as above, and at boot every partition gets
\* a whole file system of its own type, registered once.
THEOREM SdIsSafe == DiskSpec /\ BootSpec => []SdSafe
<1>1. BootInv /\ [BootNext]_bootVars => BootInv'
  BY BootStep
<1>2. BootSpec => []BootSafe
  BY <1>1, BootStart, BootEnough, PTL DEF BootSpec
<1>3. DiskSafe /\ BootSafe => SdSafe
  BY DEF SdSafe
<1> QED
  BY <1>2, <1>3, DiskIsSafe, PTL

-----------------------------------------------------------------------------
(* The settings and the audio of ZZTop.                                    *)

TopTypes ==
  /\ tOn \in BOOLEAN /\ tGuard \in BOOLEAN /\ tRunning \in BOOLEAN /\ tDirtyA \in BOOLEAN
  /\ tPending \in BOOLEAN /\ tNewer \in BOOLEAN /\ tUnconf \in BOOLEAN
  /\ tAstray \in BOOLEAN /\ tKept \in BOOLEAN /\ tCal \in Vals \cup {Unset}
  /\ DOMAIN tFile = Keys /\ DOMAIN tBoot = Keys /\ DOMAIN tBefore = Keys /\ DOMAIN tWant = Keys

\* Where ZZTop is tells what it owes.
TopOff == ~tOn => tPc = "idle" /\ ~tGuard /\ ~tRunning

TopPcs ==
  /\ tPc \in {"save", "revert"} => ~tGuard
  /\ tPc = "repair" => tGuard /\ ~tRunning
  /\ tPc = "poll" => tRunning

TopRunning == tRunning => tPending /\ tGuard

\* A repair waits until the firmware is done with the file.
TopWaits == tGuard /\ ~tRunning => tFwSave # "queued"

TopControl == TopOff /\ TopPcs /\ TopRunning /\ TopWaits

\* A calibration awaited is an edit the save in hand does not hold.
TopCal == tCal # Unset => tDirtyA /\ (tPending => tNewer)

TopClean == tOn /\ ~tDirtyA => tModel = tAnchor

TopPlays == tOn /\ tCal = Unset /\ ~tAstray => tFwA = tModel

TopHeld == tOn /\ ~tRunning /\ ~tAstray => tKept \/ tFileA = tAnchor

\* What makes audio_save_poll right to call a save done.
TopWritten == tRunning /\ tFwSave = "ok" /\ ~tUnconf /\ ~tNewer /\ ~tAstray => tFileA = tFwA

TopAudio == TopCal /\ TopClean /\ TopPlays /\ TopHeld /\ TopWritten

\* Inside a guard the wanted keys are in the snapshot, outside it in the file.
TopWanted == \A k \in Keys : tWant[k] \in {Unset, IF tGuard THEN tBefore[k] ELSE tFile[k]}

TopInv == TopTypes /\ TopControl /\ TopAudio /\ TopWanted

LEMMA TopStart == TopInit => TopInv
<1> SUFFICES ASSUME TopInit PROVE TopInv
  OBVIOUS
<1> USE DEF TopInit, Defaults
<1>1. TopTypes
  BY DEF TopTypes
<1>2. TopControl
  BY DEF TopControl, TopOff, TopPcs, TopRunning, TopWaits
<1>3. TopAudio
  BY DEF TopAudio, TopCal, TopClean, TopPlays, TopHeld, TopWritten
<1>4. TopWanted
  BY DEF TopWanted
<1> QED
  BY <1>1, <1>2, <1>3, <1>4 DEF TopInv

LEMMA TopEnough == TopInv => SettingsSafe
<1> SUFFICES ASSUME TopInv PROVE SettingsSafe
  OBVIOUS
<1>1. Settled => \A k \in Keys : tWant[k] \in {Unset, tFile[k]}
  BY DEF TopInv, TopWanted, Settled
<1>2. ASSUME tOn, Settled, ~tDirtyA, tCal = Unset, ~tAstray
      PROVE tFwA = tModel /\ (tKept \/ tFileA = tModel)
  <2>1. ~tRunning
    BY <1>2 DEF TopInv, TopControl, TopRunning, Settled
  <2> QED
    BY <1>2, <2>1 DEF TopInv, TopAudio, TopClean, TopPlays, TopHeld
<1> QED
  BY <1>1, <1>2 DEF SettingsSafe

-----------------------------------------------------------------------------
(* The steps of the editor.                                                *)

LEMMA StartKept ==
  ASSUME TopInv, Start
  PROVE  TopInv'
<1> USE DEF TopInv, TopControl, TopAudio, Start, settings_load, audio_clear_edits, Defaults,
                                         fileVars, fwVars, guardVars
<1>1. TopTypes'
  BY DEF TopTypes, Vals
<1>2. TopControl'
  BY DEF TopOff, TopPcs, TopRunning, TopWaits
<1>3. TopAudio'
  <2>1. tCal' = Unset /\ tAnchor' = tModel' /\ tFwA' = tFwA /\ tFileA' = tFileA /\ ~tRunning'
    BY DEF TopOff
  <2>2. ~tAstray' => tModel' = tFwA
    OBVIOUS
  <2>3. ~tKept' => tFileA = tFwA
    OBVIOUS
  <2> QED
    BY <2>1, <2>2, <2>3 DEF TopCal, TopClean, TopPlays, TopHeld, TopWritten
<1>4. TopWanted'
  BY DEF TopWanted, TopOff
<1> QED
  BY <1>1, <1>2, <1>3, <1>4

LEMMA SetKeyKept ==
  ASSUME TopInv, SetKey
  PROVE  TopInv'
<1> USE DEF TopInv, TopControl, TopAudio, SetKey, fileVars, fwVars, guardVars, audioVars,
                                         ghostVars
<1>1. TopTypes'
  BY DEF TopTypes
<1>2. TopControl'
  BY DEF TopOff, TopPcs, TopRunning, TopWaits
<1>3. TopAudio'
  BY DEF TopCal, TopClean, TopPlays, TopHeld, TopWritten
<1>4. TopWanted'
  BY DEF TopWanted
<1> QED
  BY <1>1, <1>2, <1>3, <1>4

LEMMA SetAudioKept ==
  ASSUME TopInv, SetAudio
  PROVE  TopInv'
<1> USE DEF TopInv, TopControl, TopAudio, SetAudio, fileVars, cfgVars, guardVars
<1>1. TopTypes'
  BY DEF TopTypes, AudioAccepted, RollbackRecorded, RollbackIgnored, audio_mark_dirty
<1>2. TopControl'
  BY DEF TopOff, TopPcs, TopRunning, TopWaits
<1>3. TopAudio'
  <2>1. PICK x \in Vals :
          AudioAccepted(x) \/ (tAlone /\ (RollbackRecorded(x) \/ RollbackIgnored(x)))
    OBVIOUS
  <2>2. CASE AudioAccepted(x)
    BY <2>2 DEF AudioAccepted, audio_mark_dirty, TopCal, TopClean, TopPlays, TopHeld, TopWritten, TopRunning
  <2>3. CASE RollbackRecorded(x)
    BY <2>3 DEF RollbackRecorded, audio_mark_dirty, TopTypes, TopCal, TopClean, TopPlays, TopHeld, TopWritten, TopRunning
  <2>4. CASE RollbackIgnored(x)
    BY <2>4 DEF RollbackIgnored, TopTypes, TopCal, TopClean, TopPlays, TopHeld, TopWritten, TopOff
  <2> QED
    BY <2>1, <2>2, <2>3, <2>4
<1>4. TopWanted'
  BY DEF TopWanted
<1> QED
  BY <1>1, <1>2, <1>3, <1>4

LEMMA SetCalibrationKept ==
  ASSUME TopInv, SetCalibration
  PROVE  TopInv'
<1> USE DEF TopInv, TopControl, TopAudio, SetCalibration, audio_mark_dirty, fileVars, fwVars,
                                         guardVars, ghostVars
<1>1. TopTypes'
  BY DEF TopTypes, Vals
<1>2. TopControl'
  BY DEF TopOff, TopPcs, TopRunning, TopWaits
<1>3. TopAudio'
  BY DEF TopCal, TopClean, TopPlays, TopHeld, TopWritten, TopRunning
<1>4. TopWanted'
  BY DEF TopWanted
<1> QED
  BY <1>1, <1>2, <1>3, <1>4

LEMMA CalibratesKept ==
  ASSUME TopInv, Calibrates
  PROVE  TopInv'
<1> USE DEF TopInv, TopControl, TopAudio, Calibrates, fileVars, guardVars, audioVars, ghostVars
<1>1. TopTypes'
  BY DEF TopTypes
<1>2. TopControl'
  BY DEF TopOff, TopPcs, TopRunning, TopWaits
<1>3. TopAudio'
  BY DEF TopCal, TopClean, TopPlays, TopHeld, TopWritten, TopRunning
<1>4. TopWanted'
  BY DEF TopWanted
<1> QED
  BY <1>1, <1>2, <1>3, <1>4

LEMMA TickKept ==
  ASSUME TopInv, audio_tick
  PROVE  TopInv'
<1> USE DEF TopInv, TopControl, TopAudio, audio_tick, fileVars, fwVars, guardVars, ghostVars
<1>1. TopTypes'
  BY DEF TopTypes
<1>2. TopControl'
  BY DEF TopOff, TopPcs, TopRunning, TopWaits
<1>3. TopAudio'
  BY DEF TopCal, TopClean, TopPlays, TopHeld, TopWritten
<1>4. TopWanted'
  BY DEF TopWanted
<1> QED
  BY <1>1, <1>2, <1>3, <1>4

LEMMA QuitKept ==
  ASSUME TopInv, Quit
  PROVE  TopInv'
<1> USE DEF TopInv, TopControl, TopAudio, Quit, audio_clear_edits, Defaults, fileVars, fwVars
<1>1. TopTypes'
  BY DEF TopTypes
<1>2. TopControl'
  BY DEF TopOff, TopPcs, TopRunning, TopWaits
<1>3. TopAudio'
  BY DEF TopCal, TopClean, TopPlays, TopHeld, TopWritten
<1>4. TopWanted'
  BY DEF TopWanted
<1> QED
  BY <1>1, <1>2, <1>3, <1>4

-----------------------------------------------------------------------------
(* The steps of a save and of a revert.                                    *)

LEMMA SaveStartsKept ==
  ASSUME TopInv, NEW intent, tOn, tPc = "idle", save_audio_starts(intent)
  PROVE  TopInv'
<1> USE DEF TopInv, TopControl, TopAudio, save_audio_starts, settings_guard_begin, fileVars,
            cfgVars, ghostVars
<1>1. TopTypes'
  BY DEF TopTypes
<1>2. TopControl'
  BY DEF TopOff, TopPcs, TopRunning, TopWaits
<1>3. TopAudio'
  BY DEF TopTypes, TopRunning, TopCal, TopClean, TopPlays, TopHeld, TopWritten
<1>4. TopWanted'
  BY DEF TopTypes, TopWanted
<1> QED
  BY <1>1, <1>2, <1>3, <1>4

LEMMA SaveResumesKept ==
  ASSUME TopInv, NEW intent, tOn, save_audio_resumes(intent)
  PROVE  TopInv'
<1> USE DEF TopInv, TopControl, TopAudio, save_audio_resumes, fileVars, fwVars, cfgVars,
            guardVars, audioVars, ghostVars
<1>1. TopTypes'
  BY DEF TopTypes
<1>2. TopControl'
  BY DEF TopOff, TopPcs, TopRunning, TopWaits
<1>3. TopAudio'
  BY DEF TopCal, TopClean, TopPlays, TopHeld, TopWritten
<1>4. TopWanted'
  BY DEF TopWanted
<1> QED
  BY <1>1, <1>2, <1>3, <1>4

LEMMA SaveKept ==
  ASSUME TopInv, app_save
  PROVE  TopInv'
<1>1. CASE save_audio_starts("save")
  BY <1>1, SaveStartsKept DEF app_save
<1>2. CASE save_audio_resumes("save")
  BY <1>2, SaveResumesKept DEF app_save
<1>3. CASE /\ ~AudioOwed /\ tPc' = "save"
           /\ UNCHANGED <<fileVars, fwVars, tOn, tIntent, cfgVars, guardVars, audioVars, ghostVars>>
  <2> USE <1>3 DEF TopInv, TopControl, TopAudio, AudioOwed, fileVars, fwVars, cfgVars, guardVars,
                   audioVars, ghostVars
  <2>1. TopTypes'
    BY DEF TopTypes
  <2>2. TopControl'
    BY DEF app_save, TopOff, TopPcs, TopRunning, TopWaits
  <2>3. TopAudio'
    BY DEF TopCal, TopClean, TopPlays, TopHeld, TopWritten
  <2>4. TopWanted'
    BY DEF TopWanted
  <2> QED
    BY <2>1, <2>2, <2>3, <2>4
<1> QED
  BY <1>1, <1>2, <1>3 DEF app_save

LEMMA RevertKept ==
  ASSUME TopInv, app_revert
  PROVE  TopInv'
<1>1. CASE save_audio_resumes("revert")
  BY <1>1, SaveResumesKept DEF app_revert
<1>2. CASE /\ ~tRunning /\ ~tGuard /\ tPc' = "revert"
           /\ UNCHANGED <<fileVars, fwVars, tOn, tIntent, cfgVars, guardVars, audioVars, ghostVars>>
  <2> USE <1>2 DEF TopInv, TopControl, TopAudio, fileVars, fwVars, cfgVars, guardVars, audioVars,
                   ghostVars
  <2>1. TopTypes'
    BY DEF TopTypes
  <2>2. TopControl'
    BY DEF app_revert, TopOff, TopPcs, TopRunning, TopWaits
  <2>3. TopAudio'
    BY DEF TopCal, TopClean, TopPlays, TopHeld, TopWritten
  <2>4. TopWanted'
    BY DEF TopWanted
  <2> QED
    BY <2>1, <2>2, <2>3, <2>4
<1> QED
  BY <1>1, <1>2 DEF app_revert

\* The save counts as done only when the firmware wrote what the editor shows:
\* it was confirmed, nothing was edited since, so no calibration is awaited.
LEMMA SettlesKept ==
  ASSUME TopInv, tPc = "poll", tPending, tFwSave # "queued", Settles,
         UNCHANGED <<fileVars, fwVars, tOn, cfgVars, tBefore, tGuard, tModel, tCal, tWant, tAstray>>
  PROVE  TopInv'
<1> DEFINE done == ~tUnconf /\ tFwSave = "ok" /\ ~tNewer
<1> USE DEF TopInv, TopControl, TopAudio, fileVars, fwVars, cfgVars
<1>1. tRunning /\ tGuard /\ tOn
  BY DEF TopPcs, TopRunning, TopOff
<1>2. TopTypes'
  BY DEF TopTypes, Settles
<1>3. TopControl'
  BY <1>1 DEF Settles, TopOff, TopPcs, TopRunning, TopWaits
<1>4. TopAudio'
  <2>1. CASE done
    <3>1. tCal = Unset /\ tAnchor' = tModel /\ ~tRunning'
      BY <2>1 DEF TopCal, Settles
    <3>2. ~tAstray => tFileA = tModel
      BY <1>1, <2>1, <3>1 DEF TopWritten, TopPlays
    <3> QED
      BY <3>1, <3>2 DEF TopCal, TopClean, TopPlays, TopHeld, TopWritten
  <2>2. CASE ~done
    <3>1. /\ tAnchor' = tAnchor /\ tDirtyA' = tDirtyA /\ ~tRunning' /\ ~tPending'
          /\ tKept' = (tKept \/ tFileA # tAnchor)
      BY <2>2 DEF TopTypes, Settles
    <3> QED
      BY <3>1 DEF TopCal, TopClean, TopPlays, TopHeld, TopWritten
  <2> QED
    BY <2>1, <2>2
<1>5. TopWanted'
  BY DEF TopWanted
<1> QED
  BY <1>2, <1>3, <1>4, <1>5

LEMMA PollKept ==
  ASSUME TopInv, audio_save_poll
  PROVE  TopInv'
<1> USE DEF TopInv, TopControl, TopAudio, audio_save_poll
<1>1. CASE tPc' = "idle" /\ UNCHANGED <<guardVars, audioVars, tKept>>
  <2> USE <1>1 DEF fileVars, fwVars, guardVars, audioVars
  <2>1. TopTypes'
    BY DEF TopTypes
  <2>2. TopControl'
    BY DEF TopOff, TopPcs, TopRunning, TopWaits
  <2>3. TopAudio'
    BY DEF TopCal, TopClean, TopPlays, TopHeld, TopWritten
  <2>4. TopWanted'
    BY DEF TopWanted
  <2> QED
    BY <2>1, <2>2, <2>3, <2>4
<1>2. CASE /\ tPending /\ tFwSave # "queued" /\ Settles
           /\ UNCHANGED <<tBefore, tGuard, tModel, tCal>>
  BY <1>2, SettlesKept
<1> QED
  BY <1>1, <1>2

\* The repair puts the wanted keys, which the snapshot holds, into the file.
LEMMA RepairKept ==
  ASSUME TopInv, settings_guard_end
  PROVE  TopInv'
<1> USE DEF TopInv, TopControl, TopAudio, settings_guard_end, Repaired, Defaults, fileVars, fwVars,
            audioVars, ghostVars
<1>1. tOn /\ tGuard /\ ~tRunning
  BY DEF TopPcs, TopOff
<1>2. CASE tGuard' = FALSE /\ tBefore' = Defaults /\ Repaired
  <2>1. TopTypes'
    BY <1>2 DEF TopTypes
  <2>2. TopControl'
    BY <1>1, <1>2 DEF TopOff, TopPcs, TopRunning, TopWaits
  <2>3. TopAudio'
    BY <1>2 DEF TopCal, TopClean, TopPlays, TopHeld, TopWritten
  <2>4. TopWanted'
    BY <1>1, <1>2 DEF TopWanted
  <2> QED
    BY <2>1, <2>2, <2>3, <2>4
<1>3. CASE UNCHANGED <<fileVars, tGuard, tBefore>> /\ tPc' = "idle"
  <2>1. TopTypes'
    BY <1>3 DEF TopTypes
  <2>2. TopControl'
    BY <1>3 DEF TopOff, TopPcs, TopRunning, TopWaits
  <2>3. TopAudio'
    BY <1>3 DEF TopCal, TopClean, TopPlays, TopHeld, TopWritten
  <2>4. TopWanted'
    BY <1>3 DEF TopWanted
  <2> QED
    BY <2>1, <2>2, <2>3, <2>4
<1> QED
  BY <1>2, <1>3

LEMMA WriteKept ==
  ASSUME TopInv, settings_save
  PROVE  TopInv'
<1> USE DEF TopInv, TopControl, TopAudio, settings_save, Merged, fwVars, guardVars, audioVars
<1>1. TopTypes'
  BY DEF TopTypes
<1>2. TopControl'
  BY DEF TopOff, TopPcs, TopRunning, TopWaits
<1>3. TopAudio'
  BY DEF TopCal, TopClean, TopPlays, TopHeld, TopWritten
<1>4. TopWanted'
  BY DEF TopPcs, TopWanted
<1> QED
  BY <1>1, <1>2, <1>3, <1>4

LEMMA BackKept ==
  ASSUME TopInv, audio_revert
  PROVE  TopInv'
<1> USE DEF TopInv, TopControl, TopAudio, audio_revert, audio_clear_edits, fileVars, guardVars,
                                         audioVars, ghostVars
<1>1. TopTypes'
  BY DEF TopTypes
<1>2. TopControl'
  BY DEF TopOff, TopPcs, TopRunning, TopWaits
<1>3. TopAudio'
  BY DEF TopPcs, TopRunning, TopCal, TopClean, TopPlays, TopHeld, TopWritten
<1>4. TopWanted'
  BY DEF TopWanted
<1> QED
  BY <1>1, <1>2, <1>3, <1>4

-----------------------------------------------------------------------------
(* The steps of the firmware and of other programs.                        *)

LEMMA FirmwareSavesKept ==
  ASSUME TopInv, FirmwareSaves
  PROVE  TopInv'
<1> USE DEF TopInv, TopControl, TopAudio, FirmwareSaves, fileVars, guardVars, audioVars
<1>1. TopTypes'
  BY DEF TopTypes
<1>2. TopControl'
  BY DEF TopOff, TopPcs, TopRunning, TopWaits
<1>3. TopAudio'
  BY DEF TopTypes, TopWaits, TopCal, TopClean, TopPlays, TopHeld, TopWritten
<1>4. TopWanted'
  BY DEF TopWanted
<1> QED
  BY <1>1, <1>2, <1>3, <1>4

LEMMA OtherSavesKept ==
  ASSUME TopInv, OtherSaves
  PROVE  TopInv'
<1> USE DEF TopInv, TopControl, TopAudio, OtherSaves, fwVars, guardVars, audioVars
<1>1. TopTypes'
  BY DEF TopTypes
<1>2. TopControl'
  BY DEF TopOff, TopPcs, TopRunning, TopWaits
<1>3. TopAudio'
  BY DEF TopCal, TopClean, TopPlays, TopHeld, TopWritten
<1>4. TopWanted'
  BY DEF TopTypes, TopWanted
<1> QED
  BY <1>1, <1>2, <1>3, <1>4

LEMMA PowerCycleKept ==
  ASSUME TopInv, PowerCycle
  PROVE  TopInv'
<1> USE DEF TopInv, TopControl, TopAudio, PowerCycle, fileVars, guardVars, audioVars
<1>1. TopTypes'
  BY DEF TopTypes
<1>2. TopControl'
  BY DEF TopOff, TopPcs, TopRunning, TopWaits
<1>3. TopAudio'
  BY DEF TopOff, TopCal, TopClean, TopPlays, TopHeld, TopWritten
<1>4. TopWanted'
  BY DEF TopOff, TopWanted
<1> QED
  BY <1>1, <1>2, <1>3, <1>4

LEMMA TopUnchanged == TopInv /\ UNCHANGED topVars => TopInv'
<1> SUFFICES ASSUME TopInv, UNCHANGED topVars PROVE TopInv'
  OBVIOUS
<1> USE DEF TopInv, topVars, fileVars, fwVars, cfgVars, guardVars, audioVars, ghostVars
<1>1. TopTypes'
  BY DEF TopTypes
<1>2. TopControl'
  BY DEF TopControl, TopOff, TopPcs, TopRunning, TopWaits
<1>3. TopAudio'
  BY DEF TopAudio, TopCal, TopClean, TopPlays, TopHeld, TopWritten
<1>4. TopWanted'
  BY DEF TopWanted
<1> QED
  BY <1>1, <1>2, <1>3, <1>4

\* Whatever ZZTop saves, reverts or leaves unfinished, and whatever the firmware's
\* own save, other programs, failed writes and a power cycle do between its steps,
\* the file keeps what was last saved, and the card plays what the editor shows.
THEOREM SettingsAreSafe == TopSpec => []SettingsSafe
<1>1. TopInv /\ [TopNext]_topVars => TopInv'
  <2> SUFFICES ASSUME TopInv, TopStep PROVE TopInv'
    BY TopUnchanged DEF TopNext
  <2> QED
    BY StartKept, SetKeyKept, SetAudioKept, SetCalibrationKept, CalibratesKept, TickKept, QuitKept,
       SaveKept, RevertKept, PollKept, RepairKept, WriteKept, BackKept, FirmwareSavesKept,
       OtherSavesKept, PowerCycleKept
    DEF TopStep
<1> QED
  BY <1>1, TopStart, TopEnough, PTL DEF TopSpec

-----------------------------------------------------------------------------
(* The display of a program.                                               *)

DisplayTypes ==
  /\ dGen \in Nat /\ dAck \in Nat /\ dAcked \in Nat /\ dPending \in Nat /\ dSafe \in Nat
  /\ dChanges \in Nat /\ dMsgs \in Nat /\ dSubmit \in Nat /\ dVisible \in Nat

\* An answer is due for every change, and only with two buffers, all of them open.
DisplayDue ==
  /\ dSafe = dChanges + dMsgs
  /\ dMode # "two" => dSafe = 0 /\ dPending = 0
  /\ dMode = "two" => "port" \in dRes

\* While the display is shown there is one change at most, that of the pending flip.
DisplayOne ==
  /\ dPlace = "shown" => dSafe = IF dPending = 0 THEN 0 ELSE 1
  /\ dPlace = "restored" => dPending = 0
  /\ dPlace = "shown" /\ dPending # 0 /\ dMsgs > 0 => dPending <= dVisible

\* Flips are acknowledged in order, none before it was asked for.
DisplayOrder ==
  /\ dAck <= dGen /\ dAcked <= dGen /\ dPending <= dGen /\ dSubmit <= dGen
  /\ dPending # 0 => dAck <= dPending
  /\ dPending = 0 \/ dSubmit = 0
  /\ dAck <= dVisible

DisplayOpen ==
  /\ dPlace \in {"none", "closed"} => dRes = {}
  /\ dPlace \in {"none", "buffers", "fall back"} => dMode = "none"
  /\ dPlace = "window" => dSafe = 0 /\ dPending = 0

DisplayInv == DisplayTypes /\ DisplayDue /\ DisplayOne /\ DisplayOrder /\ DisplayOpen

LEMMA OpenScreenKept ==
  ASSUME DisplayInv, OpenScreen
  PROVE  DisplayInv'
<1> USE DEF DisplayInv, OpenScreen, flipVars
<1>1. DisplayTypes'
  BY DEF DisplayTypes
<1>2. DisplayDue'
  BY DEF DisplayDue, DisplayOpen
<1>3. DisplayOne'
  BY DEF DisplayOne
<1>4. DisplayOrder'
  BY DEF DisplayOrder
<1>5. DisplayOpen'
  BY DEF DisplayOpen
<1> QED
  BY <1>1, <1>2, <1>3, <1>4, <1>5

LEMMA DoubleBufferKept ==
  ASSUME DisplayInv, DoubleBuffer
  PROVE  DisplayInv'
<1> USE DEF DisplayInv, DoubleBuffer, flipVars, Buffers
<1>1. DisplayTypes'
  BY DEF DisplayTypes
<1>2. DisplayDue'
  BY DEF DisplayTypes, DisplayDue, DisplayOpen
<1>3. DisplayOne'
  BY DEF DisplayOne
<1>4. DisplayOrder'
  BY DEF DisplayOrder
<1>5. DisplayOpen'
  BY DEF DisplayDue, DisplayOpen
<1> QED
  BY <1>1, <1>2, <1>3, <1>4, <1>5

LEMMA FallBackKept ==
  ASSUME DisplayInv, FallBack
  PROVE  DisplayInv'
<1> USE DEF DisplayInv, FallBack, flipVars, Buffers
<1>1. DisplayTypes'
  BY DEF DisplayTypes
<1>2. DisplayDue'
  BY DEF DisplayTypes, DisplayDue, DisplayOpen
<1>3. DisplayOne'
  BY DEF DisplayOne
<1>4. DisplayOrder'
  BY DEF DisplayOrder
<1>5. DisplayOpen'
  BY DEF DisplayDue, DisplayOpen
<1> QED
  BY <1>1, <1>2, <1>3, <1>4, <1>5

LEMMA BindDisplayKept ==
  ASSUME DisplayInv, BindDisplay
  PROVE  DisplayInv'
<1> USE DEF DisplayInv, BindDisplay, flipVars
<1>1. DisplayTypes'
  BY DEF DisplayTypes
<1>2. DisplayDue'
  BY DEF DisplayDue
<1>3. DisplayOne'
  BY DEF DisplayOne, DisplayOpen
<1>4. DisplayOrder'
  BY DEF DisplayOrder
<1>5. DisplayOpen'
  BY DEF DisplayTypes, DisplayDue, DisplayOne, DisplayOrder, DisplayOpen
<1> QED
  BY <1>1, <1>2, <1>3, <1>4, <1>5

LEMMA FlipKept ==
  ASSUME DisplayInv, Flip
  PROVE  DisplayInv'
<1> USE DEF DisplayInv, Flip, flipVars
<1>1. DisplayTypes'
  BY DEF DisplayTypes
<1>2. DisplayDue'
  BY DEF DisplayDue
<1>3. DisplayOne'
  BY DEF DisplayOne
<1>4. DisplayOrder'
  BY DEF DisplayTypes, DisplayOrder
<1>5. DisplayOpen'
  BY DEF DisplayOpen
<1> QED
  BY <1>1, <1>2, <1>3, <1>4, <1>5

LEMMA IntuitionKept ==
  ASSUME DisplayInv, Intuition
  PROVE  DisplayInv'
<1> USE DEF DisplayInv, Intuition
<1>1. /\ dChanges \in Nat /\ dMsgs \in Nat /\ dChanges > 0 /\ dSafe = dChanges + dMsgs
      /\ dChanges' = dChanges - 1 /\ dMsgs' = dMsgs + 1 /\ dSafe' = dSafe
  BY DEF DisplayTypes, DisplayDue
<1>2. dChanges' \in Nat /\ dMsgs' \in Nat /\ dSafe' = dChanges' + dMsgs'
  BY <1>1
<1>3. DisplayTypes'
  BY <1>2 DEF DisplayTypes
<1>4. DisplayDue'
  BY <1>2 DEF DisplayDue
<1>5. DisplayOne'
  BY DEF DisplayTypes, DisplayOne
<1>6. DisplayOrder'
  BY DEF DisplayTypes, DisplayOrder
<1>7. DisplayOpen'
  BY DEF DisplayOpen
<1> QED
  BY <1>3, <1>4, <1>5, <1>6, <1>7

LEMMA AckSafeKept ==
  ASSUME DisplayInv, AckSafe
  PROVE  DisplayInv'
<1> USE DEF DisplayInv, AckSafe, ackRest
<1>1. DisplayTypes'
  BY DEF DisplayTypes, DisplayDue, DisplayOne, DisplayOrder, DisplayOpen
<1>2. DisplayDue'
  BY DEF DisplayTypes, DisplayDue
<1>3. DisplayOne'
  BY DEF DisplayOne
<1>4. DisplayOrder'
  BY DEF DisplayOne, DisplayOrder
<1>5. DisplayOpen'
  BY DEF DisplayOpen
<1> QED
  BY <1>1, <1>2, <1>3, <1>4, <1>5

LEMMA CardLatchesKept ==
  ASSUME DisplayInv, CardLatches
  PROVE  DisplayInv'
<1> USE DEF DisplayInv, CardLatches, ackRest
<1>1. DisplayTypes'
  BY DEF DisplayTypes
<1>2. DisplayDue'
  BY DEF DisplayDue
<1>3. DisplayOne'
  BY DEF DisplayOne, DisplayOrder
<1>4. DisplayOrder'
  <2>1. /\ dSubmit \in Nat /\ dSubmit <= dGen /\ dPending = 0
        /\ dAck' = dSubmit /\ dVisible' = dSubmit /\ UNCHANGED <<dGen, dAcked, dPending, dSubmit>>
    BY DEF DisplayTypes, DisplayOrder
  <2>2. dAck' <= dGen' /\ dSubmit' <= dGen' /\ dAck' <= dVisible'
    BY <2>1
  <2> QED
    BY <2>1, <2>2 DEF DisplayOrder
<1>5. DisplayOpen'
  BY DEF DisplayOpen
<1> QED
  BY <1>1, <1>2, <1>3, <1>4, <1>5

LEMMA AckScanoutKept ==
  ASSUME DisplayInv, AckScanout
  PROVE  DisplayInv'
<1> USE DEF DisplayInv, AckScanout, ackRest
<1>1. DisplayTypes'
  BY DEF DisplayTypes
<1>2. DisplayDue'
  BY DEF DisplayDue
<1>3. DisplayOne'
  BY DEF DisplayOne
<1>4. DisplayOrder'
  BY DEF DisplayTypes, DisplayOrder
<1>5. DisplayOpen'
  BY DEF DisplayOpen
<1> QED
  BY <1>1, <1>2, <1>3, <1>4, <1>5

LEMMA ShowBufferKept ==
  ASSUME DisplayInv, ShowBuffer
  PROVE  DisplayInv'
<1> USE DEF DisplayInv, ShowBuffer, ackRest, Waiting, ChangeStarted, Intuition
<1>1. DisplayTypes'
  BY DEF DisplayTypes
<1>2. DisplayDue'
  BY DEF DisplayTypes, DisplayDue
<1>3. DisplayOne'
  BY DEF DisplayTypes, DisplayDue, DisplayOne, DisplayOrder
<1>4. DisplayOrder'
  BY DEF DisplayTypes, DisplayOrder
<1>5. DisplayOpen'
  BY DEF DisplayOpen
<1> QED
  BY <1>1, <1>2, <1>3, <1>4, <1>5

LEMMA ShowPageKept ==
  ASSUME DisplayInv, ShowPage
  PROVE  DisplayInv'
<1> USE DEF DisplayInv, ShowPage, ackRest, Waiting, Acknowledge
<1>1. DisplayTypes'
  BY DEF DisplayTypes
<1>2. DisplayDue'
  BY DEF DisplayDue
<1>3. DisplayOne'
  BY DEF DisplayTypes, DisplayDue, DisplayOne, DisplayOrder, DisplayOpen
<1>4. DisplayOrder'
  BY DEF DisplayTypes, DisplayOrder
<1>5. DisplayOpen'
  BY DEF DisplayOpen
<1> QED
  BY <1>1, <1>2, <1>3, <1>4, <1>5

LEMMA ShowSingleKept ==
  ASSUME DisplayInv, ShowSingle
  PROVE  DisplayInv'
<1> USE DEF DisplayInv, ShowSingle, ackRest, Acknowledge
<1>1. DisplayTypes'
  BY DEF DisplayTypes
<1>2. DisplayDue'
  BY DEF DisplayDue
<1>3. DisplayOne'
  BY DEF DisplayTypes, DisplayDue, DisplayOne, DisplayOrder, DisplayOpen
<1>4. DisplayOrder'
  BY DEF DisplayTypes, DisplayDue, DisplayOrder
<1>5. DisplayOpen'
  BY DEF DisplayOpen
<1> QED
  BY <1>1, <1>2, <1>3, <1>4, <1>5

LEMMA BeginCloseKept ==
  ASSUME DisplayInv, BeginClose
  PROVE  DisplayInv'
<1> USE DEF DisplayInv, BeginClose, flipVars
<1>1. DisplayTypes'
  BY DEF DisplayTypes
<1>2. DisplayDue'
  BY DEF DisplayDue
<1>3. DisplayOne'
  BY DEF DisplayOne
<1>4. DisplayOrder'
  BY DEF DisplayOrder
<1>5. DisplayOpen'
  BY DEF DisplayOpen
<1> QED
  BY <1>1, <1>2, <1>3, <1>4, <1>5

LEMMA WaitKept ==
  ASSUME DisplayInv, Wait
  PROVE  DisplayInv'
<1> USE DEF DisplayInv, Wait
<1>1. /\ dChanges \in Nat /\ dMsgs \in Nat /\ dMsgs > 0 /\ dSafe = dChanges + dMsgs
      /\ dSafe' = dSafe - 1 /\ dMsgs' = dMsgs - 1 /\ dChanges' = dChanges
  BY DEF DisplayTypes, DisplayDue
<1>2. dSafe' \in Nat /\ dMsgs' \in Nat /\ dSafe' = dChanges' + dMsgs'
  BY <1>1
<1>3. DisplayTypes'
  BY <1>2 DEF DisplayTypes
<1>4. DisplayDue'
  BY <1>2 DEF DisplayDue
<1>5. DisplayOne'
  BY DEF DisplayOne
<1>6. DisplayOrder'
  BY DEF DisplayOrder
<1>7. DisplayOpen'
  BY DEF DisplayOpen
<1> QED
  BY <1>3, <1>4, <1>5, <1>6, <1>7

LEMMA RestoreFrontKept ==
  ASSUME DisplayInv, RestoreFront
  PROVE  DisplayInv'
<1> USE DEF DisplayInv, RestoreFront, ChangeStarted, Intuition
<1>1. DisplayTypes'
  BY DEF DisplayTypes
<1>2. DisplayDue'
  BY DEF DisplayTypes, DisplayDue
<1>3. DisplayOne'
  BY DEF DisplayOne
<1>4. DisplayOrder'
  BY DEF DisplayOrder
<1>5. DisplayOpen'
  BY DEF DisplayOpen
<1> QED
  BY <1>1, <1>2, <1>3, <1>4, <1>5

LEMMA FreeDisplayKept ==
  ASSUME DisplayInv, FreeDisplay
  PROVE  DisplayInv'
<1> USE DEF DisplayInv, FreeDisplay
<1>1. DisplayTypes'
  BY DEF DisplayTypes, DisplayDue, DisplayOne, DisplayOrder
<1>2. DisplayDue'
  BY DEF DisplayTypes, DisplayDue, DisplayOne, DisplayOrder
<1>3. DisplayOne'
  BY DEF DisplayTypes, DisplayDue, DisplayOne, DisplayOrder
<1>4. DisplayOrder'
  BY DEF DisplayTypes, DisplayDue, DisplayOne, DisplayOrder
<1>5. DisplayOpen'
  BY DEF DisplayTypes, DisplayDue, DisplayOne, DisplayOrder, DisplayOpen
<1> QED
  BY <1>1, <1>2, <1>3, <1>4, <1>5

-----------------------------------------------------------------------------
(* The launcher of programs.                                               *)

\* A program that runs no longer, or was told to stop.
Halted == {"stopping", "idle", "faulted"}

RunTypes ==
  /\ rGen \in Nat /\ rMine \in Nat /\ rPrior \in Nat /\ rOwned \in Nat
  /\ rAsked \in BOOLEAN /\ DOMAIN rFiles = FdIds
  /\ rState \in Halted \cup {"loading", "running"}
  /\ rBegin \in {"none", "queued", "unsent", "busy", "ok", "late"}

\* Places at work on a request.
Filing == {"dos", "resolve", "opened", "answer", "reply", "copy"}

\* Where the launcher is tells what became of its APP_LOAD_BEGIN.
RunPlace ==
  /\ rAt = "main" => rBegin = "none"
  /\ rBegin = "queued" => rAt = "begin"
  /\ rAt = "begin" => rBegin # "none" /\ rPrior <= rGen /\ (rBegin = "ok" => rPrior < rGen)
  /\ rAt \in {"main", "begin"} => rOwned = 0
  /\ rAt \in Filing \cup {"load", "unload", "loop", "serve", "services", "decide", "lost"} =>
       rBegin = "ok"
  /\ rAsked => rAt \notin {"main", "begin", "load", "unload"}

\* The generation the card gave is the one owned, and no later one.
RunMine ==
  /\ rMine <= rGen
  /\ rMine # 0 => rBegin \in {"ok", "late"}
  /\ rBegin = "ok" => rMine # 0
  /\ rBegin = "ok" /\ rAt = "begin" => rGen = rMine /\ rState = "loading"
  /\ rBegin = "ok" /\ rAt # "begin" => rOwned = rMine
  /\ rBegin \in {"none", "unsent", "busy"} => rOwned = 0

\* A STOP that was not answered named the own program; a program that was asked
\* to stop is stopping or has ended, or its STOP was not answered.
RunStopped ==
  /\ rBegin # "late" => \A g \in rUnheard : g = rMine /\ rMine # 0
  /\ rAt \in {"main", "begin"} => rUnheard = {}
  /\ (rAsked \/ rAt = "gone") /\ rMine # 0 /\ rGen = rMine /\ rBegin # "late" =>
       rState \in Halted \/ rMine \in rUnheard
  /\ rAt = "lost" => rMine < rGen

FileRequest == [g : Nat, n : Nat, done : BOOLEAN]

\* The request in the window is of the program that runs; the launcher is at
\* work on its own program's request, and about to write to its own program's
\* window, unless the runtime was taken over since it last found it its own.
RunTaken ==
  /\ rReq \in FileRequest /\ rTaken \in BOOLEAN /\ rCap.n \in Nat
  /\ rReq.g \in {0, rGen} /\ (rReq.done = FALSE => rReq.g = rGen)
  /\ rAt \in {"serve", "reply", "copy"} => rGen = rOwned \/ rTaken = TRUE
  /\ rAt \in Filing => rCap.g = rOwned \/ rTaken = TRUE

\* Whatever is open, or about to be, lies under the root.
RunFiles ==
  /\ FilesUnderRoot
  /\ rAt = "resolve" => UnderRoot(rWalk.cur)
  /\ rAt = "opened" /\ ~rAbs => UnderRoot(rNew)
  /\ rAt # "opened" => rNew = "none"
  /\ rAt = "gone" => \A f \in FdIds : rFiles[f] = "free"

RunInv ==
  /\ RunTypes /\ RunPlace /\ RunMine /\ RunStopped /\ RunTaken /\ RunFiles
  /\ rHarm = {}

-----------------------------------------------------------------------------
(* The card, its program and another launcher.                             *)

LEMMA NoReqTyped == NoReq \in FileRequest /\ NoReq.g = 0 /\ NoReq.done = TRUE
BY DEF NoReq, FileRequest

LEMMA NewReqTyped ==
  ASSUME NEW g \in Nat, NEW n \in Nat, NEW r, r = [g |-> g, n |-> n + 1, done |-> FALSE]
  PROVE  r \in FileRequest /\ r.g = g
BY DEF FileRequest

LEMMA CardBeginKept ==
  ASSUME RunInv, CardBegin
  PROVE  RunInv'
<1> USE DEF RunInv, CardBegin, NewGeneration, stopVars, openVars
<1>1. RunTypes'
  BY DEF RunTypes, Halted
<1>2. RunPlace'
  BY DEF RunTypes, RunPlace, Filing
<1>3. RunMine'
  BY DEF RunTypes, RunPlace, RunMine
<1>4. RunStopped'
  BY DEF RunTypes, RunPlace, RunMine, RunStopped, Halted
<1>5. RunFiles'
  BY DEF RunFiles, FilesUnderRoot
<1>6. RunTaken'
  <2>1. CASE rReq' = NoReq /\ rTaken' = TRUE
    BY <2>1, NoReqTyped DEF RunTypes, RunTaken
  <2>2. CASE UNCHANGED <<rReq, rTaken, rGen>>
    BY <2>2 DEF RunTaken, Filing
  <2> QED
    BY <2>1, <2>2
<1> QED
  BY <1>1, <1>2, <1>3, <1>4, <1>5, <1>6

LEMMA OtherLauncherKept ==
  ASSUME RunInv, OtherLauncher
  PROVE  RunInv'
<1> USE DEF RunInv, OtherLauncher, NewGeneration, claimVars, stopVars, openVars
<1>1. RunTypes'
  BY DEF RunTypes, Halted
<1>2. RunPlace'
  BY DEF RunTypes, RunPlace, Filing
<1>3. RunMine'
  BY DEF RunTypes, RunPlace, RunMine
<1>4. RunStopped'
  BY DEF RunTypes, RunMine, RunStopped, Halted
<1>5. RunFiles'
  BY DEF RunFiles, FilesUnderRoot
<1>6. RunTaken'
  <2>1. CASE rReq' = NoReq /\ rTaken' = TRUE
    BY <2>1, NoReqTyped DEF RunTypes, RunTaken
  <2>2. CASE UNCHANGED <<rReq, rTaken, rGen>>
    BY <2>2 DEF RunTaken, Filing
  <2> QED
    BY <2>1, <2>2
<1> QED
  BY <1>1, <1>2, <1>3, <1>4, <1>5, <1>6

LEMMA ProgramKept ==
  ASSUME RunInv, Program
  PROVE  RunInv'
<1> USE DEF RunInv, Program, claimVars, stopVars, openVars
<1>1. RunTypes'
  BY DEF RunTypes, Halted
<1>2. RunPlace'
  BY DEF RunPlace, Filing
<1>3. RunMine'
  BY DEF RunMine
<1>4. RunStopped'
  BY DEF RunStopped, Halted
<1>5. RunFiles'
  BY DEF RunFiles, FilesUnderRoot
<1>6. RunTaken'
  <2>1. /\ rReq \in FileRequest /\ rTaken \in BOOLEAN /\ rCap.n \in Nat
        /\ rReq.g \in {0, rGen} /\ (rReq.done = FALSE => rReq.g = rGen)
    BY DEF RunTaken
  <2>2. rReq' = rReq \/ rReq' = [g |-> rGen, n |-> rReq.n + 1, done |-> FALSE]
    OBVIOUS
  <2>3. rReq' = rReq \/ (rReq' \in FileRequest /\ rReq'.g = rGen)
    <3>1. rReq.n \in Nat /\ rGen \in Nat
      BY <2>1 DEF RunTypes, FileRequest
    <3> QED
      BY <2>2, <3>1, NewReqTyped
  <2>4. UNCHANGED <<rAt, rGen, rOwned, rTaken, rCap>>
    OBVIOUS
  <2> QED
    BY <2>1, <2>3, <2>4 DEF RunTaken
<1> QED
  BY <1>1, <1>2, <1>3, <1>4, <1>5, <1>6

LEMMA CardStopsKept ==
  ASSUME RunInv, CardStops
  PROVE  RunInv'
<1> USE DEF RunInv, CardStops, claimVars, stopVars, openVars
<1>1. PICK g \in rUnheard : TakesStop(g)
  OBVIOUS
<1>2. rHarm' = {} /\ rState' \in {rState, "stopping"}
  BY <1>1 DEF TakesStop, RunStopped
<1>3. RunTypes'
  BY <1>2 DEF RunTypes, Halted
<1>4. RunPlace' /\ RunTaken'
  BY DEF RunPlace, RunTaken, Filing
<1>5. RunMine'
  BY <1>1 DEF RunMine, RunStopped
<1>6. RunStopped'
  BY <1>2 DEF RunStopped, Halted
<1>7. RunFiles'
  BY DEF RunFiles, FilesUnderRoot
<1> QED
  BY <1>2, <1>3, <1>4, <1>5, <1>6, <1>7

-----------------------------------------------------------------------------
(* Load and claim.                                                         *)

LEMMA BeginKept ==
  ASSUME RunInv, Begin
  PROVE  RunInv'
<1> USE DEF RunInv, Begin, runtimeVars, stopVars, openVars
<1>1. RunTypes'
  BY DEF RunTypes
<1>2. RunPlace'
  BY DEF RunTypes, RunPlace, Filing
<1>3. RunMine'
  BY DEF RunPlace, RunMine
<1>4. RunStopped'
  BY DEF RunPlace, RunStopped
<1>5. RunFiles'
  BY DEF RunFiles, FilesUnderRoot
<1>6. RunTaken'
  BY DEF RunTaken, Filing
<1> QED
  BY <1>1, <1>2, <1>3, <1>4, <1>5, <1>6

LEMMA BeginTimeoutKept ==
  ASSUME RunInv, BeginTimeout
  PROVE  RunInv'
<1> USE DEF RunInv, BeginTimeout, runtimeVars, stopVars, openVars
<1>1. RunTypes'
  BY DEF RunTypes
<1>2. RunPlace'
  BY DEF RunPlace, Filing
<1>3. RunMine'
  BY DEF RunMine
<1>4. RunStopped'
  BY DEF RunStopped
<1>5. RunFiles'
  BY DEF RunFiles, FilesUnderRoot
<1>6. RunTaken'
  BY DEF RunTaken, Filing
<1> QED
  BY <1>1, <1>2, <1>3, <1>4, <1>5, <1>6

\* A begin that was answered is claimed as the generation the card gave, one that
\* was refused or not sent as none.
LEMMA ClaimRight ==
  ASSUME RunInv, rAt = "begin", rBegin # "queued"
  PROVE  /\ Claimed \in Nat
         /\ rBegin = "ok" => Claimed = rMine /\ Claimed # 0
         /\ rBegin \in {"none", "unsent", "busy"} => rMine = 0
         /\ rBegin \in {"unsent", "busy"} => Claimed = 0
<1>1. Claimed \in Nat
  BY DEF RunInv, RunTypes, Claimed
<1>2. rBegin = "ok" => Claimed = rMine /\ Claimed # 0
  BY DEF RunInv, RunTypes, RunPlace, RunMine, Claimed
<1>3. rBegin \in {"none", "unsent", "busy"} => rMine = 0
  BY DEF RunInv, RunMine
<1> QED
  BY <1>1, <1>2, <1>3 DEF Claimed

LEMMA ClaimBeginKept ==
  ASSUME RunInv, ClaimBegin
  PROVE  RunInv'
<1> USE DEF RunInv, ClaimBegin, stopVars, openVars
<1>1. /\ rOwned' \in Nat /\ (rBegin = "ok" => rOwned' = rMine /\ rOwned' # 0)
      /\ rBegin \in {"unsent", "busy"} => rOwned' = 0
  BY ClaimRight
<1>2. rBegin \in {"ok", "unsent", "busy", "late"}
  BY DEF RunTypes, RunPlace, Filing
<1>3. /\ rHarm' = {} /\ rState' \in Halted \cup {"loading", "running"}
      /\ rBegin # "late" => rUnheard' = rUnheard
  <2>1. CASE rBegin = "ok"
    BY <1>1, <2>1 DEF RunTypes, stopped
  <2>2. CASE rBegin = "late"
    BY <2>2 DEF StopMail, TakesStop, stopped, RunTypes, Halted
  <2>3. CASE rBegin \in {"unsent", "busy"}
    BY <1>1, <2>3 DEF StopMail, stopped, RunTypes
  <2> QED
    BY <1>2, <2>1, <2>2, <2>3
<1>4. RunTypes'
  BY <1>1, <1>3 DEF RunTypes, Halted
<1>5. RunPlace'
  BY <1>1 DEF RunPlace, Filing
<1>6. RunMine'
  <2>1. rBegin = "ok" => rOwned' = rMine
    BY <1>1
  <2>2. rAt' # "begin" /\ UNCHANGED <<rGen, rMine, rBegin>>
    OBVIOUS
  <2> QED
    BY <1>1, <1>2, <2>1, <2>2 DEF RunMine
<1>7. RunStopped'
  <2>1. rAt = "begin" /\ rAt' \in {"load", "cleanup"} /\ rAsked' = rAsked
    OBVIOUS
  <2>2. UNCHANGED <<rBegin, rMine, rGen>> /\ (rBegin # "late" => rUnheard' = {})
    BY <1>3 DEF RunStopped
  <2> QED
    BY <2>1, <2>2 DEF RunPlace, RunStopped
<1>8. RunFiles'
  BY DEF RunFiles, FilesUnderRoot
<1>9. RunTaken'
  BY DEF RunTaken, Filing
<1> QED
  BY <1>3, <1>4, <1>5, <1>6, <1>7, <1>8, <1>9

\* A STOP named the own program or none; the own one has stopped then, or the
\* STOP was not answered.
ToldToStop ==
  /\ rHarm' = {} /\ rState' \in Halted \cup {"loading", "running"}
  /\ rBegin # "late" => \A g \in rUnheard' : g = rMine /\ rMine # 0
  /\ rMine # 0 /\ rBegin = "ok" /\ rGen = rMine => rState' \in Halted \/ rMine \in rUnheard'

LEMMA StopOwn ==
  ASSUME RunInv, rAt \notin {"main", "begin"}, stop_owned
  PROVE  ToldToStop
<1> DEFINE g == IF owns_current_generation THEN rOwned ELSE 0
<1>1. g # 0 => g = rGen /\ g = rOwned /\ (rBegin # "late" => g = rMine /\ rMine # 0)
  BY DEF RunInv, RunTypes, RunPlace, RunMine, owns_current_generation
<1>2. rMine # 0 /\ rBegin = "ok" /\ rGen = rMine => g = rMine
  BY DEF RunInv, RunTypes, RunMine, owns_current_generation
<1>3. /\ rHarm = {} /\ rState \in Halted \cup {"loading", "running"}
      /\ rBegin # "late" => \A h \in rUnheard : h = rMine /\ rMine # 0
  BY DEF RunInv, RunTypes, RunStopped
<1>4. StopMail(g)
  BY DEF stop_owned
<1> HIDE DEF g
<1>5. CASE g = 0
  BY <1>2, <1>3, <1>4, <1>5 DEF StopMail, stopped, ToldToStop
<1>6. CASE g # 0 /\ TakesStop(g) /\ UNCHANGED rUnheard
  BY <1>1, <1>3, <1>6 DEF TakesStop, ToldToStop, Halted
<1>7. CASE g # 0 /\ rUnheard' = rUnheard \cup {g} /\ UNCHANGED <<rState, rHarm>>
  BY <1>1, <1>2, <1>3, <1>7 DEF ToldToStop
<1> QED
  BY <1>4, <1>5, <1>6, <1>7 DEF StopMail

LEMMA LoadKept ==
  ASSUME RunInv, Load
  PROVE  RunInv'
<1> USE DEF RunInv, Load, claimVars, stopVars, openVars
<1>1. rBegin = "ok" /\ rAsked = FALSE /\ rAt' \in {"loop", "unload"}
  BY DEF RunTypes, RunPlace
<1>2. RunTypes'
  BY DEF RunTypes, Halted
<1>3. RunPlace'
  BY <1>1 DEF RunPlace, Filing
<1>4. RunMine'
  BY <1>1 DEF RunMine
<1>5. RunStopped'
  BY <1>1 DEF RunStopped
<1>6. RunTaken'
  BY <1>1 DEF RunTaken, Filing
<1>7. RunFiles'
  BY DEF RunFiles, FilesUnderRoot
<1> QED
  BY <1>2, <1>3, <1>4, <1>5, <1>6, <1>7

LEMMA UnloadKept ==
  ASSUME RunInv, Unload
  PROVE  RunInv'
<1> USE DEF RunInv, Unload, claimVars, stopVars, openVars
<1>1. ToldToStop
  BY StopOwn
<1>2. rBegin = "ok" /\ rAsked = FALSE
  BY DEF RunTypes, RunPlace
<1>3. RunTypes'
  BY <1>1 DEF RunTypes, ToldToStop, Halted
<1>4. RunPlace'
  BY <1>2 DEF RunPlace, Filing
<1>5. RunMine'
  BY <1>2 DEF RunMine
<1>6. RunStopped'
  BY <1>1, <1>2 DEF RunStopped, ToldToStop
<1>7. RunTaken'
  BY DEF RunTaken, Filing
<1>8. RunFiles'
  BY DEF RunFiles, FilesUnderRoot
<1> QED
  BY <1>1, <1>3, <1>4, <1>5, <1>6, <1>7, <1>8 DEF ToldToStop

-----------------------------------------------------------------------------
(* File operations.                                                        *)

Serving == Filing \cup {"serve", "services"}

\* What a file operation leaves alone.
LEMMA ServeKept ==
  ASSUME RunInv, rAt \in Serving, rAt' \in Serving, UNCHANGED dosRest,
         DOMAIN rFiles' = FdIds, rHarm' = {}, RunFiles', RunTaken'
  PROVE  RunInv'
<1> USE DEF RunInv, Serving, dosRest, claimVars, stopVars
<1>1. RunTypes'
  BY DEF RunTypes, Halted
<1>2. RunPlace'
  BY DEF RunPlace, Filing
<1>3. RunMine'
  BY DEF RunPlace, RunMine, Filing
<1>4. RunStopped'
  BY DEF RunStopped, Halted, Filing
<1> QED
  BY <1>1, <1>2, <1>3, <1>4

\* The own program's request stays with what no write or check disturbs.
LEMMA TakenKept ==
  ASSUME RunInv, rAt \in Filing, rAt' \in {"dos", "resolve", "opened", "answer", "services"},
         UNCHANGED dosRest, UNCHANGED rCap, UNCHANGED noWrite
  PROVE  RunTaken' /\ rHarm' = {}
BY DEF RunInv, RunTaken, Filing, dosRest, noWrite, claimVars

LEMMA RootUnder == UnderRoot(RootDir)
BY DEF UnderRoot

\* A step of a path, and its end, lead nowhere or to a directory under the root.
LEMMA WalkUnder ==
  ASSUME NEW w, UnderRoot(w.cur)
  PROVE  /\ Here(w) # "none" => UnderRoot(Here(w))
         /\ ~rAbs /\ PathTarget(w) # "none" => UnderRoot(PathTarget(w))
         /\ \A comp : ResolveStep(w, comp).cur # "none" => UnderRoot(ResolveStep(w, comp).cur)
<1>1. Here(w) # "none" => UnderRoot(Here(w))
  BY DEF Here, EnterDir
<1>2. ~rAbs /\ PathTarget(w) # "none" => UnderRoot(PathTarget(w))
  BY <1>1 DEF PathTarget
<1>3. ASSUME NEW comp, ResolveStep(w, comp).cur # "none"
      PROVE  UnderRoot(ResolveStep(w, comp).cur)
  <2>1. CASE Here(w) = "none"
    BY <1>3, <2>1 DEF ResolveStep, NoWalk
  <2>2. CASE Here(w) # "none" /\ comp = "up"
    BY <1>3, <2>2 DEF ResolveStep, StepParent
  <2>3. CASE Here(w) # "none" /\ comp # "up"
    BY <1>1, <2>3 DEF ResolveStep
  <2> QED
    BY <2>1, <2>2, <2>3
<1> QED
  BY <1>1, <1>2, <1>3

LEMMA OpensKept ==
  ASSUME RunInv, NEW op, Opens(op)
  PROVE  RunInv'
<1> USE DEF Opens, openVars, Ends
<1>1. rAt = "dos" /\ rAt' \in {"answer", "resolve", "opened"} /\ UNCHANGED <<rCap, rFiles>>
  OBVIOUS
<1>2. RunTaken' /\ rHarm' = {}
  BY <1>1, TakenKept DEF Filing
<1>3. RunFiles'
  <2>1. CASE UNCHANGED openVars /\ rAt' = "answer"
    BY <2>1 DEF RunInv, RunFiles, FilesUnderRoot, dosRest
  <2>2. CASE /\ rAt' = "resolve" /\ rWalk' = [cur |-> RootDir, hold |-> "none"]
             /\ UNCHANGED <<rFiles, rNew>>
    <3>1. UnderRoot(rWalk'.cur)
      BY <2>2, RootUnder
    <3> QED
      BY <1>1, <2>2, <3>1 DEF RunInv, RunFiles, FilesUnderRoot, dosRest
  <2>3. CASE rAbs /\ rAt' = "opened" /\ UNCHANGED <<rFiles, rWalk>>
    BY <1>1, <2>3 DEF RunInv, RunFiles, FilesUnderRoot, dosRest
  <2> QED
    BY <2>1, <2>2, <2>3
<1>4. DOMAIN rFiles' = FdIds
  BY DEF RunInv, RunTypes
<1> QED
  BY <1>1, <1>2, <1>3, <1>4, ServeKept DEF Serving, Filing

LEMMA ResolveKept ==
  ASSUME RunInv, resolve_rel
  PROVE  RunInv'
<1> USE DEF resolve_rel
<1>1. UnderRoot(rWalk'.cur)
  BY WalkUnder DEF RunInv, RunFiles
<1>2. RunFiles'
  BY <1>1 DEF RunInv, RunFiles, FilesUnderRoot, dosRest
<1>3. RunTaken' /\ rHarm' = {}
  BY TakenKept DEF Filing
<1>4. DOMAIN rFiles' = FdIds
  BY DEF RunInv, RunTypes
<1> QED
  BY <1>2, <1>3, <1>4, ServeKept DEF Serving, Filing

LEMMA PathEndsKept ==
  ASSUME RunInv, PathEnds
  PROVE  RunInv'
<1> USE DEF PathEnds, Ends
<1>1. rAt = "resolve" /\ rAt' \in {"answer", "opened"}
  OBVIOUS
<1>2. RunTaken' /\ rHarm' = {}
  BY <1>1, TakenKept DEF Filing
<1>3. ~rAbs /\ PathTarget(rWalk) # "none" => UnderRoot(PathTarget(rWalk))
  BY WalkUnder DEF RunInv, RunFiles
<1>4. RunFiles'
  BY <1>3 DEF RunInv, RunFiles, FilesUnderRoot, NoWalk, dosRest
<1>5. DOMAIN rFiles' = FdIds
  BY DEF RunInv, RunTypes
<1> QED
  BY <1>1, <1>2, <1>4, <1>5, ServeKept DEF Serving, Filing

LEMMA OpenedKept ==
  ASSUME RunInv, Opened
  PROVE  RunInv'
<1> USE DEF Opened, Ends
<1>1. RunTaken' /\ rHarm' = {}
  BY TakenKept DEF Filing
<1>2. DOMAIN rFiles' = FdIds
  BY DEF RunInv, RunTypes
<1>3. \A f \in FdIds : rFiles'[f] \in {rFiles[f], rNew}
  BY DEF RunInv, RunTypes
<1>4. RunFiles'
  BY <1>3 DEF RunInv, RunFiles, FilesUnderRoot, dosRest
<1> QED
  BY <1>1, <1>2, <1>4, ServeKept DEF Serving, Filing

LEMMA ClosesKept ==
  ASSUME RunInv, NEW op, Closes(op)
  PROVE  RunInv'
<1> USE DEF Closes, Ends
<1>1. RunTaken' /\ rHarm' = {}
  BY TakenKept DEF Filing
<1>2. DOMAIN rFiles' = FdIds
  BY DEF RunInv, RunTypes
<1>3. \A f \in FdIds : rFiles'[f] \in {rFiles[f], "free"}
  BY DEF RunInv, RunTypes
<1>4. RunFiles'
  BY <1>3 DEF RunInv, RunFiles, FilesUnderRoot, dosRest
<1> QED
  BY <1>1, <1>2, <1>4, ServeKept DEF Serving, Filing

LEMMA CompletesKept ==
  ASSUME RunInv, NEW op, Completes(op)
  PROVE  RunInv'
<1> USE DEF Completes, Ends, openVars
<1>1. RunTaken' /\ rHarm' = {}
  BY TakenKept DEF Filing
<1>2. DOMAIN rFiles' = FdIds
  BY DEF RunInv, RunTypes
<1>3. RunFiles'
  BY DEF RunInv, RunFiles, FilesUnderRoot, dosRest
<1> QED
  BY <1>1, <1>2, <1>3, ServeKept DEF Serving, Filing

\* A check passes for a request of the own program only when the runtime is its
\* own.
LEMMA CheckedKept ==
  ASSUME RunInv, NEW after, Checked(after), rAt \in {"dos", "answer"},
         after \in {"dos", "reply", "copy"}
  PROVE  RunInv'
<1> USE DEF Checked, Served
<1>1. rAt' \in {after, "services"} /\ UNCHANGED <<rReq, rOwned, rGen>>
  BY DEF dosRest, claimVars
<1>2. RunTaken'
  <2>1. /\ rReq \in FileRequest /\ rTaken \in BOOLEAN /\ rCap.n \in Nat
        /\ rReq.g \in {0, rGen} /\ (rReq.done = FALSE => rReq.g = rGen)
        /\ rCap.g = rOwned \/ rTaken = TRUE
    BY DEF RunInv, RunTaken, Filing
  <2>2. rOwned # 0
    BY DEF RunInv, RunPlace, RunMine, Filing
  <2>3. rTaken' \in BOOLEAN /\ rCap'.n \in Nat
    BY <2>1 DEF NoCap
  <2>4. CASE Current
    <3>1. rCap' = rCap /\ rAt' = after /\ rReq.g = rCap.g
      BY <2>4 DEF Current
    <3>2. CASE rCap.g = rOwned
      BY <1>1, <2>1, <2>2, <2>3, <3>1, <3>2 DEF RunTaken
    <3>3. CASE rCap.g # rOwned
      <4>1. rTaken' = TRUE
        BY <2>1, <3>3
      <4> QED
        BY <1>1, <2>1, <2>3, <4>1 DEF RunTaken
    <3> QED
      BY <3>2, <3>3
  <2>5. CASE ~Current
    BY <1>1, <2>1, <2>3, <2>5 DEF RunTaken, Filing
  <2> QED
    BY <2>4, <2>5
<1>3. RunFiles'
  BY <1>1 DEF RunInv, RunFiles, FilesUnderRoot, dosRest
<1>4. DOMAIN rFiles' = FdIds /\ rHarm' = {}
  BY DEF RunInv, RunTypes
<1> QED
  BY <1>1, <1>2, <1>3, <1>4, ServeKept DEF Serving, Filing

LEMMA WriteOwn ==
  ASSUME RunInv, rAt \in {"reply", "copy"}, WriteHarm
  PROVE  rHarm' = {}
BY DEF RunInv, RunTaken, WriteHarm

LEMMA FileReplyKept ==
  ASSUME RunInv, file_reply
  PROVE  RunInv'
<1>1. CASE rAt = "answer" /\ Checked("reply")
  BY <1>1, CheckedKept
<1>2. CASE /\ rAt = "reply" /\ Served /\ WriteHarm
           /\ rReq' = [rReq EXCEPT !.n = rCap.n, !.done = TRUE]
           /\ UNCHANGED <<dosRest, rFiles, rWalk, rNew, rTaken>>
  <2>1. rHarm' = {}
    BY <1>2, WriteOwn
  <2>2. RunTaken'
    BY <1>2 DEF RunInv, RunTaken, FileRequest, Served, NoCap, Filing, dosRest, claimVars
  <2>3. RunFiles' /\ DOMAIN rFiles' = FdIds
    BY <1>2 DEF RunInv, RunTypes, RunFiles, FilesUnderRoot, Served, dosRest
  <2> QED
    BY <1>2, <2>1, <2>2, <2>3, ServeKept DEF Serving, Filing, Served
<1> QED
  BY <1>1, <1>2 DEF file_reply

LEMMA FileCopyKept ==
  ASSUME RunInv, file_copy
  PROVE  RunInv'
<1>1. CASE rAt = "dos" /\ Checked("copy")
  BY <1>1, CheckedKept
<1>2. CASE /\ rAt = "copy" /\ rAt' \in {"dos", "answer"} /\ WriteHarm
           /\ UNCHANGED <<dosRest, openVars, rReq, rTaken>>
  <2>1. rHarm' = {}
    BY <1>2, WriteOwn
  <2>2. RunTaken'
    BY <1>2 DEF RunInv, RunTaken, Filing, dosRest, claimVars, openVars
  <2>3. RunFiles' /\ DOMAIN rFiles' = FdIds
    BY <1>2 DEF RunInv, RunTypes, RunFiles, FilesUnderRoot, dosRest, openVars
  <2> QED
    BY <1>2, <2>1, <2>2, <2>3, ServeKept DEF Serving, Filing
<1> QED
  BY <1>1, <1>2 DEF file_copy

LEMMA ServeWriteKept ==
  ASSUME RunInv, serve_write
  PROVE  RunInv'
BY CompletesKept, CheckedKept DEF serve_write

LEMMA ServeFilesKept ==
  ASSUME RunInv, serve_files
  PROVE  RunInv'
<1> USE DEF serve_files
<1>1. rAt = "serve" /\ rAt' \in {"dos", "services"}
  OBVIOUS
<1>2. rHarm' = {}
  BY DEF RunInv, noWrite
<1>3. RunTaken'
  <2>1. CASE UNCHANGED rCap /\ rAt' = "services"
    BY <2>1 DEF RunInv, RunTaken, Filing, noWrite, dosRest, claimVars
  <2>2. CASE rReq.done = FALSE /\ rCap'.g = rReq.g /\ rCap'.n = rReq.n /\ rAt' = "dos"
    BY <1>1, <2>2 DEF RunInv, RunTaken, FileRequest, Filing, noWrite, dosRest, claimVars
  <2>3. CASE rReq.done = FALSE /\ rAt' = "dos" /\ \E op \in Ops, f \in FdIds :
               rCap' = [g |-> rReq.g, n |-> rReq.n, op |-> op, fd |-> f]
    <3>1. PICK op \in Ops, f \in FdIds :
            rCap' = [g |-> rReq.g, n |-> rReq.n, op |-> op, fd |-> f]
      BY <2>3
    <3>2. rCap'.g = rReq.g /\ rCap'.n = rReq.n
      BY <3>1
    <3> QED
      BY <2>2, <2>3, <3>2
  <2>4. ~rReq.done => rReq.done = FALSE
    BY DEF RunInv, RunTaken, FileRequest
  <2> QED
    BY <2>1, <2>3, <2>4
<1>4. RunFiles' /\ DOMAIN rFiles' = FdIds
  BY <1>1 DEF RunInv, RunTypes, RunFiles, FilesUnderRoot, dosRest
<1> QED
  BY <1>1, <1>2, <1>3, <1>4, ServeKept DEF Serving, Filing

-----------------------------------------------------------------------------
(* The loop and the end.                                                   *)

\* Once asked, the own program is told to stop.
LEMMA RequestStop ==
  ASSUME RunInv, rAt \in {"loop", "services", "decide"},
         request_stop \/ UNCHANGED <<rAsked, rGraces, stopped>>
  PROVE  /\ rHarm' = {} /\ rState' \in Halted \cup {"loading", "running"} /\ rAsked' \in BOOLEAN
         /\ \A g \in rUnheard' : g = rMine
         /\ rAsked' = TRUE /\ rGen = rMine => rState' \in Halted \/ rMine \in rUnheard'
<1>1. rBegin = "ok" /\ rMine # 0
  BY DEF RunInv, RunPlace, RunMine
<1>2. CASE UNCHANGED <<rAsked, rGraces, stopped>>
  <2>1. UNCHANGED <<rAsked, rState, rHarm, rUnheard>>
    BY <1>2 DEF stopped
  <2> QED
    BY <1>1, <2>1 DEF RunInv, RunTypes, RunStopped
<1>3. CASE rAsked' = TRUE /\ stop_owned
  BY <1>1, <1>3, StopOwn DEF ToldToStop
<1> QED
  BY <1>2, <1>3 DEF request_stop

\* What a step of the loop leaves alone.
LEMMA LoopKept ==
  ASSUME RunInv, rAt \in {"loop", "services", "decide"},
         rAt' \in {"loop", "serve", "services", "decide", "lost", "cleanup"},
         request_stop \/ UNCHANGED <<rAsked, rGraces, stopped>>,
         UNCHANGED <<rGen, rMine, rReq, rAbs, claimVars, rFiles, rCap, rWalk, rNew>>,
         rAt' = "lost" => ~owns_current_generation,
         rTaken' \in BOOLEAN, rAt' = "serve" => owns_current_generation
  PROVE  RunInv'
<1> USE DEF RunInv, claimVars
<1>1. /\ rHarm' = {} /\ rState' \in Halted \cup {"loading", "running"} /\ rAsked' \in BOOLEAN
      /\ \A g \in rUnheard' : g = rMine
      /\ rAsked' = TRUE /\ rGen = rMine => rState' \in Halted \/ rMine \in rUnheard'
  BY RequestStop
<1>2. rBegin = "ok" /\ rMine # 0 /\ rOwned = rMine
  BY DEF RunPlace, RunMine
<1>3. RunTypes'
  BY <1>1 DEF RunTypes
<1>4. RunPlace'
  BY <1>2 DEF RunPlace, Filing
<1>5. RunMine'
  BY DEF RunMine
<1>6. RunStopped'
  <2>1. rAt' = "lost" => rMine < rGen
    BY <1>2 DEF owns_current_generation, RunTypes, RunMine
  <2> QED
    BY <1>1, <1>2, <2>1 DEF RunStopped
<1>7. RunTaken'
  <2>1. rAt' = "serve" => rGen = rOwned
    BY DEF owns_current_generation
  <2> QED
    BY <2>1 DEF RunTaken, Filing
<1>8. RunFiles'
  BY DEF RunFiles, FilesUnderRoot
<1> QED
  BY <1>1, <1>3, <1>4, <1>5, <1>6, <1>7, <1>8

LEMMA LoopTopKept ==
  ASSUME RunInv, LoopTop
  PROVE  RunInv'
<1>1. request_stop \/ UNCHANGED <<rAsked, rGraces, stopped>>
  BY DEF LoopTop, stopVars
<1>2. rAt = "loop" /\ rAt' \in {"serve", "lost"}
  BY DEF LoopTop
<1>3. rAt' = "lost" => ~owns_current_generation
  BY DEF LoopTop
<1>4. rAt' = "serve" => owns_current_generation
  BY DEF LoopTop
<1>5. rTaken' \in BOOLEAN
  BY DEF LoopTop, RunInv, RunTaken
<1> QED
  BY <1>1, <1>2, <1>3, <1>4, <1>5, LoopKept DEF LoopTop, openVars

LEMMA ServicesKept ==
  ASSUME RunInv, Services
  PROVE  RunInv'
<1>1. request_stop \/ UNCHANGED <<rAsked, rGraces, stopped>>
  BY DEF Services, stopVars
<1>2. rAt = "services" /\ rAt' \in {"decide", "lost"}
  BY DEF Services
<1>3. rAt' = "lost" => ~owns_current_generation
  BY DEF Services
<1>4. rTaken' \in BOOLEAN
  BY DEF Services, RunInv, RunTaken
<1> QED
  BY <1>1, <1>2, <1>3, <1>4, LoopKept DEF Services, openVars

LEMMA DecideKept ==
  ASSUME RunInv, Decide
  PROVE  RunInv'
<1>1. request_stop \/ UNCHANGED <<rAsked, rGraces, stopped>>
  BY DEF Decide, stopVars
<1>2. rAt = "decide" /\ rAt' \in {"cleanup", "loop"}
  BY DEF Decide
<1>3. rTaken' \in BOOLEAN
  BY DEF Decide, RunInv, RunTaken
<1> QED
  BY <1>1, <1>2, <1>3, LoopKept DEF Decide, openVars

LEMMA GraceKept ==
  ASSUME RunInv, Grace
  PROVE  RunInv'
<1> USE DEF RunInv, Grace, runtimeVars, claimVars, openVars
<1>1. RunTypes'
  BY DEF RunTypes, Halted
<1>2. RunPlace'
  BY DEF RunPlace, Filing
<1>3. RunMine'
  BY DEF RunMine
<1>4. RunStopped'
  BY DEF RunStopped, Halted
<1>5. RunFiles'
  BY DEF RunFiles, FilesUnderRoot
<1>6. RunTaken'
  BY DEF RunTaken, Filing
<1> QED
  BY <1>1, <1>2, <1>3, <1>4, <1>5, <1>6

LEMMA LostKept ==
  ASSUME RunInv, Lost
  PROVE  RunInv'
<1> USE DEF RunInv, Lost, runtimeVars, claimVars, stopVars
<1>1. RunTypes'
  BY DEF RunTypes, Halted
<1>2. RunPlace'
  BY DEF RunPlace, Filing
<1>3. RunMine'
  BY DEF RunMine
<1>4. RunStopped'
  BY DEF RunTypes, RunStopped
<1>5. RunFiles'
  BY DEF RunFiles, FilesUnderRoot
<1>6. RunTaken'
  BY DEF RunTaken, Filing
<1> QED
  BY <1>1, <1>2, <1>3, <1>4, <1>5, <1>6

LEMMA CleanupKept ==
  ASSUME RunInv, Cleanup
  PROVE  RunInv'
<1> USE DEF RunInv, Cleanup, claimVars, stopVars
<1>1. ToldToStop
  <2>1. CASE ~rAsked /\ rState # "idle"
    BY <2>1, StopOwn
  <2>2. CASE rAsked \/ rState = "idle"
    <3>1. UNCHANGED <<rState, rHarm, rUnheard>>
      BY <2>2 DEF stopped
    <3> QED
      BY <2>2, <3>1 DEF RunTypes, RunStopped, ToldToStop, Halted
  <2> QED
    BY <2>1, <2>2 DEF RunTypes
<1>2. RunTypes'
  BY <1>1 DEF RunTypes, ToldToStop
<1>3. RunPlace'
  BY DEF RunPlace, Filing
<1>4. RunMine'
  BY DEF RunMine
<1>5. RunStopped'
  <2>1. rMine # 0 /\ rBegin # "late" => rBegin = "ok"
    BY DEF RunMine
  <2> QED
    BY <1>1, <2>1 DEF RunStopped, ToldToStop
<1>6. RunTaken'
  BY DEF RunTaken, Filing
<1>7. RunFiles'
  BY DEF RunFiles, FilesUnderRoot
<1> QED
  BY <1>1, <1>2, <1>3, <1>4, <1>5, <1>6, <1>7 DEF ToldToStop

-----------------------------------------------------------------------------
(* The theorems.                                                           *)

LEMMA DisplayStart == DisplayInit => DisplayInv
BY DEF DisplayInit, DisplayInv, DisplayTypes, DisplayDue, DisplayOne, DisplayOrder, DisplayOpen

LEMMA DisplayEnough == DisplayInv => DisplaySafe
<1> SUFFICES ASSUME DisplayInv PROVE DisplaySafe
  OBVIOUS
<1>1. FreedSafely
  <2>1. dChanges \in Nat /\ dMsgs \in Nat /\ dSafe = dChanges + dMsgs
    BY DEF DisplayInv, DisplayTypes, DisplayDue
  <2>2. dSafe = 0 => dChanges = 0 /\ dMsgs = 0
    BY <2>1
  <2> QED
    BY <2>2 DEF DisplayInv, DisplayDue, FreedSafely
<1>2. AckedIsVisible /\ ClosedAll
  BY DEF DisplayInv, DisplayOrder, DisplayOpen, AckedIsVisible, ClosedAll
<1> QED
  BY <1>1, <1>2 DEF DisplaySafe

LEMMA DisplayUnchanged == DisplayInv /\ UNCHANGED displayVars => DisplayInv'
BY DEF displayVars, flipVars, DisplayInv, DisplayTypes, DisplayDue, DisplayOne, DisplayOrder,
       DisplayOpen

\* Whatever a display could not open, and however late Intuition and the card
\* answer, no buffer or port goes while an answer is due, and a flip is
\* acknowledged only when it is safely on the screen.
THEOREM DisplayIsSafe == DisplaySpec => []DisplaySafe
<1>1. DisplayInv /\ [DisplayNext]_displayVars => DisplayInv'
  BY DisplayUnchanged, OpenScreenKept, DoubleBufferKept, FallBackKept, BindDisplayKept, FlipKept,
     IntuitionKept, AckSafeKept, CardLatchesKept, AckScanoutKept, ShowBufferKept, ShowPageKept,
     ShowSingleKept, BeginCloseKept, WaitKept, RestoreFrontKept, FreeDisplayKept
  DEF DisplayNext
<1> QED
  BY <1>1, DisplayStart, DisplayEnough, PTL DEF DisplaySpec

LEMMA RunStart == RunInit => RunInv
<1> SUFFICES ASSUME RunInit PROVE RunInv
  OBVIOUS
<1> USE DEF RunInit
<1>1. RunTypes
  BY DEF RunTypes, Halted
<1>2. RunPlace /\ RunStopped
  BY DEF RunPlace, RunStopped, Filing
<1>3. RunMine
  BY DEF RunMine
<1>4. RunFiles
  BY DEF RunFiles, FilesUnderRoot, NoWalk
<1>5. RunTaken
  <2>1. rReq = NoReq /\ NoCap.n = 0 /\ rAt = "main" /\ rTaken = FALSE /\ rCap = NoCap
    BY DEF NoCap
  <2>2. rReq \in FileRequest /\ rReq.g = 0 /\ rReq.done = TRUE /\ rCap.n = 0
    BY <2>1, NoReqTyped
  <2> HIDE DEF RunInit
  <2>3. rAt \in {"serve", "reply", "copy"} \cup Filing => FALSE
    BY <2>1 DEF Filing
  <2>4. rTaken \in BOOLEAN
    BY <2>1
  <2>5. rReq.g \in {0, rGen} /\ (rReq.done = FALSE => rReq.g = rGen)
    BY <2>2
  <2> QED
    BY <2>2, <2>3, <2>5, <2>4 DEF RunTaken
<1> QED
  BY <1>1, <1>2, <1>3, <1>4, <1>5 DEF RunInv

LEMMA RunEnough == RunInv => LauncherSafe
<1> SUFFICES ASSUME RunInv PROVE LauncherSafe
  OBVIOUS
<1>1. OnlyOwn
  BY DEF RunInv, RunTypes, RunPlace, RunMine, OnlyOwn
<1>2. FilesUnderRoot /\ NothingLeft
  BY DEF RunInv, RunFiles, RunStopped, NothingLeft, Halted
<1> QED
  BY <1>1, <1>2 DEF LauncherSafe

LEMMA RunUnchanged ==
  ASSUME RunInv, UNCHANGED runVars
  PROVE  RunInv'
<1> USE DEF RunInv, runVars, runtimeVars, claimVars, stopVars, openVars
<1>1. RunTypes' /\ RunPlace' /\ RunMine'
  BY DEF RunTypes, RunPlace, RunMine, Halted, Filing
<1>2. RunStopped' /\ RunFiles'
  BY DEF RunStopped, RunFiles, FilesUnderRoot, Halted
<1>3. RunTaken'
  BY DEF RunTaken, Filing
<1> QED
  BY <1>1, <1>2, <1>3

\* ZZRun and its display: whatever another launcher, a late mailbox answer or a
\* program does, no other program is stopped, also not by a STOP carried out
\* late, and the window of another program is written only when it took the
\* runtime over since the launcher last found it its own; every open file lies
\* under the root unless the user allowed volumes; a launcher that is gone left
\* nothing open and its program stopped, or a STOP for it unanswered; the display
\* as above.
THEOREM RunIsSafe == RunSpec /\ DisplaySpec => []RunSafe
<1>1. RunInv /\ [RunNext]_runVars => RunInv'
  <2> SUFFICES ASSUME RunInv, RunNext PROVE RunInv'
    BY RunUnchanged
  <2>1. CASE \/ serve_open \/ serve_list_open \/ serve_close \/ serve_list_close \/ serve_read
             \/ serve_list_next \/ serve_seek \/ serve_stat \/ serve_unknown
    BY <2>1, OpensKept, ClosesKept, CompletesKept
    DEF serve_open, serve_list_open, serve_close, serve_list_close, serve_read,
        serve_list_next, serve_seek, serve_stat, serve_unknown
  <2>2. CASE file_reply \/ file_copy \/ serve_write \/ serve_files \/ resolve_rel \/ PathEnds
             \/ Opened
    BY <2>2, FileReplyKept, FileCopyKept, ServeWriteKept, ServeFilesKept, ResolveKept,
       PathEndsKept, OpenedKept
  <2> QED
    BY <2>1, <2>2, CardBeginKept, OtherLauncherKept, ProgramKept, CardStopsKept, BeginKept,
       BeginTimeoutKept, ClaimBeginKept, LoadKept, UnloadKept, LoopTopKept, ServicesKept,
       DecideKept, GraceKept, LostKept, CleanupKept
    DEF RunNext
<1>2. RunSpec => []LauncherSafe
  BY <1>1, RunStart, RunEnough, PTL DEF RunSpec
<1>3. LauncherSafe /\ DisplaySafe => RunSafe
  BY DEF RunSafe
<1> QED
  BY <1>2, <1>3, DisplayIsSafe, PTL

-----------------------------------------------------------------------------
(* ZzConsole: the console of a program.                                    *)

Texts == Seq({"log", "status"})

ConsoleStates ==
  /\ cAt \in {"wait", "drain", "fill", "log", "decide", "finish", "finish drain", "finish wait",
              "done"}
  /\ wState \in {"idle", "sent", "done"} /\ iState \in {"idle", "sent", "done"}
  /\ wSource \in {"", "launcher", "app", "other app"}
  /\ cApp \in {"running", "ended"} /\ cStop \in {"no", "self", "user"}

ConsoleFlags ==
  /\ cWin \in BOOLEAN /\ cOwn \in BOOLEAN /\ cKeyboard \in BOOLEAN /\ cFailed \in BOOLEAN
  /\ iEof \in BOOLEAN /\ iWant \in BOOLEAN /\ cEof \in BOOLEAN /\ cClean \in BOOLEAN

ConsoleCounts ==
  /\ cHead \in Nat /\ cTail \in Nat /\ cSaid \in Nat /\ cOut \in Nat
  /\ iHead \in Nat /\ iTail \in Nat /\ cHave \in Nat /\ cRead \in Nat
  /\ wTail \in Nat /\ wBytes \in Nat /\ wResult \in Nat /\ iGot \in Nat
  /\ cMsgs \in Texts

ConsoleType == ConsoleStates /\ ConsoleFlags /\ ConsoleCounts

\* The window is let go, and its ring another program's, only after a takeover.
OwnWindow ==
  /\ cOwn => cWin
  /\ wState # "idle" /\ wSource = "other app" => ~cOwn

\* What the write packet carries is still in its ring or queue, so that the
\* position moves by what was written and never past what was printed.
PacketHeld ==
  /\ cTail <= cHead
  /\ wResult <= wBytes /\ (wState # "done" => wResult = 0)
  /\ wState # "idle" /\ wSource = "app" /\ cOwn => wTail = cTail /\ wTail + wBytes <= cHead
  /\ wState # "idle" /\ wSource = "launcher" => wBytes <= Len(cMsgs)

\* A read is under way only when the one before it has been pushed in full.
InputHeld ==
  /\ iTail <= iHead /\ iHead <= iTail + InCap
  /\ iState # "done" => iGot = 0
  /\ iState # "idle" => cHave = 0

\* An orderly end began with the ring empty, and the program prints no more.
CleanEnd == cClean /\ cOwn => cApp = "ended" /\ (cFailed \/ cTail = cHead)

ConsoleInv ==
  /\ ConsoleType /\ OwnWindow /\ PacketHeld /\ InputHeld /\ CleanEnd
  /\ OutputExact /\ InputExact /\ ReserveKept /\ NoPacketOut

Kept(q) == \A i \in DOMAIN q : q[i] = "log" => i <= MsgCap - MsgReserve

\* launcher_output_reserve adds a message at the end or drops it.
LEMMA SaidKept ==
  ASSUME NEW q \in Texts, Kept(q), NEW kind \in {"log", "status"}
  PROVE  Said(q, kind) \in Texts /\ Len(q) <= Len(Said(q, kind)) /\ Kept(Said(q, kind))
<1>1. CASE ~Accept(q, kind)
  BY <1>1 DEF Said, Texts
<1>2. CASE Accept(q, kind)
  <2>1. Said(q, kind) = Append(q, kind)
    BY <1>2 DEF Said
  <2>2. Append(q, kind) \in Texts /\ Len(Append(q, kind)) = Len(q) + 1
    BY DEF Texts
  <2>3. ASSUME NEW i \in DOMAIN Append(q, kind), Append(q, kind)[i] = "log"
        PROVE  i <= MsgCap - MsgReserve
    <3>1. CASE i <= Len(q)
      BY <2>3, <3>1 DEF Kept, Texts
    <3>2. CASE i = Len(q) + 1
      BY <2>3, <3>2, <1>2, ConsoleAssumption DEF Accept, Texts
    <3>. QED
      BY <2>2, <3>1, <3>2 DEF Texts
  <2>. QED
    BY <2>1, <2>2, <2>3 DEF Kept, Texts
<1>. QED
  BY <1>1, <1>2

\* launcher_output_consume drops messages at the front.
LEMMA RestKept ==
  ASSUME NEW q \in Texts, Kept(q), NEW n \in 0..Len(q)
  PROVE  SubSeq(q, n + 1, Len(q)) \in Texts /\ Kept(SubSeq(q, n + 1, Len(q)))
<1>1. SubSeq(q, n + 1, Len(q)) \in Texts /\ Len(SubSeq(q, n + 1, Len(q))) = Len(q) - n
  BY DEF Texts
<1>2. ASSUME NEW i \in 1..(Len(q) - n), SubSeq(q, n + 1, Len(q))[i] = "log"
      PROVE  i <= MsgCap - MsgReserve
  <2>1. SubSeq(q, n + 1, Len(q))[i] = q[i + n] /\ i + n \in DOMAIN q
    BY DEF Texts
  <2>2. i + n <= MsgCap - MsgReserve
    BY <1>2, <2>1 DEF Kept
  <2>. QED
    BY <2>2, ConsoleAssumption
<1>. QED
  BY <1>1, <1>2 DEF Kept, Texts

\* Before the program prints nothing is out and nothing is kept.
LEMMA ConsoleBegins == ConsoleInit => ConsoleInv
<1>. SUFFICES ASSUME ConsoleInit PROVE ConsoleInv
  OBVIOUS
<1>1. ConsoleStates /\ ConsoleFlags
  BY DEF ConsoleInit, ConsoleStates, ConsoleFlags
<1>2. /\ cHead = 0 /\ cTail = 0 /\ iHead = 0 /\ iTail = 0 /\ cHave = 0 /\ cOut = 0 /\ cRead = 0
      /\ wTail = 0 /\ wBytes = 0 /\ wResult = 0 /\ iGot = 0 /\ cSaid = 0
  BY DEF ConsoleInit
<1>3. wState = "idle" /\ iState = "idle"
  BY DEF ConsoleInit
<1>4. cMsgs = <<>>
  BY DEF ConsoleInit
<1>5. cMsgs \in Texts
  BY <1>4 DEF Texts
<1>6. ConsoleCounts
  BY <1>2, <1>5 DEF ConsoleCounts
<1>7. PacketHeld
  BY <1>2, <1>3 DEF PacketHeld
<1>8. InputHeld
  BY <1>2, <1>3, ConsoleAssumption DEF InputHeld
<1>9. OutputExact
  BY <1>2, <1>3 DEF OutputExact
<1>10. InputExact
  BY <1>2 DEF InputExact
<1>11. OwnWindow /\ CleanEnd /\ NoPacketOut
  BY <1>2 DEF ConsoleInit, OwnWindow, CleanEnd, NoPacketOut
<1>12. ReserveKept
  BY <1>4 DEF ReserveKept
<1>. QED
  BY <1>1, <1>6, <1>7, <1>8, <1>11, <1>12, <1>9, <1>10 DEF ConsoleInv, ConsoleType

\* The program prints a byte: the ring grows at its head.
LEMMA ConsoleAppPrints == ConsoleInv /\ AppPrints => ConsoleInv'
<1>. SUFFICES ASSUME ConsoleInv, AppPrints PROVE ConsoleInv'
  OBVIOUS
<1>1. Len(cMsgs) \in Nat
  BY DEF ConsoleInv, ConsoleType, ConsoleCounts, Texts
<1>. USE DEF ConsoleInv, ConsoleType, AppPrints, outVars, inVars, writeVars, readVars
<1>2. ConsoleStates' /\ ConsoleFlags'
  <2>1. ConsoleStates'
    BY DEF ConsoleStates
  <2>2. ConsoleFlags'
    BY DEF ConsoleFlags
  <2>. QED
    BY <2>1, <2>2
<1>3. OwnWindow'
  BY DEF OwnWindow
<1>4. ConsoleCounts'
  BY ConsoleAssumption DEF ConsoleCounts
<1>5. PacketHeld'
  BY <1>1 DEF ConsoleCounts, ConsoleFlags, PacketHeld
<1>6. OutputExact'
  BY DEF ConsoleCounts, ConsoleFlags, PacketHeld, OutputExact
<1>7. InputHeld' /\ InputExact'
  BY ConsoleAssumption DEF ConsoleCounts, InputHeld, InputExact
<1>8. CleanEnd' /\ NoPacketOut' /\ ReserveKept'
  BY DEF CleanEnd, NoPacketOut, ReserveKept
<1>. QED
  BY <1>2, <1>3, <1>4, <1>5, <1>6, <1>7, <1>8

\* The program takes a byte typed, or asks for one.
LEMMA ConsoleAppReads == ConsoleInv /\ AppReads => ConsoleInv'
<1>. SUFFICES ASSUME ConsoleInv, AppReads PROVE ConsoleInv'
  OBVIOUS
<1>1. Len(cMsgs) \in Nat
  BY DEF ConsoleInv, ConsoleType, ConsoleCounts, Texts
<1>. USE DEF ConsoleInv, ConsoleType, AppReads, outVars, inVars, writeVars, readVars
<1>2. ConsoleStates' /\ ConsoleFlags'
  <2>1. ConsoleStates'
    BY DEF ConsoleStates
  <2>2. ConsoleFlags'
    BY DEF ConsoleFlags
  <2>. QED
    BY <2>1, <2>2
<1>3. OwnWindow'
  BY DEF OwnWindow
<1>4. ConsoleCounts'
  BY ConsoleAssumption DEF ConsoleCounts
<1>5. PacketHeld'
  BY <1>1 DEF ConsoleCounts, ConsoleFlags, PacketHeld
<1>6. OutputExact'
  BY DEF ConsoleCounts, ConsoleFlags, PacketHeld, OutputExact
<1>7. InputHeld' /\ InputExact'
  BY ConsoleAssumption DEF ConsoleCounts, InputHeld, InputExact
<1>8. CleanEnd' /\ NoPacketOut' /\ ReserveKept'
  BY DEF CleanEnd, NoPacketOut, ReserveKept
<1>. QED
  BY <1>2, <1>3, <1>4, <1>5, <1>6, <1>7, <1>8

\* The program ends.
LEMMA ConsoleAppEnds == ConsoleInv /\ AppEnds => ConsoleInv'
<1>. SUFFICES ASSUME ConsoleInv, AppEnds PROVE ConsoleInv'
  OBVIOUS
<1>1. Len(cMsgs) \in Nat
  BY DEF ConsoleInv, ConsoleType, ConsoleCounts, Texts
<1>. USE DEF ConsoleInv, ConsoleType, AppEnds, outVars, inVars, writeVars, readVars
<1>2. ConsoleStates' /\ ConsoleFlags'
  <2>1. ConsoleStates'
    BY DEF ConsoleStates
  <2>2. ConsoleFlags'
    BY DEF ConsoleFlags
  <2>. QED
    BY <2>1, <2>2
<1>3. OwnWindow'
  BY DEF OwnWindow
<1>4. ConsoleCounts'
  BY ConsoleAssumption DEF ConsoleCounts
<1>5. PacketHeld'
  BY <1>1 DEF ConsoleCounts, ConsoleFlags, PacketHeld
<1>6. OutputExact'
  BY DEF ConsoleCounts, ConsoleFlags, PacketHeld, OutputExact
<1>7. InputHeld' /\ InputExact'
  BY ConsoleAssumption DEF ConsoleCounts, InputHeld, InputExact
<1>8. CleanEnd' /\ NoPacketOut' /\ ReserveKept'
  BY DEF CleanEnd, NoPacketOut, ReserveKept
<1>. QED
  BY <1>2, <1>3, <1>4, <1>5, <1>6, <1>7, <1>8

\* Another launcher takes the window: nothing is said of its rings.
LEMMA ConsoleTakeOver == ConsoleInv /\ TakeOver => ConsoleInv'
<1>. SUFFICES ASSUME ConsoleInv, TakeOver PROVE ConsoleInv'
  OBVIOUS
<1>1. Len(cMsgs) \in Nat
  BY DEF ConsoleInv, ConsoleType, ConsoleCounts, Texts
<1>. USE DEF ConsoleInv, ConsoleType, TakeOver, outVars, inVars, writeVars, readVars
<1>2. ConsoleStates' /\ ConsoleFlags'
  <2>1. ConsoleStates'
    BY DEF ConsoleStates
  <2>2. ConsoleFlags'
    BY DEF ConsoleFlags
  <2>. QED
    BY <2>1, <2>2
<1>3. OwnWindow'
  BY DEF OwnWindow
<1>4. ConsoleCounts'
  BY ConsoleAssumption DEF ConsoleCounts
<1>5. PacketHeld'
  BY <1>1 DEF ConsoleCounts, ConsoleFlags, PacketHeld
<1>6. OutputExact'
  BY DEF ConsoleCounts, ConsoleFlags, PacketHeld, OutputExact
<1>7. InputHeld' /\ InputExact'
  BY ConsoleAssumption DEF ConsoleCounts, InputHeld, InputExact
<1>8. CleanEnd' /\ NoPacketOut' /\ ReserveKept'
  BY DEF CleanEnd, NoPacketOut, ReserveKept
<1>. QED
  BY <1>2, <1>3, <1>4, <1>5, <1>6, <1>7, <1>8

\* A write comes back with what it has written.
LEMMA ConsoleWriteDone == ConsoleInv /\ WriteDone => ConsoleInv'
<1>. SUFFICES ASSUME ConsoleInv, WriteDone PROVE ConsoleInv'
  OBVIOUS
<1>1. Len(cMsgs) \in Nat
  BY DEF ConsoleInv, ConsoleType, ConsoleCounts, Texts
<1>. USE DEF ConsoleInv, ConsoleType, WriteDone, outVars, inVars, writeVars, readVars
<1>2. ConsoleStates' /\ ConsoleFlags'
  <2>1. ConsoleStates'
    BY DEF ConsoleStates
  <2>2. ConsoleFlags'
    BY DEF ConsoleFlags
  <2>. QED
    BY <2>1, <2>2
<1>3. OwnWindow'
  BY DEF OwnWindow
<1>4. ConsoleCounts'
  BY ConsoleAssumption DEF ConsoleCounts
<1>5. PacketHeld'
  BY <1>1 DEF ConsoleCounts, ConsoleFlags, PacketHeld
<1>6. OutputExact'
  BY DEF ConsoleCounts, ConsoleFlags, PacketHeld, OutputExact
<1>7. InputHeld' /\ InputExact'
  BY ConsoleAssumption DEF ConsoleCounts, InputHeld, InputExact
<1>8. CleanEnd' /\ NoPacketOut' /\ ReserveKept'
  BY DEF CleanEnd, NoPacketOut, ReserveKept
<1>. QED
  BY <1>2, <1>3, <1>4, <1>5, <1>6, <1>7, <1>8

\* A read comes back, or there is nothing more.
LEMMA ConsoleReadDone == ConsoleInv /\ ReadDone => ConsoleInv'
<1>. SUFFICES ASSUME ConsoleInv, ReadDone PROVE ConsoleInv'
  OBVIOUS
<1>1. Len(cMsgs) \in Nat
  BY DEF ConsoleInv, ConsoleType, ConsoleCounts, Texts
<1>. USE DEF ConsoleInv, ConsoleType, ReadDone, outVars, inVars, writeVars, readVars
<1>2. ConsoleStates' /\ ConsoleFlags'
  <2>1. ConsoleStates'
    BY DEF ConsoleStates
  <2>2. ConsoleFlags'
    BY DEF ConsoleFlags
  <2>. QED
    BY <2>1, <2>2
<1>3. OwnWindow'
  BY DEF OwnWindow
<1>4. ConsoleCounts'
  BY ConsoleAssumption DEF ConsoleCounts
<1>5. PacketHeld'
  BY <1>1 DEF ConsoleCounts, ConsoleFlags, PacketHeld
<1>6. OutputExact'
  BY DEF ConsoleCounts, ConsoleFlags, PacketHeld, OutputExact
<1>7. InputHeld' /\ InputExact'
  BY ConsoleAssumption DEF ConsoleCounts, InputHeld, InputExact
<1>8. CleanEnd' /\ NoPacketOut' /\ ReserveKept'
  BY DEF CleanEnd, NoPacketOut, ReserveKept
<1>. QED
  BY <1>2, <1>3, <1>4, <1>5, <1>6, <1>7, <1>8

\* console_read_complete
LEMMA ConsoleReapRead == ConsoleInv /\ cAt # "done" /\ ReapRead => ConsoleInv'
<1>. SUFFICES ASSUME ConsoleInv, cAt # "done", ReapRead PROVE ConsoleInv'
  OBVIOUS
<1>1. Len(cMsgs) \in Nat
  BY DEF ConsoleInv, ConsoleType, ConsoleCounts, Texts
<1>. USE DEF ConsoleInv, ConsoleType, ReapRead, outVars, inVars, writeVars, readVars
<1>2. ConsoleStates' /\ ConsoleFlags'
  <2>1. ConsoleStates'
    BY DEF ConsoleStates
  <2>2. ConsoleFlags'
    BY DEF ConsoleFlags
  <2>. QED
    BY <2>1, <2>2
<1>3. OwnWindow'
  BY DEF OwnWindow
<1>4. ConsoleCounts'
  BY ConsoleAssumption DEF ConsoleCounts
<1>5. PacketHeld'
  BY <1>1 DEF ConsoleCounts, ConsoleFlags, PacketHeld
<1>6. OutputExact'
  BY DEF ConsoleCounts, ConsoleFlags, PacketHeld, OutputExact
<1>7. InputHeld' /\ InputExact'
  BY ConsoleAssumption DEF ConsoleCounts, InputHeld, InputExact
<1>8. CleanEnd' /\ NoPacketOut' /\ ReserveKept'
  BY DEF CleanEnd, NoPacketOut, ReserveKept
<1>. QED
  BY <1>2, <1>3, <1>4, <1>5, <1>6, <1>7, <1>8

\* console_fill_input
LEMMA ConsoleFill == ConsoleInv /\ Fill => ConsoleInv'
<1>. SUFFICES ASSUME ConsoleInv, Fill PROVE ConsoleInv'
  OBVIOUS
<1>1. Len(cMsgs) \in Nat
  BY DEF ConsoleInv, ConsoleType, ConsoleCounts, Texts
<1>. USE DEF ConsoleInv, ConsoleType, Fill, outVars, inVars, writeVars, readVars, PacketBack,
             Pushed, Room, Lesser
<1>2. ConsoleStates' /\ ConsoleFlags'
  <2>1. ConsoleStates'
    BY DEF ConsoleStates
  <2>2. ConsoleFlags'
    BY DEF ConsoleFlags
  <2>. QED
    BY <2>1, <2>2
<1>3. OwnWindow'
  BY DEF OwnWindow
<1>4. ConsoleCounts'
  BY ConsoleAssumption DEF ConsoleCounts
<1>5. PacketHeld'
  BY <1>1 DEF ConsoleCounts, ConsoleFlags, PacketHeld
<1>6. OutputExact'
  BY DEF ConsoleCounts, ConsoleFlags, PacketHeld, OutputExact
<1>7. InputHeld' /\ InputExact'
  BY ConsoleAssumption DEF ConsoleCounts, InputHeld, InputExact
<1>8. CleanEnd' /\ NoPacketOut' /\ ReserveKept'
  BY DEF CleanEnd, NoPacketOut, ReserveKept
<1>. QED
  BY <1>2, <1>3, <1>4, <1>5, <1>6, <1>7, <1>8

\* console_read_finish: the launcher is done when nothing is out.
LEMMA ConsoleFinish == ConsoleInv /\ FinishConsole => ConsoleInv'
<1>. SUFFICES ASSUME ConsoleInv, FinishConsole PROVE ConsoleInv'
  OBVIOUS
<1>1. Len(cMsgs) \in Nat
  BY DEF ConsoleInv, ConsoleType, ConsoleCounts, Texts
<1>. USE DEF ConsoleInv, ConsoleType, FinishConsole, outVars, inVars, writeVars, readVars,
             Unfinished
<1>2. ConsoleStates' /\ ConsoleFlags'
  <2>1. ConsoleStates'
    BY DEF ConsoleStates
  <2>2. ConsoleFlags'
    BY DEF ConsoleFlags
  <2>. QED
    BY <2>1, <2>2
<1>3. OwnWindow'
  BY DEF OwnWindow
<1>4. ConsoleCounts'
  BY ConsoleAssumption DEF ConsoleCounts
<1>5. PacketHeld'
  BY <1>1 DEF ConsoleCounts, ConsoleFlags, PacketHeld
<1>6. OutputExact'
  BY DEF ConsoleCounts, ConsoleFlags, PacketHeld, OutputExact
<1>7. InputHeld' /\ InputExact'
  BY ConsoleAssumption DEF ConsoleCounts, InputHeld, InputExact
<1>8. CleanEnd' /\ NoPacketOut' /\ ReserveKept'
  BY DEF CleanEnd, NoPacketOut, ReserveKept
<1>. QED
  BY <1>2, <1>3, <1>4, <1>5, <1>6, <1>7, <1>8

\* What a step leaves when it says something or nothing.
LEMMA MessagesKept ==
  ASSUME ConsoleInv
  PROVE  /\ Kept(cMsgs) /\ cMsgs \in Texts
         /\ \A kind \in {"log", "status"} :
              Said(cMsgs, kind) \in Texts /\ Kept(Said(cMsgs, kind))
                                          /\ Len(cMsgs) <= Len(Said(cMsgs, kind))
<1>1. Kept(cMsgs) /\ cMsgs \in Texts
  BY DEF ConsoleInv, ConsoleType, ConsoleCounts, ReserveKept, Kept
<1>. QED
  BY <1>1, SaidKept

\* print_log: a record or a message is added, or none.
LEMMA ConsoleLogPass == ConsoleInv /\ LogPass => ConsoleInv'
<1>. SUFFICES ASSUME ConsoleInv, LogPass PROVE ConsoleInv'
  OBVIOUS
<1>1. cMsgs' \in Texts /\ Kept(cMsgs') /\ Len(cMsgs) <= Len(cMsgs') /\ Len(cMsgs) \in Nat
                       /\ Len(cMsgs') \in Nat
  <2>1. cMsgs' \in Texts /\ Kept(cMsgs') /\ Len(cMsgs) <= Len(cMsgs')
    BY MessagesKept DEF LogPass, ConsoleInv, ConsoleType, ConsoleCounts, Texts
  <2>. QED
    BY <2>1 DEF Texts, ConsoleInv, ConsoleType, ConsoleCounts
<1>. USE DEF ConsoleInv, ConsoleType, LogPass, inVars, writeVars, readVars
<1>2. ConsoleStates'
  BY DEF ConsoleStates
<1>3. ConsoleFlags' /\ OwnWindow'
  BY DEF ConsoleFlags, OwnWindow
<1>4. ConsoleCounts'
  BY <1>1 DEF ConsoleCounts
<1>5. PacketHeld'
  BY <1>1 DEF ConsoleCounts, PacketHeld
<1>6. OutputExact' /\ CleanEnd' /\ NoPacketOut'
  BY DEF OutputExact, CleanEnd, NoPacketOut
<1>7. InputHeld' /\ InputExact'
  BY DEF InputHeld, InputExact
<1>8. ReserveKept'
  BY <1>1 DEF ReserveKept, Kept
<1>. QED
  BY <1>2, <1>3, <1>4, <1>5, <1>6, <1>7, <1>8

\* run_loop: a pass begins, or the window is found lost.
LEMMA ConsoleBeginPass == ConsoleInv /\ BeginPass => ConsoleInv'
<1>. SUFFICES ASSUME ConsoleInv, BeginPass PROVE ConsoleInv'
  OBVIOUS
<1>1. cMsgs' \in Texts /\ Kept(cMsgs') /\ Len(cMsgs) <= Len(cMsgs') /\ Len(cMsgs) \in Nat
                       /\ Len(cMsgs') \in Nat
  <2>1. cMsgs' \in Texts /\ Kept(cMsgs') /\ Len(cMsgs) <= Len(cMsgs')
    BY MessagesKept DEF BeginPass, ConsoleInv, ConsoleType, ConsoleCounts, Texts
  <2>. QED
    BY <2>1 DEF Texts, ConsoleInv, ConsoleType, ConsoleCounts
<1>. USE DEF ConsoleInv, ConsoleType, BeginPass, inVars, writeVars, readVars
<1>2. ConsoleStates'
  BY DEF ConsoleStates
<1>3. ConsoleFlags' /\ OwnWindow'
  BY DEF ConsoleFlags, OwnWindow
<1>4. ConsoleCounts'
  BY <1>1 DEF ConsoleCounts
<1>5. PacketHeld'
  BY <1>1 DEF ConsoleCounts, PacketHeld
<1>6. OutputExact' /\ CleanEnd' /\ NoPacketOut'
  BY DEF OutputExact, CleanEnd, NoPacketOut
<1>7. InputHeld' /\ InputExact'
  BY DEF InputHeld, InputExact
<1>8. ReserveKept'
  BY <1>1 DEF ReserveKept, Kept
<1>. QED
  BY <1>2, <1>3, <1>4, <1>5, <1>6, <1>7, <1>8

\* zzrun_run_should_exit: an end of the program with nothing left to print is
\* a clean one.
LEMMA ConsoleDecideExit == ConsoleInv /\ DecideExit => ConsoleInv'
<1>. SUFFICES ASSUME ConsoleInv, DecideExit PROVE ConsoleInv'
  OBVIOUS
<1>1. cMsgs' \in Texts /\ Kept(cMsgs') /\ Len(cMsgs) <= Len(cMsgs') /\ Len(cMsgs) \in Nat
                       /\ Len(cMsgs') \in Nat
  <2>1. cMsgs' \in Texts /\ Kept(cMsgs') /\ Len(cMsgs) <= Len(cMsgs')
    BY MessagesKept DEF DecideExit, ConsoleInv, ConsoleType, ConsoleCounts, Texts
  <2>. QED
    BY <2>1 DEF Texts, ConsoleInv, ConsoleType, ConsoleCounts
<1>2. cClean' /\ cOwn => cClean \/ (cApp = "ended" /\ (cFailed \/ cTail = cHead))
  <2>1. cHead - cTail > 0 \/ cTail = cHead
    BY DEF ConsoleInv, ConsoleType, ConsoleCounts, PacketHeld
  <2>. QED
    BY <2>1 DEF ConsoleInv, OwnWindow, DecideExit, BlocksExit, OutputPending, Available
<1>. USE DEF ConsoleInv, ConsoleType, DecideExit, inVars, writeVars, readVars
<1>3. ConsoleStates'
  BY DEF ConsoleStates
<1>4. ConsoleFlags' /\ OwnWindow'
  BY DEF ConsoleFlags, OwnWindow
<1>5. ConsoleCounts'
  BY <1>1 DEF ConsoleCounts
<1>6. PacketHeld'
  BY <1>1 DEF ConsoleCounts, PacketHeld
<1>7. OutputExact' /\ NoPacketOut'
  BY DEF OutputExact, NoPacketOut
<1>8. InputHeld' /\ InputExact'
  BY DEF InputHeld, InputExact
<1>9. ReserveKept'
  BY <1>1 DEF ReserveKept, Kept
<1>10. CleanEnd'
  BY <1>2 DEF CleanEnd
<1>. QED
  BY <1>3, <1>4, <1>5, <1>6, <1>7, <1>8, <1>9, <1>10

\* console_write_complete: the position moves by what was written, and it is
\* always where the write began.
LEMMA ConsoleReapWrite == ConsoleInv /\ cAt # "done" /\ ReapWrite => ConsoleInv'
<1>. SUFFICES ASSUME ConsoleInv, cAt # "done", ReapWrite PROVE ConsoleInv'
  OBVIOUS
<1>1. Unsaid \in Texts /\ Kept(Unsaid)
  <2>1. Kept(cMsgs) /\ cMsgs \in Texts /\ Len(cMsgs) \in Nat
    BY MessagesKept DEF Texts
  <2>2. CASE wSource = "launcher"
    <3>1. wResult \in 0..Len(cMsgs)
      BY <2>1, <2>2 DEF ReapWrite, ConsoleInv, ConsoleType, ConsoleCounts, PacketHeld
    <3>. QED
      BY <2>1, <2>2, <3>1, RestKept DEF Unsaid, Advance
  <2>3. CASE wSource # "launcher"
    BY <2>1, <2>3 DEF Unsaid
  <2>. QED
    BY <2>2, <2>3
<1>2. cMsgs' \in Texts /\ Kept(cMsgs')
  <2>1. Said(Unsaid, "status") \in Texts /\ Kept(Said(Unsaid, "status"))
    BY <1>1, SaidKept
  <2>. QED
    BY <1>1, <2>1 DEF ReapWrite
<1>3. wState = "done" /\ wState' = "idle" /\ wTail' = 0 /\ wBytes' = 0 /\ wResult' = 0
  BY DEF ReapWrite, WriteFree
<1>4. cTail' = IF wSource = "app" /\ cOwn THEN cTail + wResult ELSE cTail
  <2>1. CASE wSource = "app" /\ cOwn
    <3>1. cTail = wTail /\ cWin
      BY <1>3, <2>1 DEF ConsoleInv, PacketHeld, OwnWindow
    <3>2. cTail' = IF wResult > 0 THEN cTail + wResult ELSE cTail
      BY <2>1, <3>1 DEF ReapWrite, MovesTail, Advance
    <3>. QED
      BY <2>1, <3>2 DEF ConsoleInv, ConsoleType, ConsoleCounts
  <2>2. CASE ~(wSource = "app" /\ cOwn)
    BY <1>3, <2>2 DEF ReapWrite, MovesTail, ConsoleInv, OwnWindow
  <2>. QED
    BY <2>1, <2>2
<1>5. ConsoleStates' /\ ConsoleFlags'
  <2>1. /\ wSource' = "" /\ cStop' \in {"no", "self", "user"} /\ cFailed' \in BOOLEAN
        /\ UNCHANGED <<cAt, cApp, cWin, cOwn, cKeyboard, iState, iEof, iWant, cEof, cClean>>
    BY
    DEF ReapWrite, WriteFree, ConsoleInv, ConsoleType, ConsoleStates, ConsoleFlags, inVars,
        readVars
  <2>2. ConsoleStates'
    BY <1>3, <2>1 DEF ConsoleInv, ConsoleType, ConsoleStates
  <2>3. ConsoleFlags'
    BY <2>1 DEF ConsoleInv, ConsoleType, ConsoleFlags
  <2>. QED
    BY <2>2, <2>3
<1>6. OwnWindow' /\ NoPacketOut'
  BY <1>3 DEF ReapWrite, ConsoleInv, OwnWindow, NoPacketOut
<1>7. UNCHANGED <<cOwn, cHead, cOut, cApp, cClean>> /\ (cFailed => cFailed')
  BY DEF ReapWrite
<1>8. ConsoleCounts'
  <2>1. cTail' \in Nat
    BY <1>4 DEF ConsoleInv, ConsoleType, ConsoleCounts
  <2>. QED
    BY <1>2, <1>3, <2>1 DEF ReapWrite, ConsoleInv, ConsoleType, ConsoleCounts, inVars, readVars
<1>9. cTail' <= cHead
  BY <1>3, <1>4 DEF ConsoleInv, ConsoleType, ConsoleCounts, PacketHeld
<1>10. PacketHeld'
  BY <1>3, <1>9, <1>7 DEF PacketHeld
<1>11. OutputExact'
  BY <1>3, <1>4, <1>7 DEF ConsoleInv, ConsoleType, ConsoleCounts, OutputExact
<1>12. InputHeld' /\ InputExact'
  BY DEF ReapWrite, ConsoleInv, InputHeld, InputExact, inVars, readVars
<1>13. CleanEnd'
  BY <1>3, <1>4, <1>7 DEF ConsoleInv, ConsoleType, ConsoleCounts, CleanEnd, PacketHeld
<1>14. ReserveKept'
  BY <1>2 DEF ReserveKept, Kept
<1>. QED
  BY <1>5, <1>6, <1>8, <1>10, <1>11, <1>12, <1>13, <1>14 DEF ConsoleInv, ConsoleType

\* console_drain_output: what is sent is the front of the messages or of the
\* ring.
LEMMA ConsoleDrain == ConsoleInv /\ Drain => ConsoleInv'
<1>. SUFFICES ASSUME ConsoleInv, Drain PROVE ConsoleInv'
  OBVIOUS
<1>1. cMsgs' \in Texts /\ Kept(cMsgs') /\ Len(cMsgs) <= Len(cMsgs') /\ Len(cMsgs) \in Nat
                       /\ Len(cMsgs') \in Nat
  <2>1. cMsgs' = cMsgs \/ cMsgs' = Said(cMsgs, "status")
    BY DEF Drain, DrainSome, OutputError
  <2>2. Len(cMsgs) \in Nat /\ cMsgs' \in Texts /\ Kept(cMsgs')
    BY <2>1, MessagesKept DEF Texts
  <2>3. Len(cMsgs') \in Nat
    BY <2>2 DEF Texts
  <2>. QED
    BY <2>1, <2>2, <2>3, MessagesKept
<1>2. UNCHANGED <<cWin, cOwn, cApp, cKeyboard, cHead, cTail, cSaid, cOut, inVars, cClean>>
  BY DEF Drain
<1>3. /\ cAt' \in {"fill", "finish wait"} /\ cAt # "done"
      /\ cStop' \in {"no", "self", "user"} /\ cFailed' \in BOOLEAN /\ (cFailed => cFailed')
  <2>1. cAt' \in {"fill", "finish wait"} /\ cAt # "done"
    BY DEF Drain
  <2>2. cStop' = cStop \/ cStop' = "self"
    BY DEF Drain, DrainSome, OutputError
  <2>3. cFailed' = cFailed \/ cFailed' = TRUE
    BY DEF Drain, DrainSome, OutputError
  <2>. QED
    BY <2>1, <2>2, <2>3 DEF ConsoleInv, ConsoleType, ConsoleStates, ConsoleFlags
<1>4. \/ UNCHANGED writeVars
      \/ /\ wState' = "sent" /\ wResult' = 0 /\ wTail' \in Nat /\ wBytes' \in Nat
         /\ \/ wSource' = "launcher" /\ wBytes' <= Len(cMsgs)
            \/ /\ wSource' = IF cOwn THEN "app" ELSE "other app"
               /\ wTail' = cTail /\ cTail + wBytes' <= cHead
  <2>1. CASE \E n \in 1..Len(cMsgs) : Send("launcher", 0, n)
    <3>1. PICK n \in 1..Len(cMsgs) : Send("launcher", 0, n)
      BY <2>1
    <3>2. n \in Nat /\ n <= Len(cMsgs)
      BY <1>1
    <3>. QED
      BY <3>1, <3>2 DEF Send
  <2>2. CASE /\ Available > 0
             /\ Send(IF cOwn THEN "app" ELSE "other app", cTail,
                     Lesser(Available, OutCap - (cTail % OutCap)))
    <3>1. cHead \in Nat /\ cTail \in Nat /\ cTail <= cHead
      BY DEF ConsoleInv, ConsoleType, ConsoleCounts, PacketHeld
    <3>2. Available \in 0..(cHead - cTail)
      BY <3>1 DEF Available
    <3>3. OutCap - (cTail % OutCap) \in Nat
      BY <3>1, ConsoleAssumption
    <3>4. Lesser(Available, OutCap - (cTail % OutCap)) \in 0..(cHead - cTail)
      BY <3>1, <3>2, <3>3 DEF Lesser
    <3>5. /\ wState' = "sent" /\ wResult' = 0 /\ wTail' = cTail
          /\ wSource' = (IF cOwn THEN "app" ELSE "other app")
      BY <2>2 DEF Send
    <3>6. wBytes' \in 0..(cHead - cTail)
      BY <2>2, <3>4 DEF Send
    <3>7. wBytes' \in Nat /\ cTail + wBytes' <= cHead
      <4>1. \A n \in 0..(cHead - cTail) : n \in Nat /\ cTail + n <= cHead
        BY <3>1
      <4>. QED
        BY <3>6, <4>1
    <3>. QED
      BY <3>1, <3>5, <3>7
  <2>. QED
    BY <2>1, <2>2 DEF Drain, DrainSome
<1>5. ConsoleStates'
  <2>1. wState' \in {"idle", "sent", "done"} /\ wSource' \in {"", "launcher", "app", "other app"}
    BY <1>4 DEF ConsoleInv, ConsoleType, ConsoleStates, writeVars
  <2>. QED
    BY <1>2, <1>3, <2>1 DEF ConsoleInv, ConsoleType, ConsoleStates, inVars, readVars
<1>6. ConsoleFlags'
  BY <1>2, <1>3 DEF ConsoleInv, ConsoleType, ConsoleFlags, inVars
<1>7. ConsoleCounts'
  <2>1. wTail' \in Nat /\ wBytes' \in Nat /\ wResult' \in Nat
    <3>1. wTail \in Nat /\ wBytes \in Nat /\ wResult \in Nat
      BY DEF ConsoleInv, ConsoleType, ConsoleCounts
    <3>2. \/ wTail' = wTail /\ wBytes' = wBytes /\ wResult' = wResult
          \/ wResult' = 0 /\ wTail' \in Nat /\ wBytes' \in Nat
      BY <1>4 DEF writeVars
    <3>. QED
      BY <3>1, <3>2
  <2>. QED
    BY <1>1, <1>2, <2>1 DEF ConsoleInv, ConsoleType, ConsoleCounts, inVars, readVars
<1>8. OwnWindow'
  BY <1>2, <1>4 DEF ConsoleInv, OwnWindow, writeVars
<1>9. PacketHeld'
  <2>1. CASE UNCHANGED writeVars
    BY <2>1, <1>1, <1>2 DEF ConsoleInv, ConsoleType, ConsoleCounts, PacketHeld, writeVars
  <2>2. CASE /\ wState' = "sent" /\ wResult' = 0 /\ wBytes' \in Nat
             /\ wSource' = "launcher" /\ wBytes' <= Len(cMsgs)
    BY <2>2, <1>1, <1>2 DEF ConsoleInv, ConsoleType, ConsoleCounts, PacketHeld
  <2>3. CASE /\ wState' = "sent" /\ wResult' = 0 /\ wBytes' \in Nat
             /\ wSource' # "launcher" /\ wTail' = cTail /\ cTail + wBytes' <= cHead
    <3>1. (cTail <= cHead)' /\ (wResult <= wBytes)'
      BY <2>3, <1>2 DEF ConsoleInv, PacketHeld
    <3>2. wTail' + wBytes' <= cHead' /\ wTail' = cTail'
      BY <2>3, <1>2
    <3>. QED
      BY <2>3, <3>1, <3>2 DEF PacketHeld
  <2>. QED
    BY <1>4, <2>1, <2>2, <2>3
<1>10. OutputExact'
  <2>1. wState' # "done" \/ UNCHANGED writeVars
    BY <1>4
  <2>2. wState = "idle" \/ UNCHANGED writeVars
    BY DEF Drain, DrainSome
  <2>. QED
    BY <1>2, <2>1, <2>2 DEF ConsoleInv, OutputExact, writeVars
<1>11. InputHeld' /\ InputExact'
  BY <1>2, <1>3 DEF ConsoleInv, InputHeld, InputExact, inVars, readVars
<1>12. CleanEnd' /\ NoPacketOut' /\ ReserveKept'
  BY <1>1, <1>2, <1>3 DEF ConsoleInv, CleanEnd, NoPacketOut, ReserveKept, Kept
<1>. QED
  BY <1>5, <1>6, <1>7, <1>8, <1>9, <1>10, <1>11, <1>12 DEF ConsoleInv, ConsoleType

\* console_reap_packets
LEMMA ConsoleReap == ConsoleInv /\ Reap => ConsoleInv'
BY ConsoleReapRead, ConsoleReapWrite DEF Reap

\* A step that changes nothing here.
LEMMA ConsoleStutters == ConsoleInv /\ UNCHANGED consoleVars => ConsoleInv'
<1>. SUFFICES ASSUME ConsoleInv, UNCHANGED consoleVars PROVE ConsoleInv'
  OBVIOUS
<1>. USE DEF ConsoleInv, ConsoleType, consoleVars, outVars, inVars, writeVars, readVars
<1>1. ConsoleStates' /\ ConsoleCounts'
  BY DEF ConsoleStates, ConsoleCounts
<1>2. ConsoleFlags' /\ OwnWindow'
  BY DEF ConsoleFlags, OwnWindow
<1>3. PacketHeld' /\ InputHeld'
  BY DEF PacketHeld, InputHeld
<1>4. OutputExact' /\ InputExact'
  BY DEF OutputExact, InputExact
<1>5. CleanEnd' /\ NoPacketOut' /\ ReserveKept'
  BY DEF CleanEnd, NoPacketOut, ReserveKept
<1>. QED
  BY <1>1, <1>2, <1>3, <1>4, <1>5

\* Every step keeps the console's invariant.
LEMMA ConsoleSteps == ConsoleInv /\ [ConsoleNext]_consoleVars => ConsoleInv'
BY ConsoleAppPrints, ConsoleAppReads, ConsoleAppEnds, ConsoleTakeOver, ConsoleWriteDone,
   ConsoleReadDone, ConsoleBeginPass, ConsoleReap, ConsoleDrain, ConsoleFill, ConsoleLogPass,
   ConsoleDecideExit, ConsoleFinish, ConsoleStutters DEF ConsoleNext

\* After a clean end nothing that was printed is left.
LEMMA ConsoleSafeFrom == ConsoleInv => ConsoleSafe
BY DEF ConsoleInv, ConsoleSafe, CleanEnd, OutputComplete

\* The console of a program is served exactly and released safely.
THEOREM ConsoleIsSafe == ConsoleSpec => []ConsoleSafe
<1>1. ConsoleSpec => []ConsoleInv
  BY ConsoleBegins, ConsoleSteps, PTL DEF ConsoleSpec
<1>. QED
  BY <1>1, ConsoleSafeFrom, PTL

-----------------------------------------------------------------------------
(* ZzAhi: the sound of a program.                                          *)

Request == [bytes : Nat, of : Nat]
Places == {"pass", "rate", "opening", "head", "tail", "move", "send", "gone"}

HeaderTypes ==
  /\ uRoute \in BOOLEAN /\ uFresh \in BOOLEAN /\ uCrossed \in BOOLEAN
  /\ uEpoch \in Nat /\ uRate \in Rates /\ uHead \in Nat /\ uTail \in Nat
  /\ uStreams \in Nat /\ uPlayed \in Nat

DeviceTypes ==
  /\ uAt \in Places /\ uFailed \in BOOLEAN
  /\ uSeen \in Nat \X Nat /\ uPos \in Nat \X Nat
  /\ uOpen \in Nat /\ uStream \in Nat /\ uReqs \in Seq(Request) /\ uBack \in Nat

\* Requests are of the stream the launcher plays, at most two; none without a
\* stream, no stream without the device.
RequestsOwn ==
  /\ uBack <= Len(uReqs) /\ Len(uReqs) <= 2
  /\ \A i \in DOMAIN uReqs : uReqs[i].of = uStream
  /\ uStream = 0 => uReqs = <<>>
  /\ uOpen = 0 => uStream = 0

\* Epochs grow; from the rate on, a pass is one of no stream or of the epoch it
\* read, and past the head of that one.
PassPlace ==
  /\ uEpoch \in {0, uStreams} /\ uStream <= uStreams /\ uSeen[1] <= uStreams
  /\ uAt \notin {"pass", "gone"} => uSeen[1] # 0
  /\ uAt \in {"opening", "head"} => uStream \in {0, uSeen[1]}
  /\ uAt \in {"tail", "move", "send"} => uStream = uSeen[1]
  /\ uAt = "opening" => uSeen[2] # 0
  /\ uAt \in {"head", "tail", "move", "send"} => uOpen # 0

\* The positions of a stream nobody else wrote to: zero when it begins, then the
\* tail behind both the head and what has been played.
HeaderKept ==
  uCrossed = FALSE => /\ uEpoch = 0 /\ uFresh = TRUE => uHead = 0 /\ uTail = 0
                      /\ uEpoch # 0 => uTail <= uHead /\ uTail <= uPlayed

\* While the launcher plays that stream, what came back has been played, what is
\* out is in the ring, and a pass in its middle knows the tail.
StreamKept ==
  uEpoch # 0 /\ uStream = uEpoch /\ uCrossed = FALSE =>
    /\ uTail + Pending(Reaped(uReqs, uBack)) <= uPlayed
    /\ uTail + Pending(uReqs) <= uHead
    /\ uAt \in {"tail", "move", "send"} => uPos[1] <= uHead
    /\ uAt \in {"move", "send"} => uPos[2] = uTail

SoundInv == HeaderTypes /\ DeviceTypes /\ RequestsOwn /\ PassPlace /\ HeaderKept /\ StreamKept

\* A request has a length.
LEMMA RequestBytes ==
  ASSUME NEW q \in Seq(Request)
  PROVE  \A i \in DOMAIN q : q[i].bytes \in Nat
<1>1. \A i \in DOMAIN q : q[i] \in Request
  OBVIOUS
<1>2. \A r \in Request : r.bytes \in Nat
  BY DEF Request
<1>. QED
  BY <1>1, <1>2

\* What came back and what is out are all there is, at most two requests.
LEMMA RequestsSplit ==
  ASSUME NEW q \in Seq(Request), Len(q) <= 2, NEW back \in 0..Len(q)
  PROVE  /\ Out(q, back) \in Seq(Request) /\ Len(Out(q, back)) = Len(q) - back
         /\ Pending(q) \in Nat
         /\ Pending(Reaped(q, back)) \in Nat /\ Pending(Out(q, back)) \in Nat
         /\ Pending(q) = Pending(Reaped(q, back)) + Pending(Out(q, back))
         /\ \A i \in DOMAIN Out(q, back) : Out(q, back)[i] = q[back + i] /\ back + i \in DOMAIN q
<1> DEFINE Sums ==
             /\ Pending(q) \in Nat
             /\ Pending(Reaped(q, back)) \in Nat /\ Pending(Out(q, back)) \in Nat
             /\ Pending(q) = Pending(Reaped(q, back)) + Pending(Out(q, back))
<1>1. \A i \in DOMAIN q : q[i].bytes \in Nat
  BY RequestBytes
<1>2. /\ Out(q, back) \in Seq(Request) /\ Len(Out(q, back)) = Len(q) - back
      /\ \A i \in 1..(Len(q) - back) : Out(q, back)[i] = q[back + i] /\ back + i \in DOMAIN q
  BY DEF Out
<1>3. /\ Len(Reaped(q, back)) = back
      /\ \A i \in 1..back : Reaped(q, back)[i] = q[i]
  BY DEF Reaped
<1>4. Bytes(q, 1) \in Nat /\ Bytes(q, 2) \in Nat
  BY <1>1 DEF Bytes
<1>5. ASSUME back = 0 PROVE Sums
  <2>1. Bytes(Reaped(q, back), 1) = 0 /\ Bytes(Reaped(q, back), 2) = 0
    BY <1>3, <1>5 DEF Bytes
  <2>2. Bytes(Out(q, back), 1) = Bytes(q, 1) /\ Bytes(Out(q, back), 2) = Bytes(q, 2)
    BY <1>2, <1>5 DEF Bytes
  <2>. QED
    <3>1. Pending(Reaped(q, back)) = 0 /\ Pending(Out(q, back)) = Bytes(q, 1) + Bytes(q, 2)
      BY <1>4, <2>1, <2>2 DEF Pending
    <3>2. Pending(q) = Bytes(q, 1) + Bytes(q, 2)
      BY DEF Pending
    <3>. QED
      BY <1>4, <3>1, <3>2
<1>6. ASSUME back = 1 PROVE Sums
  <2>1. Bytes(Reaped(q, back), 1) = Bytes(q, 1) /\ Bytes(Reaped(q, back), 2) = 0
    BY <1>3, <1>6 DEF Bytes
  <2>2. Bytes(Out(q, back), 1) = Bytes(q, 2) /\ Bytes(Out(q, back), 2) = 0
    BY <1>2, <1>6 DEF Bytes
  <2>. QED
    <3>1. Pending(Reaped(q, back)) = Bytes(q, 1) /\ Pending(Out(q, back)) = Bytes(q, 2)
      BY <1>4, <2>1, <2>2 DEF Pending
    <3>2. Pending(q) = Bytes(q, 1) + Bytes(q, 2)
      BY DEF Pending
    <3>. QED
      BY <1>4, <3>1, <3>2
<1>7. ASSUME back = 2 PROVE Sums
  <2>1. Bytes(Reaped(q, back), 1) = Bytes(q, 1) /\ Bytes(Reaped(q, back), 2) = Bytes(q, 2)
    BY <1>3, <1>7 DEF Bytes
  <2>2. Bytes(Out(q, back), 1) = 0 /\ Bytes(Out(q, back), 2) = 0
    BY <1>2, <1>7 DEF Bytes
  <2>. QED
    <3>1. Pending(Reaped(q, back)) = Bytes(q, 1) + Bytes(q, 2) /\ Pending(Out(q, back)) = 0
      BY <1>4, <2>1, <2>2 DEF Pending
    <3>2. Pending(q) = Bytes(q, 1) + Bytes(q, 2)
      BY DEF Pending
    <3>. QED
      BY <1>4, <3>1, <3>2
<1>8. Sums
  BY <1>5, <1>6, <1>7
<1>. QED
  BY <1>2, <1>8

\* No request, no byte.
LEMMA NoRequest ==
  /\ <<>> \in Seq(Request) /\ Len(<<>>) = 0 /\ Pending(<<>>) = 0
  /\ Reaped(<<>>, 0) = <<>> /\ Out(<<>>, 0) = <<>>
BY DEF Pending, Bytes, Reaped, Out

\* A request more, of n bytes, adds them.
LEMMA PendingAppend ==
  ASSUME NEW q \in Seq(Request), Len(q) < 2, NEW n \in Nat, NEW e \in Nat
  PROVE  /\ Append(q, [bytes |-> n, of |-> e]) \in Seq(Request)
         /\ Pending(Append(q, [bytes |-> n, of |-> e])) = Pending(q) + n
<1>1. Len(q) = 0 \/ Len(q) = 1
  <2>1. Len(q) \in Nat
    OBVIOUS
  <2>2. \A k \in Nat : k < 2 => k = 0 \/ k = 1
    OBVIOUS
  <2>. QED
    BY <2>1, <2>2
<1> DEFINE new == [bytes |-> n, of |-> e]
           s == Append(q, new)
<1>2. new \in Request /\ new.bytes = n
  BY DEF Request
<1> HIDE DEF new
<1>3. /\ s \in Seq(Request) /\ Len(s) = Len(q) + 1 /\ s[Len(q) + 1] = new
      /\ \A i \in 1..Len(q) : s[i] = q[i]
  BY <1>2
<1>4. \A i \in DOMAIN q : q[i].bytes \in Nat
  BY RequestBytes
<1> HIDE DEF s
<1>5. Pending(s) = Pending(q) + n
  <2>1. CASE Len(q) = 0
    BY <1>2, <1>3, <2>1 DEF Pending, Bytes
  <2>2. CASE Len(q) = 1
    BY <1>2, <1>3, <1>4, <2>2 DEF Pending, Bytes
  <2>. QED
    BY <1>1, <2>1, <2>2
<1>. QED
  BY <1>3, <1>5 DEF s, new

\* One request more has come back.
LEMMA ReapedMore ==
  ASSUME NEW q \in Seq(Request), Len(q) <= 2, NEW back \in Nat, back < Len(q)
  PROVE  /\ Pending(Reaped(q, back + 1)) = Pending(Reaped(q, back)) + q[back + 1].bytes
         /\ Pending(Reaped(q, back)) \in Nat /\ q[back + 1].bytes \in Nat
<1>1. q[back + 1].bytes \in Nat /\ Len(q) \in Nat
  BY RequestBytes
<1>2. CASE back = 0
  <2>1. Pending(Reaped(q, 0)) = 0
    BY DEF Pending, Bytes, Reaped
  <2>2. Pending(Reaped(q, 1)) = q[1].bytes
    <3>1. Len(Reaped(q, 1)) = 1 /\ Reaped(q, 1)[1] = q[1]
      <4>1. 1 \in 0..Len(q)
        BY <1>1, <1>2
      <4>. QED
        BY <4>1 DEF Reaped
    <3>. QED
      BY <1>1, <1>2, <3>1 DEF Pending, Bytes
  <2>. QED
    BY <1>1, <1>2, <2>1, <2>2
<1>3. CASE back = 1
  <2>1. q[1].bytes \in Nat
    BY <1>3, RequestBytes
  <2>2. Pending(Reaped(q, 1)) = q[1].bytes
    <3>1. Len(Reaped(q, 1)) = 1 /\ Reaped(q, 1)[1] = q[1]
      <4>1. 1 \in 0..Len(q)
        BY <1>1, <1>3
      <4>. QED
        BY <4>1 DEF Reaped
    <3>. QED
      BY <2>1, <3>1 DEF Pending, Bytes
  <2>3. Pending(Reaped(q, 2)) = q[1].bytes + q[2].bytes
    <3>1. Len(Reaped(q, 2)) = 2 /\ Reaped(q, 2)[1] = q[1] /\ Reaped(q, 2)[2] = q[2]
      <4>1. 2 \in 0..Len(q)
        BY <1>1, <1>3
      <4>. QED
        BY <4>1 DEF Reaped
    <3>. QED
      BY <3>1 DEF Pending, Bytes
  <2>. QED
    BY <1>1, <1>3, <2>1, <2>2, <2>3
<1>4. back = 0 \/ back = 1
  BY <1>1
<1>. QED
  BY <1>2, <1>3, <1>4

\* Nothing that came back has no size.
LEMMA ReapedNone ==
  ASSUME NEW q \in Seq(Request)
  PROVE  Pending(Reaped(q, 0)) = 0
BY DEF Pending, Bytes, Reaped

\* What is sent has a size and is in the ring.
LEMMA SentLength ==
  ASSUME NEW head \in Nat, NEW staged \in Nat, head - staged \in 1..AudioCap
  PROVE  LET n == Fewer(BufUnits, Fewer(head - staged, AudioCap - (staged % AudioCap)))
         IN n \in Nat /\ n <= head - staged
BY SoundAssumption DEF Fewer

\* A request more is behind what came back, and its stream the last one's.
LEMMA AppendedLast ==
  ASSUME NEW q \in Seq(Request), Len(q) < 2, NEW n \in Nat, NEW e \in Nat, NEW back \in 0..Len(q)
  PROVE  LET s == Append(q, [bytes |-> n, of |-> e])
         IN /\ Pending(Reaped(s, back)) = Pending(Reaped(q, back))
            /\ Len(s) = Len(q) + 1
            /\ \A i \in DOMAIN s : (i \in DOMAIN q /\ s[i] = q[i]) \/ s[i].of = e
<1> DEFINE new == [bytes |-> n, of |-> e]
           s == Append(q, new)
<1>1. new \in Request /\ new.of = e
  BY DEF Request
<1> HIDE DEF new
<1>2. /\ s \in Seq(Request) /\ Len(s) = Len(q) + 1 /\ s[Len(q) + 1] = new
      /\ \A i \in 1..Len(q) : s[i] = q[i]
  BY <1>1
<1>3. \A i \in DOMAIN s : (i \in DOMAIN q /\ s[i] = q[i]) \/ s[i].of = e
  BY <1>1, <1>2
<1> HIDE DEF s
<1>4. Pending(Reaped(s, back)) = Pending(Reaped(q, back))
  <2>1. CASE back = 0
    BY <1>2, <2>1, ReapedNone
  <2>2. CASE back = 1
    <3>1. 1 \in 0..Len(q) /\ 1 \in 0..Len(s) /\ s[1] = q[1]
      BY <1>2, <2>2
    <3>2. /\ Len(Reaped(q, 1)) = 1 /\ Reaped(q, 1)[1] = q[1]
          /\ Len(Reaped(s, 1)) = 1 /\ Reaped(s, 1)[1] = q[1]
      BY <1>2, <3>1 DEF Reaped
    <3>. QED
      BY <2>2, <3>2 DEF Pending, Bytes
  <2>. QED
    <3>1. Len(q) \in Nat
      OBVIOUS
    <3>. QED
      BY <2>1, <2>2, <3>1
<1>. QED
  BY <1>2, <1>3, <1>4 DEF s, new

\* What is out and what came back has a size.
LEMMA SumsKnown ==
  ASSUME DeviceTypes, RequestsOwn
  PROVE  /\ Pending(uReqs) \in Nat /\ Pending(Reaped(uReqs, uBack)) \in Nat
         /\ Pending(Out(uReqs, uBack)) \in Nat /\ uBack \in 0..Len(uReqs)
         /\ Pending(uReqs) = Pending(Reaped(uReqs, uBack)) + Pending(Out(uReqs, uBack))
<1>1. uBack \in 0..Len(uReqs) /\ uReqs \in Seq(Request) /\ Len(uReqs) <= 2
  BY DEF DeviceTypes, RequestsOwn
<1>. QED
  BY <1>1, RequestsSplit

LEMMA SoundBegins == SoundInit => SoundInv
<1> SUFFICES ASSUME SoundInit PROVE SoundInv
  OBVIOUS
<1>1. HeaderTypes
  BY DEF SoundInit, HeaderTypes, Rates
<1>2. DeviceTypes
  BY NoRequest DEF SoundInit, DeviceTypes, Places
<1>3. RequestsOwn
  BY NoRequest DEF SoundInit, RequestsOwn
<1>4. PassPlace /\ HeaderKept
  BY DEF SoundInit, PassPlace, HeaderKept
<1>5. StreamKept
  BY DEF SoundInit, StreamKept
<1>. QED
  BY <1>1, <1>2, <1>3, <1>4, <1>5 DEF SoundInv

\* The program writes on: only the head moves.
LEMMA SoundPlays ==
  ASSUME SoundInv, Plays
  PROVE  SoundInv'
<1> USE DEF SoundInv
<1>1. /\ uEpoch # 0 /\ uHead' = uHead + 1
      /\ UNCHANGED <<uRoute, uEpoch, uRate, uTail, uFresh, uStreams, uCrossed, uPlayed>>
      /\ UNCHANGED <<uAt, uSeen, uPos, uOpen, uStream, uReqs, uBack, uFailed>>
  BY DEF Plays, passVars, devVars
<1>2. HeaderTypes'
  BY <1>1 DEF HeaderTypes
<1>3. DeviceTypes' /\ RequestsOwn' /\ PassPlace'
  BY <1>1 DEF DeviceTypes, RequestsOwn, PassPlace
<1>4. HeaderKept'
  BY <1>1 DEF HeaderKept, HeaderTypes
<1>5. StreamKept'
  BY <1>1, SumsKnown DEF StreamKept, HeaderTypes, DeviceTypes
<1>. QED
  BY <1>2, <1>3, <1>4, <1>5

\* The epoch goes to zero; then the positions do; then the epoch is one nothing
\* has seen before.
LEMMA SoundNewStream ==
  ASSUME SoundInv, NewStream
  PROVE  SoundInv'
<1> USE DEF SoundInv
<1>1. UNCHANGED <<uAt, uSeen, uPos, uOpen, uStream, uReqs, uBack, uFailed>>
  BY DEF NewStream, passVars, devVars
<1>2. DeviceTypes' /\ RequestsOwn'
  BY <1>1 DEF DeviceTypes, RequestsOwn
<1>3. CASE /\ uEpoch' = 0 /\ uFresh' = FALSE
           /\ UNCHANGED <<uRoute, uRate, uHead, uTail, uStreams, uCrossed, uPlayed>>
  BY <1>1, <1>2, <1>3 DEF HeaderTypes, PassPlace, HeaderKept, StreamKept
<1>4. CASE /\ uFresh' = TRUE /\ uRoute' = TRUE /\ uRate' \in Rates /\ uHead' = 0 /\ uTail' = 0
           /\ uCrossed' = FALSE /\ uEpoch = 0 /\ UNCHANGED <<uEpoch, uStreams, uPlayed>>
  BY <1>1, <1>2, <1>4 DEF HeaderTypes, PassPlace, HeaderKept, StreamKept
<1>5. CASE /\ uEpoch = 0 /\ uFresh = TRUE /\ uEpoch' = uStreams + 1 /\ uStreams' = uStreams + 1
           /\ uPlayed' = 0 /\ UNCHANGED <<uRoute, uRate, uHead, uTail, uFresh, uCrossed>>
  <2>1. HeaderTypes'
    BY <1>5 DEF HeaderTypes
  <2>2. PassPlace'
    BY <1>1, <1>5 DEF PassPlace, HeaderTypes, DeviceTypes
  <2>3. HeaderKept'
    BY <1>5 DEF HeaderKept
  <2>4. StreamKept'
    <3>1. uStream' # uEpoch'
      BY <1>1, <1>5 DEF PassPlace, HeaderTypes, DeviceTypes
    <3>. QED
      BY <3>1 DEF StreamKept
  <2>. QED
    BY <1>2, <2>1, <2>2, <2>3, <2>4
<1>. QED
  BY <1>3, <1>4, <1>5 DEF NewStream, HeaderTypes

LEMMA SoundCloseSound ==
  ASSUME SoundInv, CloseSound
  PROVE  SoundInv'
<1> USE DEF SoundInv
<1>1. /\ uRoute' = FALSE
      /\ UNCHANGED <<uHead, uEpoch, uRate, uTail, uFresh, uStreams, uCrossed, uPlayed>>
      /\ UNCHANGED <<uAt, uSeen, uPos, uOpen, uStream, uReqs, uBack, uFailed>>
  BY DEF CloseSound, passVars, devVars
<1>2. HeaderTypes' /\ DeviceTypes'
  BY <1>1 DEF HeaderTypes, DeviceTypes
<1>3. RequestsOwn' /\ PassPlace' /\ HeaderKept'
  BY <1>1 DEF RequestsOwn, PassPlace, HeaderKept
<1>4. StreamKept'
  BY <1>1 DEF StreamKept
<1>. QED
  BY <1>2, <1>3, <1>4

\* A request that has been played comes back.
LEMMA SoundReturns ==
  ASSUME SoundInv, Returns
  PROVE  SoundInv'
<1> USE DEF SoundInv
<1>1. /\ uBack < Len(uReqs) /\ uBack' = uBack + 1
      /\ uPlayed' = IF uReqs[uBack + 1].of = uEpoch THEN uPlayed + uReqs[uBack + 1].bytes
                    ELSE uPlayed
      /\ UNCHANGED <<uRoute, uEpoch, uRate, uHead, uTail, uFresh, uStreams, uCrossed>>
      /\ UNCHANGED <<uAt, uSeen, uPos, uOpen, uStream, uReqs, uFailed>>
  BY DEF Returns, hdrVars, passVars
<1>2. /\ uReqs \in Seq(Request) /\ uBack \in Nat /\ Len(uReqs) <= 2 /\ Len(uReqs) \in Nat
      /\ uPlayed \in Nat
  BY DEF DeviceTypes, RequestsOwn, HeaderTypes
<1>3. uBack + 1 \in DOMAIN uReqs /\ uBack \in 0..(Len(uReqs) - 1)
  BY <1>1, <1>2
<1>4. uReqs[uBack + 1].bytes \in Nat /\ uReqs[uBack + 1].of = uStream
  BY <1>2, <1>3, RequestBytes DEF RequestsOwn
<1>5. Pending(Reaped(uReqs, uBack + 1)) = Pending(Reaped(uReqs, uBack)) + uReqs[uBack + 1].bytes
  BY <1>2, <1>3, ReapedMore
<1>6. uPlayed' \in Nat /\ uPlayed <= uPlayed'
  BY <1>1, <1>2, <1>4
<1>7. HeaderTypes' /\ DeviceTypes'
  <2>1. uBack' \in Nat
    BY <1>1, <1>2
  <2>. QED
    BY <1>1, <1>6, <2>1 DEF HeaderTypes, DeviceTypes
<1>8. RequestsOwn'
  <2>1. uBack' <= Len(uReqs')
    BY <1>1, <1>2
  <2>. QED
    BY <1>1, <2>1 DEF RequestsOwn
<1>9. PassPlace'
  BY <1>1 DEF PassPlace
<1>10. HeaderKept'
  BY <1>1, <1>2, <1>6 DEF HeaderKept, HeaderTypes
<1>11. StreamKept'
  <2> SUFFICES ASSUME uEpoch # 0, uStream = uEpoch, uCrossed = FALSE
               PROVE  /\ uTail + Pending(Reaped(uReqs, uBack + 1)) <= uPlayed'
                      /\ uTail + Pending(uReqs) <= uHead
                      /\ uAt \in {"tail", "move", "send"} => uPos[1] <= uHead
                      /\ uAt \in {"move", "send"} => uPos[2] = uTail
    BY <1>1 DEF StreamKept
  <2>1. uPlayed' = uPlayed + uReqs[uBack + 1].bytes
    BY <1>1, <1>4
  <2>2. uTail + Pending(Reaped(uReqs, uBack)) <= uPlayed
    BY DEF StreamKept
  <2>3. uTail + Pending(Reaped(uReqs, uBack + 1)) <= uPlayed'
    <3>1. uTail \in Nat /\ Pending(Reaped(uReqs, uBack)) \in Nat
      BY SumsKnown DEF HeaderTypes
    <3>. QED
      BY <1>2, <1>4, <1>5, <2>1, <2>2, <3>1
  <2>. QED
    BY <2>3 DEF StreamKept
<1>. QED
  BY <1>7, <1>8, <1>9, <1>10, <1>11

\* Requests are ended and waited for, and nothing else is changed but the
\* device, which plays no stream then.
LEMMA SoundDropped ==
  ASSUME SoundInv, uReqs' = <<>>, uBack' = 0, uStream' = 0, DeviceTypes', PassPlace',
         UNCHANGED <<uRoute, uEpoch, uRate, uHead, uTail, uFresh, uStreams, uCrossed, uPlayed>>
  PROVE  SoundInv'
<1>1. HeaderTypes' /\ HeaderKept'
  BY DEF SoundInv, HeaderTypes, HeaderKept
<1>2. RequestsOwn'
  BY NoRequest DEF RequestsOwn
<1>3. StreamKept'
  BY DEF StreamKept
<1>. QED
  BY <1>1, <1>2, <1>3 DEF SoundInv

LEMMA SoundCloseDevice ==
  ASSUME SoundInv, CloseDevice
  PROVE  SoundInv'
<1>1. /\ uAt = "pass" /\ uOpen' = 0 /\ uStream' = 0 /\ uReqs' = <<>> /\ uBack' = 0
      /\ uAt' \in {"pass", "gone"} /\ UNCHANGED <<uSeen, uPos, uFailed>>
      /\ UNCHANGED <<uRoute, uEpoch, uRate, uHead, uTail, uFresh, uStreams, uCrossed, uPlayed>>
  BY DEF CloseDevice, AbortPending, hdrVars
<1>2. DeviceTypes'
  BY <1>1, NoRequest DEF SoundInv, DeviceTypes, Places
<1>3. PassPlace'
  BY <1>1 DEF SoundInv, PassPlace, HeaderTypes
<1>. QED
  BY <1>1, <1>2, <1>3, SoundDropped

\* The header is only read and nothing of the device but its rate changes.
LEMMA SoundReads ==
  ASSUME SoundInv, DeviceTypes', PassPlace', UNCHANGED <<uStream, uReqs, uBack>>,
         uOpen' = 0 => uOpen = 0,
         uAt' \notin {"tail", "move", "send"},
         UNCHANGED <<uRoute, uEpoch, uRate, uHead, uTail, uFresh, uStreams, uCrossed, uPlayed>>
  PROVE  SoundInv'
<1>1. HeaderTypes' /\ HeaderKept'
  BY DEF SoundInv, HeaderTypes, HeaderKept
<1>2. RequestsOwn'
  BY DEF SoundInv, RequestsOwn
<1>3. StreamKept'
  BY DEF SoundInv, StreamKept
<1>. QED
  BY <1>1, <1>2, <1>3 DEF SoundInv

LEMMA SoundPasses ==
  ASSUME SoundInv, SoundPass
  PROVE  SoundInv'
<1>1. /\ uEpoch # 0 /\ uAt' = "rate" /\ uSeen' = <<uEpoch, 0>>
      /\ UNCHANGED <<uPos, uOpen, uStream, uReqs, uBack, uFailed>>
      /\ UNCHANGED <<uRoute, uEpoch, uRate, uHead, uTail, uFresh, uStreams, uCrossed, uPlayed>>
  BY DEF SoundPass, hdrVars, devVars
<1>2. DeviceTypes'
  BY <1>1 DEF SoundInv, DeviceTypes, HeaderTypes, Places
<1>3. PassPlace'
  BY <1>1 DEF SoundInv, PassPlace, HeaderTypes
<1>. QED
  BY <1>1, <1>2, <1>3, SoundReads

LEMMA SoundReadRate ==
  ASSUME SoundInv, ReadRate
  PROVE  SoundInv'
<1>1. /\ uAt = "rate" /\ uSeen' = <<uSeen[1], uRate>> /\ UNCHANGED <<uPos, uFailed>>
      /\ UNCHANGED <<uRoute, uEpoch, uRate, uHead, uTail, uFresh, uStreams, uCrossed, uPlayed>>
      /\ uAt' \in {"pass", "opening", "head"} /\ (uAt' = "head" => uOpen' # 0)
  BY DEF ReadRate, hdrVars
<1>2. uSeen'[1] = uSeen[1] /\ uSeen'[2] \in {1, 2} /\ uSeen' \in Nat \X Nat
  BY <1>1 DEF SoundInv, HeaderTypes, DeviceTypes, Rates
<1>3. CASE Replaced(uSeen[1])
  <2>1. /\ uReqs' = <<>> /\ uBack' = 0 /\ uStream' = 0 /\ uOpen' \in {0, uOpen}
    BY <1>3 DEF ReadRate, AbortPending
  <2>2. DeviceTypes'
    BY <1>1, <1>2, <2>1, NoRequest DEF SoundInv, DeviceTypes, Places
  <2>3. PassPlace'
    BY <1>1, <1>2, <2>1 DEF SoundInv, PassPlace, HeaderTypes
  <2>. QED
    BY <1>1, <2>1, <2>2, <2>3, SoundDropped
<1>4. CASE ~Replaced(uSeen[1])
  <2>1. UNCHANGED <<uOpen, uStream, uReqs, uBack>> /\ uStream \in {0, uSeen[1]}
    BY <1>4 DEF ReadRate, Replaced
  <2>2. DeviceTypes'
    BY <1>1, <1>2, <2>1 DEF SoundInv, DeviceTypes, Places
  <2>3. PassPlace'
    BY <1>1, <1>2, <2>1 DEF SoundInv, PassPlace
  <2>. QED
    BY <1>1, <2>1, <2>2, <2>3, SoundReads
<1>. QED
  BY <1>3, <1>4

LEMMA SoundOpenDevice ==
  ASSUME SoundInv, OpenDevice
  PROVE  SoundInv'
<1>1. /\ uAt = "opening" /\ UNCHANGED <<uStream, uReqs, uBack>>
      /\ UNCHANGED <<uRoute, uEpoch, uRate, uHead, uTail, uFresh, uStreams, uCrossed, uPlayed>>
      /\ \/ uOpen' = uSeen[2] /\ uAt' = "head" /\ UNCHANGED <<uSeen, uPos, uFailed>>
         \/ /\ uFailed' = TRUE /\ uAt' = "pass" /\ uSeen' = <<0, 0>> /\ uPos' = <<0, 0>>
            /\ UNCHANGED uOpen
  BY DEF OpenDevice, PassEnds, hdrVars
<1>2. uSeen[2] \in Nat /\ uSeen[2] # 0
  BY <1>1 DEF SoundInv, DeviceTypes, PassPlace
<1>3. DeviceTypes'
  <2>1. /\ uAt \in Places /\ uFailed \in BOOLEAN /\ uSeen \in Nat \X Nat /\ uPos \in Nat \X Nat
        /\ uOpen \in Nat /\ uStream \in Nat /\ uReqs \in Seq(Request) /\ uBack \in Nat
    BY DEF SoundInv, DeviceTypes
  <2>2. uAt' \in Places /\ uFailed' \in BOOLEAN
    BY <1>1, <2>1 DEF Places
  <2>3. uSeen' \in Nat \X Nat /\ uPos' \in Nat \X Nat
    BY <1>1, <2>1
  <2>4. uOpen' \in Nat
    BY <1>1, <1>2, <2>1
  <2>. QED
    BY <1>1, <2>1, <2>2, <2>3, <2>4 DEF DeviceTypes
<1>4. PassPlace'
  BY <1>1, <1>2 DEF SoundInv, PassPlace, HeaderTypes
<1>. QED
  BY <1>1, <1>2, <1>3, <1>4, SoundReads

\* The launcher takes up the stream it read the epoch of, with no request of
\* another one out.
LEMMA SoundReadHead ==
  ASSUME SoundInv, ReadHead
  PROVE  SoundInv'
<1> USE DEF SoundInv
<1>1. /\ uAt = "head" /\ uAt' = "tail" /\ uStream' = uSeen[1] /\ uPos' = <<uHead, 0>>
      /\ UNCHANGED <<uSeen, uOpen, uReqs, uBack, uFailed>>
      /\ UNCHANGED <<uRoute, uEpoch, uRate, uHead, uTail, uFresh, uStreams, uCrossed, uPlayed>>
  BY DEF ReadHead, hdrVars
<1>2. uStream \in {0, uSeen[1]} /\ uSeen[1] # 0 /\ uOpen # 0 /\ uSeen[1] \in Nat
  BY <1>1 DEF PassPlace, DeviceTypes
<1>3. uStream = 0 => uReqs = <<>> /\ uBack = 0
  BY NoRequest DEF RequestsOwn, DeviceTypes
<1>4. HeaderTypes' /\ HeaderKept'
  BY <1>1 DEF HeaderTypes, HeaderKept
<1>5. DeviceTypes'
  BY <1>1, <1>2 DEF DeviceTypes, HeaderTypes, Places
<1>6. RequestsOwn'
  BY <1>1, <1>2, <1>3, NoRequest DEF RequestsOwn
<1>7. PassPlace'
  BY <1>1, <1>2 DEF PassPlace
<1>8. StreamKept'
  <2> SUFFICES ASSUME uEpoch # 0, uSeen[1] = uEpoch, uCrossed = FALSE
               PROVE  /\ uTail + Pending(Reaped(uReqs, uBack)) <= uPlayed
                      /\ uTail + Pending(uReqs) <= uHead
                      /\ uPos'[1] <= uHead
    BY <1>1 DEF StreamKept
  <2>1. uPos'[1] <= uHead
    BY <1>1 DEF HeaderTypes
  <2>2. CASE uStream = 0
    <3>1. Pending(uReqs) = 0 /\ Pending(Reaped(uReqs, uBack)) = 0
      BY <1>3, <2>2, NoRequest
    <3>. QED
      BY <2>1, <3>1 DEF HeaderKept, HeaderTypes
  <2>3. CASE uStream = uSeen[1]
    BY <2>1, <2>3 DEF StreamKept
  <2>. QED
    BY <1>2, <2>2, <2>3
<1>. QED
  BY <1>4, <1>5, <1>6, <1>7, <1>8

LEMMA SoundReadTail ==
  ASSUME SoundInv, ReadTail
  PROVE  SoundInv'
<1>1. /\ uAt = "tail" /\ UNCHANGED <<uOpen, uStream, uReqs, uBack, uFailed>>
      /\ UNCHANGED <<uRoute, uEpoch, uRate, uHead, uTail, uFresh, uStreams, uCrossed, uPlayed>>
  BY DEF ReadTail, hdrVars, devVars
<1>2. CASE uAt' = "move" /\ uPos' = <<uPos[1], uTail>> /\ UNCHANGED uSeen
  <2>1. uPos' \in Nat \X Nat /\ uPos'[1] = uPos[1] /\ uPos'[2] = uTail
    BY <1>2 DEF SoundInv, DeviceTypes, HeaderTypes
  <2>2. HeaderTypes' /\ HeaderKept'
    BY <1>1 DEF SoundInv, HeaderTypes, HeaderKept
  <2>3. DeviceTypes' /\ RequestsOwn'
    BY <1>1, <1>2, <2>1 DEF SoundInv, DeviceTypes, RequestsOwn, Places
  <2>4. PassPlace'
    BY <1>1, <1>2 DEF SoundInv, PassPlace
  <2>5. StreamKept'
    BY <1>1, <1>2, <2>1 DEF SoundInv, StreamKept
  <2>. QED
    BY <2>2, <2>3, <2>4, <2>5 DEF SoundInv
<1>3. CASE PassEnds
  <2>1. uAt' = "pass" /\ uSeen' = <<0, 0>> /\ uPos' = <<0, 0>>
    BY <1>3 DEF PassEnds
  <2>2. DeviceTypes'
    BY <1>1, <2>1 DEF SoundInv, DeviceTypes, Places
  <2>3. PassPlace'
    BY <1>1, <2>1 DEF SoundInv, PassPlace, HeaderTypes
  <2>. QED
    BY <1>1, <2>1, <2>2, <2>3, SoundReads
<1>. QED
  BY <1>2, <1>3 DEF ReadTail

\* The tail moves over what came back.  If the header is another stream's by
\* now, that one is crossed.
LEMMA SoundMoveTail ==
  ASSUME SoundInv, MoveTail
  PROVE  SoundInv'
<1> USE DEF SoundInv
<1> DEFINE tail == uPos[2] + Pending(Reaped(uReqs, uBack))
           out == Out(uReqs, uBack)
<1>1. /\ uAt = "move" /\ uAt' = "send" /\ uPos' = <<uPos[1], tail>>
      /\ uTail' = IF uBack > 0 THEN tail ELSE uTail
      /\ uReqs' = out /\ uBack' = 0
      /\ UNCHANGED <<uRoute, uEpoch, uRate, uHead, uFresh, uStreams, uSeen, uOpen, uStream>>
      /\ UNCHANGED <<uFailed, uPlayed>>
  BY DEF MoveTail
<1>2. uCrossed' = TRUE \/ (uCrossed' = uCrossed /\ (uBack = 0 \/ uEpoch = uStream))
  <2>1. uCrossed' = (uCrossed \/ (uBack > 0 /\ uEpoch # uStream))
    BY DEF MoveTail
  <2>2. uCrossed \in BOOLEAN /\ uBack \in Nat
    BY DEF DeviceTypes, HeaderTypes
  <2>3. CASE uBack > 0 /\ uEpoch # uStream
    BY <2>1, <2>3
  <2>4. CASE ~(uBack > 0 /\ uEpoch # uStream)
    <3>1. uBack = 0 \/ uEpoch = uStream
      BY <2>2, <2>4
    <3>2. uCrossed' = uCrossed
      BY <2>1, <2>2, <2>4, Zenon
    <3>. QED
      BY <3>1, <3>2
  <2>. QED
    BY <2>3, <2>4
<1>3. /\ uReqs \in Seq(Request) /\ uBack \in 0..Len(uReqs) /\ Len(uReqs) <= 2
      /\ uPos[1] \in Nat /\ uPos[2] \in Nat /\ uTail \in Nat
      /\ uStream = uSeen[1] /\ uSeen[1] # 0
  BY <1>1, SumsKnown DEF DeviceTypes, RequestsOwn, HeaderTypes, PassPlace
<1>4. /\ out \in Seq(Request) /\ Len(out) <= 2 /\ Len(out) \in Nat
      /\ \A i \in DOMAIN out : out[i].of = uStream
  <2>1. out \in Seq(Request) /\ Len(out) = Len(uReqs) - uBack
    BY <1>3, RequestsSplit
  <2>2. \A i \in DOMAIN out : out[i] = uReqs[uBack + i] /\ uBack + i \in DOMAIN uReqs
    BY <1>3, RequestsSplit
  <2>. QED
    BY <1>3, <2>1, <2>2 DEF RequestsOwn
<1>5. tail \in Nat /\ uTail' \in Nat /\ (uBack = 0 => tail = uPos[2])
  <2>1. uBack = 0 => Pending(Reaped(uReqs, uBack)) = 0
    BY <1>3, ReapedNone
  <2>. QED
    BY <1>1, <1>3, <2>1, SumsKnown
<1>6. HeaderTypes'
  BY <1>1, <1>2, <1>5 DEF HeaderTypes
<1>7. DeviceTypes'
  BY <1>1, <1>3, <1>4, <1>5 DEF DeviceTypes, Places
<1>8. RequestsOwn'
  <2>1. uStream # 0 /\ uOpen # 0
    BY <1>1, <1>3 DEF PassPlace
  <2>. QED
    BY <1>1, <1>4, <2>1 DEF RequestsOwn
<1>9. PassPlace'
  BY <1>1 DEF PassPlace
<1>10. ASSUME uCrossed' = FALSE
       PROVE  /\ uBack = 0 \/ uEpoch # 0
              /\ uBack = 0 \/ uEpoch = uStream
              /\ uCrossed = FALSE
  BY <1>2, <1>3, <1>10
<1>11. ASSUME uCrossed' = FALSE, uEpoch # 0, uStream = uEpoch
       PROVE  /\ uTail' = tail /\ uTail' <= uPlayed /\ uTail' + Pending(out) <= uHead
              /\ uTail' <= uHead /\ uPos[1] <= uHead
  <2>1. /\ uPos[2] = uTail /\ uPos[1] <= uHead
        /\ uTail + Pending(Reaped(uReqs, uBack)) <= uPlayed /\ uTail + Pending(uReqs) <= uHead
    BY <1>1, <1>10, <1>11 DEF StreamKept
  <2>2. uTail' = tail
    BY <1>1, <1>3, <1>5, <2>1
  <2>. QED
    BY <1>3, <2>1, <2>2, SumsKnown DEF HeaderTypes
<1>12. HeaderKept'
  <2>1. ASSUME uCrossed' = FALSE, uBack = 0
        PROVE  /\ uEpoch' = 0 /\ uFresh' = TRUE => uHead' = 0 /\ uTail' = 0
               /\ uEpoch' # 0 => uTail' <= uHead' /\ uTail' <= uPlayed'
    <3>1. uTail' = uTail
      BY <1>1, <2>1
    <3>. QED
      BY <1>1, <1>10, <2>1, <3>1 DEF HeaderKept
  <2>2. ASSUME uCrossed' = FALSE, uBack # 0
        PROVE  uEpoch' # 0 /\ uTail' <= uHead' /\ uTail' <= uPlayed'
    BY <1>1, <1>10, <1>11, <2>2
  <2>. QED
    BY <2>1, <2>2 DEF HeaderKept
<1>13. StreamKept'
  <2>1. Pending(Reaped(uReqs', uBack')) = 0
    BY <1>1, <1>4, ReapedNone
  <2>2. uPos'[1] = uPos[1] /\ uPos'[2] = tail
    BY <1>1
  <2>3. UNCHANGED <<uEpoch, uStream, uHead, uPlayed>> /\ uReqs' = out
    BY <1>1
  <2>4. uTail' \in Nat
    BY <1>5
  <2>5. \A x \in Nat : x + 0 = x
    OBVIOUS
  <2> HIDE DEF tail, out
  <2> SUFFICES ASSUME uEpoch # 0, uStream = uEpoch, uCrossed' = FALSE
               PROVE  /\ uTail' + Pending(Reaped(uReqs', uBack')) <= uPlayed'
                      /\ uTail' + Pending(uReqs') <= uHead'
                      /\ uPos'[1] <= uHead' /\ uPos'[2] = uTail'
    BY <2>3 DEF StreamKept
  <2>. QED
    <3>1. /\ uTail' = tail /\ uTail' <= uPlayed /\ uTail' + Pending(out) <= uHead
          /\ uPos[1] <= uHead
      BY <1>11
    <3>2. uTail' + 0 = uTail'
      BY <2>4, <2>5
    <3>. QED
      BY <2>1, <2>2, <2>3, <3>1, <3>2
<1>. QED
  BY <1>6, <1>7, <1>8, <1>9, <1>12, <1>13

\* A request more, if there is something to send and one is free.
LEMMA SoundSendSound ==
  ASSUME SoundInv, SendSound
  PROVE  SoundInv'
<1> USE DEF SoundInv
<1> DEFINE staged == uPos[2] + Pending(uReqs)
           n == Fewer(BufUnits, Fewer(uPos[1] - staged, AudioCap - (staged % AudioCap)))
<1>1. /\ uAt = "send" /\ uAt' = "pass" /\ uSeen' = <<0, 0>> /\ uPos' = <<0, 0>>
      /\ UNCHANGED <<uOpen, uStream, uBack, uFailed>>
      /\ UNCHANGED <<uRoute, uEpoch, uRate, uHead, uTail, uFresh, uStreams, uCrossed, uPlayed>>
  BY DEF SendSound, PassEnds, hdrVars
<1>2. uStream # 0 /\ uOpen # 0
  BY <1>1 DEF PassPlace
<1>3. PassPlace'
  BY <1>1 DEF PassPlace, HeaderTypes
<1>4. CASE uReqs' = uReqs
  <2>1. DeviceTypes'
    BY <1>1, <1>4 DEF DeviceTypes, Places
  <2>. QED
    BY <1>1, <1>3, <1>4, <2>1, SoundReads
<1>5. CASE /\ uPos[1] - staged \in 1 .. AudioCap /\ Len(uReqs) < 2
           /\ uReqs' = Append(uReqs, [bytes |-> n, of |-> uStream])
  <2>1. /\ uReqs \in Seq(Request) /\ Len(uReqs) \in Nat /\ uBack \in 0..Len(uReqs)
        /\ staged \in Nat /\ uPos[1] \in Nat /\ uStream \in Nat
        /\ uPos[2] \in Nat
    BY SumsKnown DEF DeviceTypes
  <2>2. n \in Nat /\ n <= uPos[1] - staged
    BY <1>5, <2>1, SoundAssumption, SentLength
  <2> HIDE DEF staged, n
  <2>3. uReqs' \in Seq(Request) /\ Pending(uReqs') = Pending(uReqs) + n
    BY <1>5, <2>1, <2>2, PendingAppend
  <2>4. /\ Pending(Reaped(uReqs', uBack')) = Pending(Reaped(uReqs, uBack))
        /\ Len(uReqs') = Len(uReqs) + 1
        /\ \A i \in DOMAIN uReqs' :
             (i \in DOMAIN uReqs /\ uReqs'[i] = uReqs[i]) \/ uReqs'[i].of = uStream
    BY <1>1, <1>5, <2>1, <2>2, AppendedLast
  <2>5. HeaderTypes' /\ HeaderKept'
    BY <1>1 DEF HeaderTypes, HeaderKept
  <2>6. DeviceTypes'
    BY <1>1, <2>3 DEF DeviceTypes, Places
  <2>7. RequestsOwn'
    <3>1. uBack' <= Len(uReqs') /\ Len(uReqs') <= 2
      BY <1>1, <1>5, <2>1, <2>4
    <3>2. \A i \in DOMAIN uReqs' : uReqs'[i].of = uStream
      BY <2>4 DEF RequestsOwn
    <3>. QED
      BY <1>1, <1>2, <3>1, <3>2 DEF RequestsOwn
  <2>8. StreamKept'
    <3> SUFFICES ASSUME uEpoch # 0, uStream = uEpoch, uCrossed = FALSE
                 PROVE  uTail + Pending(uReqs') <= uHead
      BY <1>1, <2>4 DEF StreamKept
    <3>1. uPos[1] <= uHead /\ uPos[2] = uTail
      BY <1>1 DEF StreamKept
    <3>2. uTail + Pending(uReqs) + n <= uPos[1]
      BY <2>1, <2>2, <3>1, SumsKnown DEF staged
    <3>. QED
      <4>1. uTail \in Nat /\ uHead \in Nat /\ Pending(uReqs) \in Nat
        BY SumsKnown DEF HeaderTypes
      <4>. QED
        BY <2>1, <2>2, <2>3, <3>1, <3>2, <4>1
  <2>. QED
    BY <1>3, <2>5, <2>6, <2>7, <2>8
<1>. QED
  BY <1>4, <1>5 DEF SendSound

LEMMA SoundStutters == SoundInv /\ UNCHANGED soundVars => SoundInv'
<1>. SUFFICES ASSUME SoundInv, UNCHANGED soundVars PROVE SoundInv'
  OBVIOUS
<1>. USE DEF SoundInv, soundVars, hdrVars, passVars, devVars
<1>1. HeaderTypes' /\ DeviceTypes'
  BY DEF HeaderTypes, DeviceTypes
<1>2. RequestsOwn' /\ PassPlace' /\ HeaderKept'
  BY DEF RequestsOwn, PassPlace, HeaderKept
<1>3. StreamKept'
  BY DEF StreamKept
<1>. QED
  BY <1>1, <1>2, <1>3

\* Every step keeps the sound's invariant.
LEMMA SoundSteps == SoundInv /\ [SoundNext]_soundVars => SoundInv'
BY SoundPlays, SoundNewStream, SoundCloseSound, SoundReturns, SoundCloseDevice, SoundPasses,
   SoundReadRate, SoundOpenDevice, SoundReadHead, SoundReadTail, SoundMoveTail, SoundSendSound,
   SoundStutters DEF SoundNext

\* The invariant is enough: what came back but is not yet in the tail has a size.
LEMMA SoundEnough == SoundInv => SoundSafe
<1>. SUFFICES ASSUME SoundInv PROVE SoundSafe
  OBVIOUS
<1>1. TailPlayed
  BY DEF SoundInv, TailPlayed, HeaderKept, HeaderTypes
<1>2. SentOnce
  BY DEF SoundInv, SentOnce, StreamKept, RequestsOwn, HeaderTypes
<1>3. ClosedIdle
  BY DEF SoundInv, ClosedIdle, RequestsOwn
<1>. QED
  BY <1>1, <1>2, <1>3 DEF SoundSafe

\* A stream of sound is played once, in order, and accounted for, whatever the
\* program does between two accesses to the header - but for a stream that began
\* in the middle of a pass on the one before, whose tail that pass may write.
THEOREM SoundIsSafe == SoundSpec => []SoundSafe
BY SoundBegins, SoundSteps, SoundEnough, PTL DEF SoundSpec

\* The same of console and sound together.
THEOREM StreamsAreSafe == ConsoleSpec /\ SoundSpec => []StreamsSafe
BY ConsoleIsSafe, SoundIsSafe, PTL DEF StreamsSafe
=============================================================================
