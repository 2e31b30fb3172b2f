------------------------------ MODULE NetMcast ------------------------------
(***************************************************************************)
(* SANA-II multicast membership of ZZ9000Net.device (net/mcast.c): a table *)
(* of joined groups with reference counts, mirrored into the 64-bucket     *)
(* hash filter of the card.  Two groups may share a bucket, so a bucket is *)
(* set with its first group and cleared with its last.  Every update runs  *)
(* under db_McastSem (zznet_mcast_change), so it is one step.              *)
(***************************************************************************)
EXTENDS Naturals, FiniteSets

CONSTANTS Groups,      \* group addresses the openers use
          Hash(_),     \* bucket of an address
          MaxEntries,  \* ZZNET_MCAST_MAX
          RefMax,      \* largest reference count (0xffff)
          Openers      \* tasks that open the device

ASSUME GroupsAssumption  == \A g \in Groups : Hash(g) \in 0..63
ASSUME EntriesAssumption == MaxEntries \in Nat
ASSUME RefMaxAssumption  == RefMax \in Nat \ {0}

Idx == 1..MaxEntries
ZeroAddr == "zero"     \* a wiped entry
Results == {"OK", "NO_RESOURCES", "NOT_SUPPORTED", "BAD_STATE"}

VARIABLES
  capable,  \* CAP_MCAST_HASH of the firmware
  addr,     \* entry[i].addr
  refs,     \* entry[i].refs
  count,    \* m->count
  hw,       \* the buckets set in the card's filter
  opened,   \* the openers
  joined,   \* history: successful joins less successful leaves per group
  result    \* io_Error of the last table update

table == <<addr, refs, count>>
vars == <<capable, addr, refs, count, hw, opened, joined, result>>

-----------------------------------------------------------------------------
\* zznet_mcast_same on a live entry
Holds(i, g) == refs[i] # 0 /\ addr[i] = g

\* zznet_mcast_is_member; zznet_mcast_rx_plan lets the framer look for a
\* reader of a group frame exactly when it holds.
IsMember(g) == \E i \in Idx : Holds(i, g)

\* zznet_mcast_bucket_used over the entries a with reference counts r
BucketUsed(b, a, r) == \E i \in Idx : r[i] # 0 /\ Hash(a[i]) = b

\* Takes an entry with one reference for a free one.
FreeAtOne(i) == refs[i] <= 1 /\ \A j \in Idx : j < i => refs[j] > 1

\* The entry the scan of zznet_mcast_update takes when the group is new.
FirstFree(i) == refs[i] = 0 /\ \A j \in Idx : j < i => refs[j] # 0

\* Sets the bucket when another group has it already, not when none has.
SetBucketInverted(g) ==
  hw' = IF BucketUsed(Hash(g), addr, refs) THEN hw \cup {Hash(g)} ELSE hw

\* The HASH_SET command of a join, decided before the entry is written.
SetBucket(g) ==
  hw' = IF BucketUsed(Hash(g), addr, refs) THEN hw ELSE hw \cup {Hash(g)}

\* Clears the bucket although a colliding group is still joined.
ClearBucketAlways(g) == hw' = hw \ {Hash(g)}

\* The HASH_CLEAR command of a leave, decided after the entry was wiped.
ClearBucket(g) ==
  hw' = IF BucketUsed(Hash(g), addr', refs') THEN hw ELSE hw \ {Hash(g)}

\* A join of a group whose reference count is at its limit is refused.
Saturated(i) == refs[i] = RefMax

Refuse(why) ==
  /\ result' = why
  /\ UNCHANGED <<table, hw, joined>>

Join(g) ==
  /\ opened # {}
  /\ \/ \E i \in Idx :                               \* already joined
          /\ Holds(i, g)
          /\ \/ Saturated(i) /\ Refuse("NO_RESOURCES")
             \/ /\ ~Saturated(i)
                /\ refs' = [refs EXCEPT ![i] = @ + 1]
                /\ joined' = [joined EXCEPT ![g] = @ + 1]
                /\ result' = "OK"
                /\ UNCHANGED <<addr, count, hw>>
     \/ /\ ~IsMember(g) /\ \A i \in Idx : refs[i] # 0
        /\ Refuse("NO_RESOURCES")
     \/ /\ ~IsMember(g) /\ \E i \in Idx : refs[i] = 0
        /\ count = 0 /\ ~capable
        /\ Refuse("NOT_SUPPORTED")
     \/ /\ ~IsMember(g) /\ ~(count = 0 /\ ~capable)
        /\ SetBucket(g)
        /\ \E i \in Idx :
             /\ FirstFree(i)
             /\ addr' = [addr EXCEPT ![i] = g]
             /\ refs' = [refs EXCEPT ![i] = 1]
        /\ count' = count + 1
        /\ joined' = [joined EXCEPT ![g] = @ + 1]
        /\ result' = "OK"
  /\ UNCHANGED <<capable, opened>>

Leave(g) ==
  /\ opened # {}
  /\ \/ ~IsMember(g) /\ Refuse("BAD_STATE")
     \/ \E i \in Idx :
          /\ Holds(i, g)
          /\ refs' = [refs EXCEPT ![i] = @ - 1]
          /\ joined' = [joined EXCEPT ![g] = @ - 1]
          /\ result' = "OK"
          /\ \/ refs[i] # 1 /\ UNCHANGED <<addr, count, hw>>
             \/ /\ refs[i] = 1
                /\ addr' = [addr EXCEPT ![i] = ZeroAddr]
                /\ count' = count - 1
                /\ ClearBucket(g)
  /\ UNCHANGED <<capable, opened>>

\* Forgets the groups but leaves the card's filter as it was.
ResetSoftwareOnly ==
  /\ hw' = hw
  /\ addr' = [i \in Idx |-> ZeroAddr] /\ refs' = [i \in Idx |-> 0]
  /\ count' = 0 /\ joined' = [g \in Groups |-> 0]

\* zznet_mcast_reset
Reset ==
  /\ hw' = IF capable THEN {} ELSE hw
  /\ addr' = [i \in Idx |-> ZeroAddr] /\ refs' = [i \in Idx |-> 0]
  /\ count' = 0 /\ joined' = [g \in Groups |-> 0]

\* The first open starts from an empty table and filter.
DevOpen(o) ==
  /\ o \notin opened
  /\ opened' = opened \cup {o}
  /\ IF opened = {} THEN Reset ELSE UNCHANGED <<table, hw, joined>>
  /\ UNCHANGED <<capable, result>>

\* Only the last close drops the groups: one opener cannot take another's.
DevClose(o) ==
  /\ o \in opened
  /\ opened' = opened \ {o}
  /\ IF opened' = {} THEN Reset ELSE UNCHANGED <<table, hw, joined>>
  /\ UNCHANGED <<capable, result>>

-----------------------------------------------------------------------------
\* The card's filter may hold what an earlier driver left in it; firmware
\* without the hash filter has no buckets.
Init ==
  /\ capable \in BOOLEAN
  /\ hw \in IF capable THEN SUBSET {Hash(g) : g \in Groups} ELSE {{}}
  /\ addr = [i \in Idx |-> ZeroAddr] /\ refs = [i \in Idx |-> 0] /\ count = 0
  /\ opened = {} /\ joined = [g \in Groups |-> 0]
  /\ result = "OK"

Next ==
  \/ \E g \in Groups : Join(g) \/ Leave(g)
  \/ \E o \in Openers : DevOpen(o) \/ DevClose(o)

Spec == Init /\ [][Next]_vars

-----------------------------------------------------------------------------
\* struct zznet_mcast and its mirror have their types.
TypeOK ==
  /\ capable \in BOOLEAN
  /\ addr \in [Idx -> Groups \cup {ZeroAddr}]
  /\ refs \in [Idx -> 0..RefMax]
  /\ count \in 0..MaxEntries
  /\ hw \subseteq 0..63
  /\ opened \subseteq Openers
  /\ joined \in [Groups -> Nat]
  /\ result \in Results

\* While the device is open the card's filter holds the bucket of every
\* joined group and no other, whichever groups collide and in whatever order
\* they were joined and left (zznet_mcast_update, zznet_mcast_reset).
FilterExact ==
  opened # {} => hw = {Hash(g) : g \in {h \in Groups : IsMember(h)}}

\* A group is in the table exactly as many times as joins of it succeeded and
\* leaves did not undo: no refusal changes the table, a group has one entry,
\* and the count of entries in use is right.
TableExact ==
  /\ \A g \in Groups : joined[g] = 0 <=> ~IsMember(g)
  /\ \A i \in Idx : refs[i] # 0 => addr[i] \in Groups /\ joined[addr[i]] = refs[i]
  /\ \A i, j \in Idx : refs[i] # 0 /\ refs[j] # 0 /\ addr[i] = addr[j] => i = j
  /\ count = Cardinality({i \in Idx : refs[i] # 0})
=============================================================================
