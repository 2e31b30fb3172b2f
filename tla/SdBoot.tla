------------------------------- MODULE SdBoot -------------------------------
(***************************************************************************)
(* What zzsd.device does when the system starts (sd-boot/zzsd_boot.c): the *)
(* firmware describes the partitions and file systems of the image in the  *)
(* shared buffer, a file system missing from FileSystem.resource is loaded *)
(* in chunks through the same buffer, relocated and registered, and every  *)
(* partition gets a DOS node.                                              *)
(*                                                                         *)
(* A partition is its dos type; a file system is its dos type and number   *)
(* of chunks; the code of a file system is the sequence of its chunks.     *)
(* Hunk relocation is its outcome, and so is every allocation.             *)
(***************************************************************************)
EXTENDS SdDisk

CONSTANTS DosTypes, MaxParts, MaxFs, MaxChunks

ASSUME BootAssumption == MaxParts \in Nat /\ MaxFs \in Nat /\ MaxChunks \in Nat

VARIABLES bImage,   \* what the image describes: [parts, fs]
          bShared,  \* the shared buffer
          bStatus,  \* ZZSD_BOOT_STATUS: "busy", "ok" or "error"
          bAsked,   \* commands the firmware has not carried out
          bInfo,    \* info: the driver's copy
          bPc,
          bI,       \* i: the partition
          bF,       \* f: the file system
          bLocal,   \* local: the chunks copied so far
          bRes,     \* FileSystem.resource: its entries, first one first
          bFound,   \* fse of this partition, or none
          bNodes,   \* the nodes made, with their partition and file system
          bMem,     \* memory held: "info", "local", code of a file system
          bLate     \* a command was sent with another one unfinished

bootVars == <<bImage, bShared, bStatus, bAsked, bInfo, bPc, bI, bF, bLocal, bRes, bFound,
              bNodes, bMem, bLate>>

Fs == [dos : DosTypes, chunks : 0..MaxChunks]
Infos == [parts : UNION {[1..n -> DosTypes] : n \in 0..MaxParts},
          fs : UNION {[1..n -> Fs] : n \in 0..MaxFs}]
Empty == [parts |-> <<>>, fs |-> <<>>]
NoFs == [dos |-> "none", code |-> <<>>]
Rom == <<"rom">>

Junk == [what |-> "junk"]
Chunk(f, c) == <<f, c>>

\* FileSystem.resource may hold file systems from the ROM.
BootInit ==
  /\ bImage \in Infos
  /\ \E ds \in {{}} \cup {{d} : d \in DosTypes} :
       bRes = IF ds = {} THEN <<>> ELSE <<[dos |-> CHOOSE d \in ds : TRUE, code |-> Rom]>>
  /\ bShared = Junk /\ bStatus = "ok" /\ bAsked = <<>> /\ bInfo = Empty
  /\ bPc = "start" /\ bI = 1 /\ bF = 1 /\ bLocal = <<>> /\ bFound = NoFs
  /\ bNodes = <<>> /\ bMem = {} /\ bLate = FALSE

-----------------------------------------------------------------------------
\* A command to the firmware and the wait for its status.
SendCommand(cmd, next) ==
  /\ bAsked' = Append(bAsked, cmd) /\ bStatus' = "busy" /\ bPc' = next
  /\ bLate' = (bLate \/ bAsked # <<>>)

GetInfo ==
  /\ bPc = "start" /\ SendCommand([what |-> "info"], "info")
  /\ UNCHANGED <<bImage, bShared, bInfo, bI, bF, bLocal, bRes, bFound, bNodes, bMem>>

\* zzsd_boot_init after GETINFO: no image, an error, a timeout, no magic or no
\* memory end it.
InfoFails ==
  /\ bPc = "info" /\ bPc' = "done"
  /\ UNCHANGED <<bImage, bShared, bStatus, bAsked, bInfo, bI, bF, bLocal, bRes, bFound, bNodes,
                 bMem, bLate>>

InfoCopied ==
  /\ bPc = "info" /\ bStatus = "ok" /\ bShared.what = "info"
  /\ bInfo' = bImage /\ bMem' = {"info"} /\ bPc' = "part"
  /\ UNCHANGED <<bImage, bShared, bStatus, bAsked, bI, bF, bLocal, bRes, bFound, bNodes, bLate>>

\* The partitions zzsd_boot_process_partitions goes through.
partition_count == Len(bInfo.parts)

\* The entries for a dos type.
Registered(d) == {k \in DOMAIN bRes : bRes[k].dos = d}

\* zzsd_get_filesystem: an entry of the resource for the partition's dos type is
\* used as it is; otherwise the image's file systems are searched.
BeginPartition ==
  /\ bPc = "part" /\ bI <= partition_count
  /\ LET mine == Registered(bInfo.parts[bI])
     IN IF mine = {}
        THEN /\ bPc' = "search" /\ bFound' = NoFs
        ELSE /\ bPc' = "node"
             /\ bFound' = bRes[CHOOSE k \in mine : \A m \in mine : k <= m]
  /\ bF' = 1
  /\ UNCHANGED <<bImage, bShared, bStatus, bAsked, bInfo, bI, bLocal, bRes, bNodes, bMem, bLate>>

\* FreeMem of info, after the last partition or without expansion.library.
Finish ==
  /\ bPc = "part" /\ (bI > partition_count \/ bI = 1)
  /\ bPc' = "done" /\ bMem' = bMem \ {"info"} /\ bInfo' = Empty
  /\ UNCHANGED <<bImage, bShared, bStatus, bAsked, bI, bF, bLocal, bRes, bFound, bNodes, bLate>>

\* The search passes file systems of other types and empty ones; it ends without
\* one, or where `local' cannot be allocated.
Search ==
  /\ bPc = "search"
  /\ \/ /\ bF > Len(bInfo.fs) /\ bPc' = "node" /\ UNCHANGED <<bF, bMem, bLocal>>
     \/ /\ bF <= Len(bInfo.fs)
        /\ LET sf == bInfo.fs[bF]
           IN IF sf.dos # bInfo.parts[bI] \/ sf.chunks = 0
              THEN bF' = bF + 1 /\ UNCHANGED <<bPc, bMem, bLocal>>
              ELSE /\ UNCHANGED bF
                   /\ \/ bPc' = "node" /\ UNCHANGED <<bMem, bLocal>>
                      \/ bPc' = "load" /\ bMem' = bMem \cup {"local"} /\ bLocal' = <<>>
  /\ UNCHANGED <<bImage, bShared, bStatus, bAsked, bInfo, bI, bRes, bFound, bNodes, bLate>>

\* LOADFS of the next chunk.
LoadChunk ==
  /\ bPc = "load" /\ Len(bLocal) < bInfo.fs[bF].chunks
  /\ SendCommand([what |-> "fs", f |-> bF, c |-> Len(bLocal) + 1], "wait")
  /\ UNCHANGED <<bImage, bShared, bInfo, bI, bF, bLocal, bRes, bFound, bNodes, bMem>>

ChunkCopied ==
  /\ bPc = "wait" /\ bStatus = "ok"
  /\ bLocal' = Append(bLocal, IF bShared.what = "fs" THEN Chunk(bShared.f, bShared.c) ELSE <<>>)
  /\ bPc' = "load"
  /\ UNCHANGED <<bImage, bShared, bStatus, bAsked, bInfo, bI, bF, bRes, bFound, bNodes, bMem, bLate>>

\* The chunk failed or timed out, or fsrelocate_simple refused the code.
LoadFails ==
  /\ \/ bPc = "wait" /\ bStatus \in {"busy", "error"}
     \/ bPc = "load" /\ Len(bLocal) = bInfo.fs[bF].chunks
  /\ bPc' = "node" /\ bMem' = bMem \ {"local"} /\ bLocal' = <<>>
  /\ UNCHANGED <<bImage, bShared, bStatus, bAsked, bInfo, bI, bF, bRes, bFound, bNodes, bLate>>

\* fsrelocate_simple, and the new FileSysEntry at the head of the resource.
\* Without memory for the entry the code stays allocated and unused; without
\* memory for the resource only this partition gets the entry.
Register ==
  /\ bPc = "load" /\ Len(bLocal) = bInfo.fs[bF].chunks
  /\ LET fse == [dos |-> bInfo.fs[bF].dos, code |-> bLocal]
     IN \/ bFound' = NoFs /\ UNCHANGED bRes
        \/ bFound' = fse /\ bRes' = <<fse>> \o bRes
        \/ bFound' = fse /\ bRes = <<>> /\ UNCHANGED bRes
  /\ bMem' = (bMem \ {"local"}) \cup {"code"} /\ bLocal' = <<>> /\ bPc' = "node"
  /\ UNCHANGED <<bImage, bShared, bStatus, bAsked, bInfo, bI, bF, bNodes, bLate>>

\* MakeDosNode, zzsd_apply_patch_flags, AddBootNode; a partition whose node
\* cannot be made is passed over, and recorded with dos type "none".
Node ==
  /\ bPc = "node"
  /\ \/ bNodes' = Append(bNodes, [part |-> bI, dos |-> bInfo.parts[bI], fs |-> bFound])
     \/ bNodes' = Append(bNodes, [part |-> bI, dos |-> "none", fs |-> NoFs])
  /\ bI' = bI + 1 /\ bPc' = "part" /\ bFound' = NoFs
  /\ UNCHANGED <<bImage, bShared, bStatus, bAsked, bInfo, bF, bLocal, bRes, bMem, bLate>>

-----------------------------------------------------------------------------
\* The firmware answers commands in order: it fills the buffer, or fails.
FwAnswer ==
  /\ bAsked # <<>> /\ bAsked' = Tail(bAsked)
  /\ \/ bStatus' = "ok" /\ bShared' = Head(bAsked)
     \/ bStatus' = "error" /\ UNCHANGED bShared
  /\ UNCHANGED <<bImage, bInfo, bPc, bI, bF, bLocal, bRes, bFound, bNodes, bMem, bLate>>

BootNext == \/ GetInfo \/ InfoFails \/ InfoCopied \/ BeginPartition \/ Finish \/ Search
        \/ LoadChunk \/ ChunkCopied \/ LoadFails \/ Register \/ Node \/ FwAnswer

BootSpec == BootInit /\ [][BootNext]_bootVars

-----------------------------------------------------------------------------
\* The code of a file system, whole and in order.
Whole(f) == [c \in 1..bImage.fs[f].chunks |-> Chunk(f, c)]

Good(fse) ==
  fse.code = Rom \/ \E f \in DOMAIN bImage.fs : bImage.fs[f].dos = fse.dos /\ fse.code = Whole(f)

\* Unless a command that timed out was unfinished when another one was sent (its
\* late answer is taken for the other's): every file system in FileSystem.resource
\* is one whole file system of the image or of the ROM, no dos type is registered
\* twice, a node is of a partition of the image and has no file system but one
\* for its own dos type; and when the driver is ready it went through every
\* partition of the image, and holds neither info nor local.
BootSafe ==
  ~bLate =>
    /\ \A k \in DOMAIN bRes : Good(bRes[k])
    /\ \A k, m \in DOMAIN bRes : bRes[k].dos = bRes[m].dos => k = m
    /\ \A n \in DOMAIN bNodes :
         /\ bNodes[n].dos \in {bImage.parts[bNodes[n].part], "none"}
         /\ bNodes[n].fs = NoFs \/ (Good(bNodes[n].fs) /\ bNodes[n].fs.dos = bNodes[n].dos)
    /\ bPc = "done" => bMem \subseteq {"code"}
    /\ bPc = "done" /\ bNodes # <<>> => Len(bNodes) = Len(bImage.parts)

\* zzsd.device: a transfer that succeeds moved the blocks asked for, and the
\* partitions found at boot get their own file systems, whole.
SdSafe == DiskSafe /\ BootSafe
=============================================================================
