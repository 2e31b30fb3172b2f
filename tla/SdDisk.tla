------------------------------- MODULE SdDisk -------------------------------
(***************************************************************************)
(* Block transfers of zzsd.device (sd-boot/zzsd_device.c, zzsd_cmd.c): a   *)
(* request is cut into chunks that go through one shared buffer and one    *)
(* status register, and the whole request is tried again after an error or *)
(* a timeout.  sd_Lock makes the requests of all callers one sequence.     *)
(*                                                                         *)
(* Addresses are modulo WordMod, the 32-bit word of the code.  Block b of  *)
(* the image holds b at first, block k of a request's memory 10 + k.       *)
(***************************************************************************)
EXTENDS Naturals, Sequences

CONSTANTS WordMod,    \* 2^32
          Base,       \* sd_BaseOffset
          PartBlocks, \* sd_PartBlocks, or the capacity
          AtOnce,     \* BLOCKS_AT_ONCE
          Retry,      \* SD_RETRY
          MaxLen,     \* most blocks of a request
          MaxIo,      \* requests
          MaxFw       \* transfers unfinished at a time

\* The image is addressed by a word, and no request goes round all addresses.
ASSUME DiskAssumption ==
  /\ WordMod \in Nat \ {0} /\ Base \in Nat /\ PartBlocks \in Nat
  /\ Base + PartBlocks <= WordMod
  /\ AtOnce \in Nat \ {0} /\ Retry \in Nat /\ MaxLen \in 0..WordMod
  /\ MaxIo \in Nat /\ MaxFw \in Nat

VARIABLES dImage,   \* the image: block -> content
          dBuffer,  \* the shared buffer
          dStatus,  \* ZZSD_STATUS: "busy", "ok" or "error"
          dFw,      \* transfers the firmware has not carried out
          dIo,      \* the request
          dMem,     \* its memory
          dPc,
          dAt,      \* i: blocks done in this try
          dTries,   \* retries left
          dLate,    \* a transfer was started with another one unfinished
          dDone     \* requests so far

diskVars == <<dImage, dBuffer, dStatus, dFw, dIo, dMem, dPc, dAt, dTries, dLate, dDone>>

ImageBlocks == 0..(Base + PartBlocks - 1)
Rubbish == 99
Fresh(n) == [k \in 0..(n - 1) |-> 10 + k]

NoIo == [via |-> "none", write |-> FALSE, lba |-> 0, n |-> 0]

DiskInit ==
  /\ dImage = [b \in ImageBlocks |-> b] /\ dBuffer = [k \in 0..(AtOnce - 1) |-> Rubbish]
  /\ dStatus = "ok" /\ dFw = <<>> /\ dIo = NoIo /\ dMem = Fresh(0)
  /\ dPc = "idle" /\ dAt = 0 /\ dTries = 0 /\ dLate = FALSE /\ dDone = 0

-----------------------------------------------------------------------------
\* SD_ReadWrite: trackdisk commands are not compared with the image's size.
Trackdisk(io) == io.via = "cmd" /\ io.n > 0

\* SD_PerformSCSI: READ and WRITE with 6 and 10 bytes.
Scsi(io) == io.via = "scsi" /\ (io.lba + io.n) % WordMod <= PartBlocks

\* begin_io, SD_PerformIO, until the first transfer.  Other commands answer
\* from constants; a refused request is replied at once.
begin_io ==
  /\ dPc = "idle" /\ dDone < MaxIo
  /\ \E via \in {"cmd", "scsi"}, write \in BOOLEAN, lba \in 0..(WordMod - 1), n \in 0..MaxLen :
       LET io == [via |-> via, write |-> write, lba |-> lba, n |-> n]
       IN /\ Trackdisk(io) \/ Scsi(io)
          /\ dIo' = io /\ dMem' = Fresh(n)
  /\ dPc' = "chunk" /\ dAt' = 0 /\ dTries' = Retry /\ dDone' = dDone + 1
  /\ dLate' = (dFw # <<>>)
  /\ UNCHANGED <<dImage, dBuffer, dStatus, dFw>>

\* The next chunk of the request, or its end.
Remaining == dIo.n - dAt
num_blocks == IF Remaining < AtOnce THEN Remaining ELSE AtOnce
Block == (dIo.lba + Base + dAt) % WordMod

\* zzsd_read_blocks, zzsd_write_blocks: a chunk is handed to the firmware.
StartChunk ==
  /\ dPc = "chunk" /\ Remaining > 0 /\ Len(dFw) < MaxFw
  /\ dBuffer' = IF dIo.write
                THEN [k \in DOMAIN dBuffer |-> IF k < num_blocks THEN dMem[dAt + k] ELSE dBuffer[k]]
                ELSE dBuffer
  /\ dFw' = Append(dFw, [write |-> dIo.write, block |-> Block, n |-> num_blocks])
  /\ dStatus' = "busy" /\ dPc' = "poll" /\ dLate' = (dLate \/ dFw # <<>>)
  /\ UNCHANGED <<dImage, dIo, dMem, dAt, dTries, dDone>>

\* The buffer is copied before the status was looked at.
TakenUnseen == dStatus \in {"ok", "busy"}

\* The poll ends with success.
Taken == dStatus = "ok"

\* The chunk arrived: a read is copied out.
EndChunk ==
  /\ dPc = "poll" /\ Taken
  /\ dMem' = IF dIo.write THEN dMem
             ELSE [k \in DOMAIN dMem |->
                     IF k \in dAt..(dAt + num_blocks - 1) THEN dBuffer[k - dAt] ELSE dMem[k]]
  /\ dAt' = dAt + num_blocks /\ dPc' = "chunk"
  /\ UNCHANGED <<dImage, dBuffer, dStatus, dFw, dIo, dTries, dLate, dDone>>

\* The request is its caller's again.
Returned == dPc' = "idle" /\ dIo' = NoIo /\ dMem' = Fresh(0) /\ dAt' = 0 /\ dTries' = 0

\* Error or timeout: zzsd_reset, and the request from its first chunk again,
\* or TDERR / HFERR when the retries are used up.
FailChunk ==
  /\ dPc = "poll" /\ dStatus \in {"busy", "error"}
  /\ dStatus' = "ok"
  /\ IF dTries > 1
     THEN /\ dTries' = dTries - 1 /\ dAt' = 0 /\ dPc' = "chunk"
          /\ UNCHANGED <<dIo, dMem>>
     ELSE Returned
  /\ UNCHANGED <<dImage, dBuffer, dFw, dLate, dDone>>

\* io_Actual or scsi_Actual is set and the request replied.
Reply ==
  /\ dPc = "chunk" /\ Remaining = 0 /\ Returned
  /\ UNCHANGED <<dImage, dBuffer, dStatus, dFw, dLate, dDone>>

-----------------------------------------------------------------------------
\* The firmware carries out the transfers it was given, in order.  It refuses
\* blocks outside the image; a transfer that fails may have been carried out in
\* part.
FwTransfer ==
  /\ dFw # <<>>
  /\ LET t == Head(dFw)
         in == {k \in 0..(t.n - 1) : t.block + k \in ImageBlocks}
         some(m) == {k \in in : k < m}
         Moved(ks) ==
           IF t.write
           THEN /\ dImage' = [b \in ImageBlocks |-> IF \E k \in ks : b = t.block + k
                                              THEN dBuffer[b - t.block] ELSE dImage[b]]
                /\ UNCHANGED dBuffer
           ELSE /\ dBuffer' = [k \in DOMAIN dBuffer |->
                                 IF k \in ks THEN dImage[t.block + k] ELSE dBuffer[k]]
                /\ UNCHANGED dImage
     IN \/ in = 0..(t.n - 1) /\ Moved(in) /\ dStatus' = "ok"
        \/ \E m \in {0, 1} : Moved(some(m)) /\ dStatus' = "error"
  /\ dFw' = Tail(dFw)
  /\ UNCHANGED <<dIo, dMem, dPc, dAt, dTries, dLate, dDone>>

DiskNext == begin_io \/ StartChunk \/ EndChunk \/ FailChunk \/ Reply \/ FwTransfer

DiskSpec == DiskInit /\ [][DiskNext]_diskVars

-----------------------------------------------------------------------------
\* When a request ends with success, its memory and the image agree on every
\* block of it, whatever failed and was tried again on the way, unless a
\* transfer that timed out was still unfinished when another one was started:
\* its late status is taken for the other's.  (The addresses of a trackdisk
\* request wrap at 2^32 and may lie before the partition.)  The chunks of a SCSI
\* request stay within the partition, unless block plus length passes 2^32.
DiskSafe ==
  /\ dPc = "chunk" /\ Remaining = 0 /\ ~dLate =>
       \A k \in DOMAIN dMem :
         LET b == (dIo.lba + Base + k) % WordMod
         IN b \in ImageBlocks /\ dMem[k] = dImage[b]
  /\ dIo.via = "scsi" /\ dIo.lba + dIo.n < WordMod /\ ~dLate =>
       \A i \in DOMAIN dFw : dFw[i].block \in Base..(Base + PartBlocks - dFw[i].n)
=============================================================================
