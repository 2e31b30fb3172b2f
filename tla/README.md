# ZZ9000 AmigaOS drivers: TLA+ models, checks and proofs

This directory models the Amiga-side drivers of the ZZ9000 card (`src/`): what
they keep, what their handlers do, and how their tasks, interrupts and the card
interleave. TLC checks the models on small instances; TLAPS proves the most
important facts for every value of the constants. `PROJECT.json` lists the
runs, the mutants that show each property can fail, the source lines behind
every definition, the hazards, the findings and the theorems.

The card's firmware and FPGA are in another repository. They appear here only
as the drivers use them (registers, DMA, mailboxes), as actions that may happen
at any time, marked external in the map.

## Inventory

| Component | State | Operations | What is hard |
|---|---|---|---|
| `net/tx.c`, send path of `net/device.c` | ring of 4 slots: `next`, `outstanding`, last `count`; transmit semaphore | open/reset, send, reclaim, drain at expunge | DMA of the card against slot reuse, wrap of a 15-bit count, card restart, card that stops |
| `net/rx.c`, `frame_proc`, `dev_isr` | last serial, baseline, drain budget, priority; the card's backlog | interrupt, header read, copy, ack, re-arm, sleep | lost wakeup, torn header reads, three firmware generations, serial wrap, restart |
| `net/mcast.c` | table of groups with reference counts, 64-bit hash filter of the card | join, leave, reset | shared buckets, table and reference limits |
| `net/device.c` lifecycle | open counts, framer process, exit semaphore, staging buffer, read list | open (and its undo), close, expunge, read, abort | closes that wait, opens that fail, aborts against delivery |
| `usb-poseidon/zzusb_engine.c`, work queue of `zzusbhw_device.c` | 32 work slots with a lifecycle, active slot, worker timer | BeginIO, poll task, retry with backoff, AbortIO, CMD_RESET/FLUSH | abort against completion, slot reuse during a retry, starvation |
| `usb-poseidon` mailboxes | primary and maintenance mailbox, request ids, epoch, quarantine, two locks | send, wait (with RT ISO service inside), recover | late answers, timeouts, lock order, foreground against poll task |
| `usb-poseidon` periodic slots, root hub, RT ISO | interrupt slots with arm/stop state, ISO batches | arm, reap, stop, abort; stream start, service, stop | reply only after the firmware stopped, reuse |
| `common/fwup_*`, `fw_release`, `ZZFwUpdate`, ZZTop's firmware page | download, unpacked drawer, transfer session, files on the card | check, download, unpack, push, commit, abort | a command that times out and is carried out later, one file of several failing, damaged streams |
| `ZZTop/Core/app`, `settings`, `audio` | `cfg.saved`, `cfg.edit`, guard, audio model with anchor, pending save | edit, Save, Revert, Quit | two writers of one file, a firmware save that undoes keys, interrupted repairs |
| `ZZTop/Core/video`, `align`, `common/zz_vcap_*` | anchors, touched and confirmed flags, targets, staged values | live request, Save check, Revert, alignment editor | late and lost requests, other writers, partial failures |
| `common/zzcfg_amiga` | the text of `ZZ9000.CFG` | parse, generate, save | old and new keys, hand edits, a poisoned Fast RAM line |
| `ahi/driver` | owner, allocating, interrupt server, lease, periods | AllocAudio, FreeAudio, Start, Stop, worker | ownership against MHI, Stop against Start and recovery, revocation |
| `mhi` | decoder, buffer queue, session, feeder | AllocDecoder, Play, Stop, Pause, Queue, feeder | buffer ownership, Stop and Pause inside a blocking Play |
| `rtg` | cached operands, modes, clocks, scan-out, surfaces, overlay | Picasso96 hooks | stale caches, refused modes, surfaces with two owners |
| `ZZRun` | generation, files, directory handles, display buffers, console packets, AHI requests | load, serve, flip, drain, stop | another launcher taking over in any wait, packets and requests still out |
| `sd-boot` | one status register and one shared buffer, block range, loaded file systems | read, write, SCSI, boot scan, loading file systems | late answers after a timeout, retries, addresses at 2^32, a buffer overwritten by the next command |
| CLI tools, installer, SDK, AmiSSL, tools | none kept | one-shot | not modelled |

Components interact through Exec: OpenDevice/CloseDevice/Expunge under
`Forbid()` (broken by any `Wait`), `BeginIO`/`AbortIO` on the caller's task,
`Signal`/`Wait` to the driver's own task, interrupt servers, semaphores, and
the card's registers and shared memory, which change at any time.

## Modules

| Module | Models | State and actions |
|---|---|---|
| `TxSlots` | what the transmit path promises: each slot is free, being filled or with the card, handed over and returned in ring order | abstract specification |
| `NetTx` | `tx.c`, `write_frame_async`, `write_frame`, expunge's drain | `tx` (the driver's ring) and `card` (what DMA really owns); one action per step between two hardware accesses or semaphore operations |
| `McastHash` | hash and address tests of `mcast.c` on six-byte addresses | operators |
| `NetMcast` | the multicast table and the card's filter | one action per join, leave, open, close |
| `NetRx` | `rx.c`, `frame_proc`, `dev_isr`, the card's receive backlog | `pc` of the framer; a step per register access, so that the card may act between any two |
| `NetDevice` | open, close, expunge, the framer's life, reads and aborts | an opener per task; a call that waits is split where it waits |
| `UsbRequests` | what the work queue promises a caller: one reply per request, with `IOERR_ABORTED` once aborted in time | abstract specification |
| `UsbWork` | work slots, engine lifecycle, poll task, timer, AbortIO, flush | a `Forbid()` section is one step; the order of `enqueue_seq` is kept as the set of slots `ahead` of each |
| `UsbMailbox` | the USB proxy's two mailboxes, `PrimaryMailboxLock` and `zz_Lock`, quarantine and recovery, simple ISO and its cleanup, realtime ISO, reset, flush | the worker and a flushing caller, each with a `pc`; a step per lock operation, per command sent and per end of a wait, so that the other task and the firmware act in between |
| `UsbPeriodic` | `IntPendingSlots[]` and `RootHubIntPending`: `poll_int_pending`, `poll_roothub_pending` with the port check, `queue_int_ior`, `handle_roothub_int`, `abort_io`, flush, bus reset | the poll task and a flush with the command each waits for; what runs under `zz_Lock` is one step, and a command drops the lock only when realtime ISO runs (`rt`, fixed in a behaviour); `fw` is the set of endpoints that have a queue in the firmware |
| `AudioOwner` | allocation and release in AHI and MHI: interrupt-server names, `owner`, `allocating`, the library base | two tasks a side, each with a `pc`; a Forbid window is one step |
| `AhiLease` | the fabric lease of AHI: Start, Stop, FreeAudio, the worker's recovery, revocation, the periods | caller, worker, firmware |
| `MhiPlayer` | an MHI decoder: queue, feeder, Play, Stop, Pause, free, and PLAY, STOP and CLOSE at the card | player, controller and feeder; `io_lock` and Forbid windows; a command is answered, refused, or carried out later (`late`) or never |
| `FwUpdate` | download, unpacking and push of a firmware bundle | the files of the drawer and of the card; a late command is carried out at any later step |
| `ZzRun`, `ZzDisplay`, `ZzConsole`, `ZzAhi` | ZZRun's ownership and file service; its display buffers; its console packets; its sound requests | a step runs from one call that may block to the next, a write to the request slot or the data area is apart from the check before it, and every access to the sound header is a step; the program, the card and another launcher act in between; a STOP may be carried out late or never |
| `RtgDraw`, `RtgLine` | which operands an operation runs with; the accumulator of a clipped line | one action per hook; every line up to a size, with every clip |
| `RtgMode`, `RtgSetup`, `RtgBitmap` | modes, clocks and scan-out; FindCard and InitCard; surfaces and the overlay | one action per hook, Picasso96 external |
| `TopSave` | ZZTop's Save, Revert, Quit with the firmware's audio save and its guard | a step per read or write of the file and per mailbox call |
| `CapLive` | live capture requests of ZZTop, Save's check and Revert, of the crop with the sample, the phase and the window | the card applies a request at once, later or never, a reset or a Revert ends where one fails; another program writes too |
| `CapAlign` | the alignment editor's request protocol with its sequence numbers | editor, frame boundary, another writer |
| `CfgText` | parsing and generating `ZZ9000.CFG`, with the firmware's reading as reference | hand edits, cold boots with other firmware, saves |
| `SdDisk` | `zzsd.device`'s block transfers: chunks, retries, resets | caller and firmware; a step per chunk handed over and per end of a wait |
| `SdBoot` | its boot scan: description, file systems loaded and registered, DOS nodes | a step per command and per allocation that may fail |
| `NetTxProofs`, `NetRxProofs`, `NetDeviceProofs`, `UsbWorkProofs`, `UsbMailboxProofs`, `UsbPeriodicProofs`, `AudioProofs` (`AudioOwner`, `AhiLease`, `MhiPlayer`), `PartsProofs` (`NetMcast`, `FwUpdate`, `SdDisk`, `SdBoot`, `TopSave`, `ZzRun`, `ZzDisplay`, `ZzConsole`) | theorems | TLAPS |
| `MC*` | small instances for TLC | values of the constants |
| `MCParts`, `MCCard` | components that share no state, in one run | `which` is chosen at Init and every step is one of that component, so that the state spaces add up and do not multiply; in `MCCard` all but USB, SD and ZZTop's settings keep their variables in one pool |

Definitions keep the source's names where one function is one definition;
others are named for the step they stand for (`Kick` is the write of `ETH_TX`).
A definition whose comment begins with what goes wrong ("Leaves the poll task
asleep") is a mutant: the form of the next definition with a plausible bug.

## Runs

| Run | Instance | Checks |
|---|---|---|
| `net_tx` | 2 senders, 4 slots, initial counts 0 and 32765, 7 sends | no overwrite of DMA, no orphan DMA at expunge, accounting across the wrap, senders return, refinement of `TxSlots` |
| `parts` | multicast (2 openers, 4 real addresses of which two collide, small table and reference limit), audio (2 tasks a side, 2 leases, 2 buffers, 1 late command), firmware (2 bundles), ZZRun (2 generations, 2 requests, paths with volumes allowed or not) | filter and table are exactly the joins; compatible audio owners with live library bases; every lease accounted for; the card plays what MHI's Status says unless a command failed; buffers are read and given back when they may be; whole images, BOOT.bin last; a launcher stops its own program only and writes to another's only after a take-over since it last checked; console and sound lose and repeat nothing |
| `net_rx` | 3 firmware generations, both buses, serials around 0xffff, 4 frames, a drop, a restart | acks take the frame read, no duplicates, exact loss count, backlog drains |
| `net_rx_wrap` | firmware 2.1 with serial 0xffff at open | **violation**, see Findings |
| `net_device` | 2 openers, 2 sessions, 2 reads each, 2 frames | session stays up for openers, quiet when closed, one reply per read, staging buffer, calls return |
| `net_device_overlap` | an open may start while the last close waits | **violation**, see Findings |
| `usb_work` | 3 requests (one idle bulk-IN), 2 slots, abort, flush, sequence of 2 values | one reply with the right result, slots hold driver-owned requests, backoff belongs to the retried request, replies come |
| `usb_mailbox` | transfers and resets against a flush of one slot, one realtime service per wait | the flush returns, quarantine lifts |
| `usb_mailbox_polls` | simple ISO, port checks and interrupt polls against the same flush | a pending mailbox is awaited or quarantined, recovery never overwrites one |
| `usb_mailbox_overwrite` | simple ISO against the flush | **violation**, see Findings |
| `card` | USB: 2 readers of one endpoint, a writer, a root hub request, 2 slots, no realtime ISO; graphics: 4 cached registers, lines up to 8 pixels, 2 modes, 2 surfaces; ZZTop: 2 keys, one edited; captures with phase, window, both or neither; crops 0..3, 2-bit sequence; texts of 3 lines; SD: 3 blocks, 2 requests, 2 tries; 2 partitions, 2 file systems | each request replied exactly once, no forgotten firmware queue, aborts replied after the STOP; operations run with their own operands and modes; the file keeps what was saved; Save and Revert agree with the card's picture; the configuration text keeps its meaning; a disk transfer that succeeds moved its blocks, partitions get their own whole file systems |
| `usb_periodic_lost` | the same with realtime ISO | **violation**, see Findings |

Bounds. `NetTx` keeps the real 4 slots and 15-bit register; 7 sends from 32765
wrap it and turn the ring almost twice. `NetRx` keeps 16-bit serials, starting
where the interesting wraps are; its ring has 3 slots because the code only
looks at the current one. `NetDevice` needs two sessions for anything left over
from the first to hurt the second. `UsbWork` has more requests than slots, so
that a slot is reused and a request refused; `SeqMod = 2` makes every second
sequence number the skipped 0. In `UsbMailbox` one service of realtime ISO per
wait is enough for every overlap of two waits, and one slot, chunk or reap for
every command to be followed by another; the worker's kinds of work are split
over two runs (`Work`, `Polls`) to keep each of them small. The firmware answers
any command it was given, at any time or never. `UsbPeriodic` has two readers of
one endpoint because one request can replace the other, a writer because its
queue is not kept, and a grace of one poll, so that a detached slot is seen
with and without grace; two slots let an aborted request and its successor hold
one each. A firmware that reports OFFLINE or resets its port has no queues left.

In `parts`: two tasks on each side of the audio hardware, because a decoder and
a player, or two players, are all that meets at it; two leases, so that a
revoked one has a successor; two bundles of firmware, so that files of one can
be left among those of the other; two generations in ZZRun, so that another
launcher's program can take the place of this one's, and paths of any length
over a drawer, a file and a link that leaves the root, with and without the
user's leave to name a volume (`rAbs`). At most one command of an MHI decoder is
late, and one session in doubt, at a time (`MaxLate`): the late one can then be
carried out in any later session, and two only add to what the first excuses. The card
takes one buffer of a
session (`MaxFed`), so that data can be there or not. A sound pass reads and
writes the header in steps between which the program may close a stream and open
another one. In `card`: four of the
statically cached registers, one of each kind the hooks treat differently;
lines up to eight pixels with every clip, in which every slope of the
accumulator occurs; two modes and two surfaces with three wrappers, one more
than can be live. `TopSave` has a key that is edited and one that another
program saves; failing writes and calibrations happen only in behaviours where
no other program saves (`tAlone`), because both together exceed what TLC
finishes and their effects on a key do not combine. A capture card has neither
fine control, one or both; with both nobody else writes a control. There are
at most three requests (`MaxEdits`), which is a reset that stops in its middle and
two changes after it. Clocks of custom modes outside the PLL's range
(`MinClock`, `MaxClock`) and within it are asked for. Capture crops are 0..3 with
a coarse step of two, and the two-bit sequence numbers of `CapAlign` wrap within
an editing session, as the wider ones of the card may. The texts of `CfgText` have three
hand-written lines, which is two conflicting keys and one that refers to both.
In `SdDisk` a word has six values, so that block plus length wraps; a request
of three blocks needs two chunks, and two requests let a late answer of the
first reach the second. Two partitions in `SdBoot` share a file system or not.

Deadlock is not checked in `net_rx`, `net_device`, `usb_work` and `parts`:
traffic and sessions are bounded, programs end, and when the bounds are used up
the system rightly rests. In `card` those components that may stop do so in an
explicit stuttering step; the USB part is checked for deadlock.

Fairness. The driver's own steps (sender, framer, poll task, caller inside
BeginIO/AbortIO) are weakly fair: Exec runs a ready task eventually. Nothing is
assumed of the card in `net_tx` (the bounded wait must end by itself); in
`net_rx` its interrupt line is level-triggered and so delivered. A transfer in
`usb_work` ends because the mailbox wait is bounded; callers need not do
anything. In `usb_mailbox` tasks are weakly fair and the semaphores strongly,
because Exec hands a semaphore to its waiters in order; `FlushReturns` assumes
nothing of the firmware, and `QuarantineLifts` assumes exactly what it says,
that the firmware answers again.

## Proofs

`NetTxProofs` (for any set of senders, lengths, initial counts and wait limit)
proves `TypeOK`, `TxAccounting`, `NoDmaOverwrite`, `NoOrphanDma` and that
`NetTx` implements `TxSlots`. The inductive invariant is

    IInv == TypeOK /\ TxAccounting /\ QueueInOrder /\ SlotHeld /\ SemQueue /\ Lifecycle

`NoDmaOverwrite` alone is not inductive: it needs that the card holds its slots
in ring order just behind `next` (`QueueInOrder`), that `outstanding` is those
plus the frames retired since the count was last read (`TxAccounting`, modulo
2^15), that only the semaphore's owner has a slot in hand (`SlotHeld`,
`SemQueue`), and that a driver with outstanding frames is loaded
(`Lifecycle`). Lemmas about subtraction modulo 2^15 carry the wrap.

The first part of `PartsProofs` (for any hash, table size, reference limit, openers) proves
`FilterExact` and `TableExact` from an invariant that adds to both that each
group has at most one entry and that entries and joins have equal counts.

`NetRxProofs` (for any ring size, drain budget, number of frames, drops and
restarts, on the three firmware generations and both buses) proves `TypeOK`,
`DeliveredOnce`, `GapExact` and the action property `AckTakesFrameRead`. The
inductive invariant is

    IInv == TypeOK /\ Linear /\ (SoundRead => Ring /\ Header /\ Chain /\ Once /\ GapExact)

The framer reads a header, decides, copies and acks in steps between which the
card may fill, drop or restart. `Header` says what it still knows of the head of
the backlog at each of these places as long as no restart came between; `Ring`
that the frames which wait are the slots from the read pointer on, each with an
id of its own; `Chain` that the gap noted with a frame is what its serial and
the one before say, across the wrap that skips 0 and 1; `Once` that a frame
which still waits was not delivered, but the head that is about to be acked.
The serials are never enumerated: what the proof needs of arithmetic modulo 2^16
is in four lemmas. `GapExact` is stated within the window of 128 beyond which
`zznet_rx_next` takes a jump for a restart.

`NetDeviceProofs` (for any finite set of openers, any number of sessions and
reads) proves `TypeOK`, `SessionUp`, `QuietWhenClosed`, `ReplyOnce` and
`StageNotFreedInUse`, all under `~Overlap`: no other task enters the device
while `DevOpen` or `DevClose` waits. With `Overlap` the last one is false, which
is the finding of `net_device_overlap`; the theorem says that this is all that is
wrong. `IInv` is a list of the phases of a session (`Quiet`, `Opening`,
`Failing`, `Closing`, `Up`), each with the whole state of framer, semaphore,
interrupt and open count, plus `Members` and `Reads`: a pending read is on the
list or in the hands of the framer that copies, once.

`UsbWorkProofs` (for any number of slots, requests and units, any retry delays,
a worker sequence that wraps at any modulus) proves `TypeOK`, `HeldByDriver`,
`BackoffOfRetried` and that `UsbWork` implements `UsbRequests`: every step of the
queue is a step of the abstract specification or none, so that each request is
retired exactly once. The inductive invariant is

    IInv == TypeOK /\ SlotKind /\ QueueOrder /\ InHand /\ Removed
            /\ HeldByDriver /\ BackoffOfRetried

`QueueOrder` makes `process_work_queue`'s choice well defined, `InHand` ties what
the poll task carries from one Forbid section to the next (a slot, a request, a
sequence number) to what is in the slot by then, and `Removed` says that a
request an abort or a flush took out is still owed its one reply.

`UsbMailboxProofs` (for flushes of any length, waits interrupted any number of
times by realtime ISO, every mix of requests and polls, and a firmware that
answers late, out of order or never) proves `TypeOK`, `MailboxFenced` and the
action property `RecoveryNeverOverwrites`. The inductive invariant is

    IInv == TypeOK /\ Locks /\ Where /\ Returns /\ QueryOver /\ MailboxFenced

`MailboxFenced` speaks of the waits a task comes back to after it has dropped
`zz_Lock`; it needs that such a wait is recorded only while the task serves the
stream or takes the lock again (`Where`), that a task knows where to go on
(`Returns`), that whoever is behind `zz_Lock` owns it (`Locks`), and that the
query on the sideband is sent only once the primary mailbox is terminal
(`QueryOver`). One lemma says when a step of one task keeps all of them; each of
the 40 actions is shown to be such a step.

`UsbPeriodicProofs` (for any number of slots, requests, endpoints and any reuse
grace) proves `TypeOK` with and without realtime ISO, and for a unit that runs
none (`RtModes = {FALSE}`) `RetiredOnce`, `NoOrphanQueue` and the action property
`AbortWaitsForStop`. With realtime ISO the first of these is false, which is the
finding of `usb_periodic_lost`. The inductive invariant is

    IInv == TypeInv /\ Requests /\ Queues /\ Locks /\ Commands

`Requests` says that a slot holds at most one request, that no request is in two
slots and that the requests not replied are exactly those held; `Queues` that
each queue in the firmware has an armed slot, or an ARM made it whose answer the
poll task has not looked at, with success or a timeout; `Commands` what a command
under way still knows of its slot (it is armed while its STOP runs, unarmed or
reused while its ARM runs) and what the answer says of the firmware; `Locks` that
nobody else runs meanwhile, which is what realtime ISO breaks. Work on a slot is
shown to write one slot in a way that keeps its queue covered (`Covers`), and to
reply exactly the requests that leave it.

`AudioProofs` has three parts. The first (for any number of tasks on both sides)
proves `OwnershipSafe`: compatible owners, their nodes on the server list, and live
library bases with the two exceptions noted below. The inductive invariant is

    IInv == TypeOK /\ AhiLocks /\ AhiNodes /\ AhiLive /\ MhiLocks /\ MhiLive /\ Sharable

The drivers see each other only as names on the interrupt server list, read at
one moment and used later. `AhiNodes` and `MhiLocks` tie the names to the owners
they stand for, `AhiLocks` the places of the tasks to `owner` and `allocating`,
and `Sharable` says that the mode of AHI a decoder has read in its claim is still
good when it publishes itself: an AHI owner that came after has seen the
decoder's legacy node and has either turned away or plays through a lease.
`AhiLive` and `MhiLive` say whose library base the globals hold. The one
assumption is that no task is `NULL` or the base of a query (`TasksAreTasks`).
TLC checked this invariant with three tasks a side on 11 million states.

The second proves `LeaseSafe` of the lease on the firmware's audio ring, for any
number of slots, grants and Stops and any ring, and that the lease's calls
exclude each other (`LeaseCallsExclude`). The inductive invariant is

    LeaseInv == LeaseTypeOK /\ LeasePlacesOK /\ OneReleases /\ OneAcquires /\ StopWins
                /\ PcmCurrent /\ Identities /\ LeaseTracked

`fabric_lease_acquire` and `fabric_lease_release` block in the mailbox, so what a
task has read may be stale when it goes on. `OneReleases` and `OneAcquires` say
whom the two in-progress flags stand for; without the second a grant could be
installed over a usable one (`NoUsable`). `StopWins` says that a Stop during a
Start leaves the Start a generation older, so that playback only begins with
nothing else under way; `PcmCurrent` then covers the periods a Stop has not
dropped yet, or that sit in the ring of a lease on its way out. `Identities` ties
a pending identity, and the answers in the mailbox, to what the firmware has
granted: a pending identity is in the hands of the task that releases, or its
release has timed out (`PendingOwed`). TLC checked it with two slots, three
grants and three Stops on 16 million states.

The third part is about an MHI decoder, for any set of buffers and any number of
sessions, Stops, chunks and late commands: `PlayerSafe` and the action property
`BuffersSafe`. The inductive invariant is

    PlayerInv == PlayerTypeOK /\ Strayed /\ IoLocked /\ Sessioned /\ FeederStops /\ Unbound
                 /\ Resuming /\ Contested /\ Closing /\ Owned /\ Handed /\ UnfedKnown
                 /\ Copying /\ Counted /\ Told

What the driver can know of the card is the session that is bound and not `astray`
(`Known`); `Strayed` says that a command still out is of a session that may be.

Stop, Pause and Queue change `Status` and the queue in Forbid windows while
`io_lock` is held by a feeder or a Play that looked at both before. `FeederStops`
says that a feeder at work on a stopped or paused stream implies a call that
waits for the lock to undo what it binds, `Unbound` that any other stopped or
paused decoder is not bound, and `Resuming` and `Contested` the same of a Play
that binds again or opens a session. `Copying` says that the chunk the feeder
reads is still queued or waits to be given back by a Stop or FreeDecoder that
cannot go on before the feeder is done; `Handed`, `Counted` and `Owned` tie the
marks on the queue to the card's cursors; `Told` that whoever gives a feeder
asleep something to do also signals it. TLC checked it with two buffers, two
sessions and two Stops on a million states.

The second part of `PartsProofs` proves `UpdateSafe` of a firmware update, for any
modules, archives and number of updates. The inductive invariant is

    UpdateInv == UpdateTypeOK /\ DownloadInv /\ TodoInv /\ CardInv

`DownloadInv` says what the private drawer holds at each step of a download,
`TodoInv` that the list of files still to push ends in BOOT.bin. `CardInv`
relates the updater to the commands the card has yet to carry out. The updater
gives up on a command after a time, and the card may still execute it: `QueueOK`
says that behind the first outstanding command there are only ABORTs, `LateOK`
that a RESTORE, WRITE or CLOSE carried out late finds the card in a state where
it does no harm. `OwnOpened`, `OwnClosed` and `SentOK` say that an answer taken
for a command is its own, so that a file off the list is a whole file on the
card; `VersionsOK` and `DiskOK` bound what the card's files and their old copies
may be, modules never behind BOOT.bin; `InstalledOK` is the release recorded.
`CardInv` and the part of `UpdateSafe` about the card are stated for behaviours
in which no command but ABORT is sent while an older one is outstanding
(`overlapped`, see Defects noted): without that they are false. TLC checked the
invariant with three updates on 1.3 million states.

The third part proves `SdSafe` of `zzsd.device`, for any word, base, chunk size,
number of retries, partitions and file systems: a successful transfer moved its
own blocks (`DiskIsSafe`), and the boot scan gives every partition a whole file
system of its own (with it, `SdIsSafe`). The inductive invariants are

    DiskInv == DiskTypeOK /\ ScsiInside /\ (~dLate => PendingOK /\ StatusOK /\ BlocksDone)
    BootInv == BootTypeOK /\ (~bLate => BootKept)

`PendingOK` says that the one unfinished transfer is a chunk of the request
under way, and finds the data of that chunk in the buffer even when it is carried
out after its timeout, so that it cannot spoil a block done (`BlocksDone`);
`StatusOK` that the status polled is that of the current chunk. `BootKept` says
the same of the boot's commands, that what is loaded is the beginning of a file
system of the image with no entry yet, and that registered ones are whole and
one for a dos type. The lemmas about addresses modulo the word (`WordStep`,
`WordInjective`) need that the image fits the word and that no request is longer
than it (`DiskAssumption`). TLC checked `DiskInv` on 0.9 million states with
requests of four blocks and `BootInv` with all images of two partitions and two
file systems.

The fourth part proves `SettingsSafe` of ZZTop's Save, Revert and Quit
(`SettingsAreSafe`), for any keys and any edited ones. `SettingsSafe` speaks of
the moments between saves; the inductive invariant says what holds inside one:

    TopInv == TopTypes /\ TopControl /\ TopAudio /\ TopWanted

`TopWanted` says that every key last saved is in the guard's snapshot while a
guard is held and in the file otherwise, so that neither the firmware's rewrite
of the file nor a failed repair loses it. `TopControl` ties ZZTop's program
counter to the guard and the running save: a repair waits until the firmware is
done with the file, or it would be overwritten. `TopAudio` gives the reason why a
save that `audio_save_poll` calls done may move the anchor: it was confirmed,
nothing was edited since, and a calibration awaited counts as such an edit
(`TopCal`), so the file's audio is what the firmware played then and still plays
(`TopWritten`). TLC checked the invariant with two keys, one of them edited, on
0.8 million states.

The fifth part proves `RunSafe` of ZZRun: its display (`DisplayIsSafe`), and with
it the launcher (`RunIsSafe`), for any directories, links, names, table of files,
generations and number of flips. The inductive invariants are

    RunInv == RunTypes /\ RunPlace /\ RunMine /\ RunStopped /\ RunTaken /\ RunFiles
              /\ rHarm = {}
    DisplayInv == DisplayTypes /\ DisplayDue /\ DisplayOne /\ DisplayOrder /\ DisplayOpen

`RunMine` says that the generation owned is the one the card gave and that later
ones are greater, so that a launcher that lost the runtime never takes it for its
own again; `RunStopped` that a program asked to stop neither runs nor loads as
long as the generation is its own, unless its STOP was not answered, and that only
its own STOP can be out, so that a late one finds it or nothing; `RunTaken` that
the launcher is at work on its own program's request, or the runtime was taken
over since the launcher last found it its own: the case a check apart from the
write behind it leaves open; `RunFiles` that a path in the middle of its
resolution stands at a directory under the root. `DisplayDue` counts the
SafeMessages: one is due or waits for every change accepted, and only with two
buffers, so that none can come once the port is gone; `DisplayOrder` says that a
flip pending is newer than what was acknowledged. In the loop nothing about
another launcher is assumed but that it starts in the idle state. TLC checked
`RunInv` with two generations on 0.4 million states and `DisplayInv` with four
flips.

The sixth part proves `ConsoleSafe` of ZZRun's console (`ConsoleIsSafe`), for any
sizes of the rings and queues and any number of bytes and messages. The inductive
invariant is

    ConsoleInv == ConsoleType /\ OwnWindow /\ PacketHeld /\ InputHeld /\ CleanEnd
                  /\ OutputExact /\ InputExact /\ ReserveKept /\ NoPacketOut

`PacketHeld` says that what the write packet carries stays in the program's ring,
where the position still is, or in the launcher's queue until the answer is
reaped, so that the check of `con_write_tail` never fails in the owned
generation and a short write takes just what was written out of the ring;
`InputHeld` that a read is only under way once the last one has been pushed in
full. `CleanEnd` is the moment `zzrun_output_blocks_exit` let the loop end, and
`OwnWindow` that the ring can be another program's only after a takeover. TLC
checked it on 0.3 million states.

Assumptions are the named `ASSUME`s of the modules (sizes are positive, sets
are of the right kind), evaluated by TLC in every run. Each inductive invariant
was checked by TLC on the instance of a run before it was proved.

Only model-checked: everything about liveness (`WriteReturns`, `BacklogDrains`,
`CallsReturn`, `RepliesCome`, `FlushReturns`, `QuarantineLifts`), because the
prover does not handle fairness or `ENABLED`; and the safety properties of
ZZRun's sound (`SoundSafe` in `StreamsSafe`), graphics (`GraphicsSafe`), live capture (`CaptureSafe`) and the
configuration text (`ConfigSafe`). What `ConfigSafe` says of a text is a fold over its lines,
which is induction over data and out of the prover's reach; for the others no
inductive invariant has been written yet. A path of a program would be such a
fold too; `ZzRun` resolves it in a step per name, as the code does in a DOS call
per name, and paths of any length are covered.

## Findings

* `net_rx_wrap`: serial 0 on the first frame after an open is taken for the
  frame acked last, and reception stalls.
* `net_device_overlap`: the last close frees the staging buffer of a session
  that was opened while it waited.
* `usb_mailbox_overwrite`: the cleanup of a simple ISO request is sent under
  `zz_Lock` alone and overwrites the command of a flush that has dropped
  `zz_Lock` to serve realtime ISO.
* `usb_periodic_lost`: the STOP of a detached interrupt slot drops `zz_Lock`
  when realtime ISO runs; a request queued into the slot meanwhile is cleared
  with it and never replied.

## Defects noted without a run of their own

The properties of these components hold with the exceptions below. Each is
stated in the property (the variable in parentheses) or as an assumption of the
module, so that everything else about the component is checked around it.

ZZTop's Save (`TopSave`):

* the guard's repair after a firmware audio save puts back a key that another
  program saved inside the guard, where `settings.h` says such keys survive;
* leaving with a guard owed, or a crash, leaves the firmware's values of the
  guarded keys in the file, and a save the firmware still owes lands later;
* a save reported as failed may have reached the file, and Revert then restores
  the old anchor (`tKept`); a rollback that fails after a baseline, a rename or
  a calibration is not noticed (`tAstray`);
* `settings_save` reads, merges and writes without a lock against other writers.

Capture (`CapLive`, `CapAlign`):

* a `video_reset_automatic` that is refused at a later step leaves what it has
  already done acknowledged and unstaged, and a change of the sample carries the
  crop along that the card has by then (a lost request that landed, a Revert that
  failed halfway); Save then passes and stores the staged value, which the card
  does not show (`cUnstaged`);
* nothing is compared again between `video_save_check` and the end of the write,
  while another program may write a control (`cForeign`); the fine phase and the
  window take no anchor when they are the first change (`cExcused`);
* the alignment editor skips a request whose word equals the stale `current`
  and reports the picture accepted or cancelled while the card runs another
  word (`aMissed`).

Configuration (`CfgText`): after a boot that refused Fast RAM, a newly chosen
`fast_ram=on` is dropped by the next unrelated save before a power cycle;
unknown keys and comments are lost on save.

Graphics (`RtgMode`, `RtgDraw`, `RtgBitmap`): `SetSwitch(1)` programs an accepted
mode again and lifts the rejection of a refused one (`vRearmed`); another
program's writes of the two user registers (`zz_vcap_geometry.c`) leave the
driver's cached operands stale (`gOther`); the static caches assume that the
registers hold their initial values when the driver loads. `SetPanning` has no guard
on the switch: the model assumes that Picasso96 pans only the board it shows.

ZZRun (`ZzRun`, `ZzConsole`, `ZzAhi`):

* the result of STOP is discarded (`ZZRun.c:506-515`): a STOP that is refused or
  times out leaves the program running with no launcher, and one carried out late
  stops it later (`rUnheard`);
* the check that a request is current and the write behind it are not one step
  (`ZZRun.c:984-986`, `996-1009`), and `serve_files` takes whatever generation the
  window shows for its own, though a STOP may have blocked since ownership was
  checked (`3081`, `1468`): the reply or data of one program can reach the slot of
  another launcher's (`rTaken`);
* a LOAD_BEGIN that times out may have claimed the runtime (`rBegin`);
* with ABS a path that names a volume is opened wherever it leads, and a list by
  its last name too (`rAbs`);
* a stream that begins between the read of the epoch (`2376`) and the write of the
  tail (`2410`) of one pass gets the tail of the stream before, and stalls or skips
  (`uCrossed`);
* `request_stop` checks the generation and then writes the stop word and the stop
  event (`1526-1531`), which a take-over may separate: not modelled;
* after a file operation that blocks, the rest of the same pass of the loop may
  touch the console ring of another launcher's program, although a comment says that
  ownership was just checked; ownership is not checked while a console read is
  drained, and the final status is not compared with the generation;
* a late vertical blank answer arrives after the fallback.

Audio: an AllocAudio of AHI that is turned away closes and clears the library
base of the allocation that succeeded (`turnedAway`); MHI's query does the same
to a decoder (`unsure`); a Play that waits while Stop or Pause runs may start
playing after it (`revived`); a buffer queued while Stop waits may be fed into
the session that closes; when a drain probe fails for good the feeder sets
`STOPPED` and leaves the session open and bound, and MHIStop, which finds
`STOPPED`, then closes nothing (`mhizz9000.c:790-805`); the results of the STOP of a
Pause (`1695`) and of a CLOSE that is not confirmed (`557-591`) are not looked at,
and a PLAY that timed out (`1597`, `644`) may be carried out later, so that the
card plays a decoder that is stopped or paused (`astray`); `fabric_lease_release` reads `lease_held` outside
`Forbid()`.

Firmware: ZZTop and ZZFwUpdate share the board's buffer and transfer session
without a lock, and the probe of one aborts the transfer of the other (assumed
not to happen in `FwUpdate`). A completion is not tied to its command:
`poll_mirror` and `poll_status` (`fwup_client.c:113-163`) take any completion for
that of the command just written, and a command that timed out is not cancelled.
When a RESTORE times out and an update is started before the card gets to it,
the RESTORE finds the update's file name in the buffer and restores that module,
so that BOOT.bin stays ahead of it; with further commands timing out TLC finds
an installed file with chunks of two (`overlapped` in `UpdateSafe`).

SD (`SdDisk`, `SdBoot`): a transfer that timed out is not cancelled, so its late
status is taken for the chunk sent next, and a late write stores what the buffer
holds by then (`dLate`, `bLate`); trackdisk requests are not compared with the
partition's size, and the base offset is added modulo 2^32; `block + blocks` of
a SCSI request wraps at 2^32; a request aborted after its end is refused at its
next use; the relocated code is lost when no entry can be allocated for it.

USB, seen while reading and not in the model: `enqueue_seq` is compared with a
plain `<` across its wrap; a flush and resubmission of the same request while a
command has dropped the lock passes the comparison of `slot->ior`; a busy queue
keeps the poll task from its timer; `IOF_QUICK` set on an asynchronous request
misleads a `CheckIO` by its owner.

## Plan

1. Done: `NetTx`, `NetMcast`, `NetRx`, `NetDevice`, `UsbWork`, `UsbMailbox`,
   `UsbPeriodic`, with the theorems above; firmware update, audio, ZZRun,
   graphics, ZZTop's settings, live capture, configuration text, SD boot.
2. Done: theorems about `NetRx`, `NetDevice`, `UsbWork`, `UsbMailbox`,
   `UsbPeriodic`, `AudioOwner`, `AhiLease`, `MhiPlayer`, `FwUpdate`,
   `SdDisk`, `SdBoot`, `TopSave`, `ZzRun`, `ZzDisplay` and `ZzConsole`.
   Next: inductive invariants for the sound of ZZRun (`ZzAhi`) and for live capture
   (`CapLive`, `CapAlign`).
3. `UsbMailbox` with the numbers of request ids and epochs, which restart at a
   negotiation, and the first negotiation with its fallback to legacy.
4. The life of RT ISO streams (add, start, stop, remove, service), so that `rt`
   of `UsbPeriodic` can change in a behaviour, and the legacy interrupt polling.
5. AHI recording and its path without a lease; the sampling sweep of the capture
   client; hunk relocation of `sd-boot` against a reference loader.

## Not modelled

Packet and USB payloads, pixel contents, logging, statistics, GUI layout (the
MUI and GadTools front ends only forward events to ZZTop's core), build and
release scripts, the installer, the SDK's payload programs, AmiSSL, and
command-line tools that read or set registers once and exit: they keep no state
between two steps that could disagree. The card's firmware and FPGA are outside
the repository. Vendored decompressors and headers are taken as correct; what
the code does when one of them refuses its input is modelled.
