------------------------------ MODULE FwUpdate ------------------------------
(***************************************************************************)
(* Firmware update: a release bundle is downloaded over HTTPS (https.c),   *)
(* unpacked while it arrives (fw_release.c) into a private drawer          *)
(* (fwonline.c), and pushed to the card file by file (fwup_client.c), the  *)
(* modules before BOOT.bin; or a bundle of the user's is pushed.  Anything *)
(* may fail: the stream ends early or carries damaged data, the user       *)
(* presses Escape, a file cannot be read, a command is refused, or times   *)
(* out and is carried out by the card later on.                            *)
(***************************************************************************)
EXTENDS Naturals, Sequences, FiniteSets

CONSTANTS Mods,       \* modules a bundle may hold
          MaxUpdates, \* bound: bundles
          Archives,   \* archives the server may send: sequences of entries
          FwRedirects \* HTTPS_MAX_REDIRECTS

VARIABLES
  fwAt,       \* what the updater does
  run,        \* number of the bundle
  dest,       \* "online", "own" file of the page's user, or "tool": ZZFwUpdate
  arch,       \* archive of the server
  framing,    \* the body ends by length or last chunk, or with the connection
  hops,       \* redirects followed
  rx,         \* parts of the archive received
  zipRes,     \* result of fwrel_zip_feed
  gotBoot,    \* found_boot
  drawer,     \* files of the download drawer: parts written
  esc,        \* Escape waits to be polled
  want,       \* modules of each bundle
  todo,       \* files still to push
  part,       \* chunks of the current file pushed
  then,       \* what follows the command under way
  cmds,       \* card: commands it has yet to carry out
  buf,        \* card: what the shared buffer holds
  tmp,        \* card: open transfer, file and chunks
  disk,       \* card: chunks of every file
  waiting,    \* the updater polls for a completion
  answer,     \* the completion it saw
  overlapped, \* ghost: a command but ABORT was issued before an older one was done
  moduleDir,  \* the firmware has ZZ_FW_CAP_FWUP_MODULE_DIR
  recorded,   \* bundle recorded as installed, or 0
  known       \* release_known

netVars == <<arch, framing, hops, rx, zipRes, gotBoot, drawer, esc>>
cardVars == <<cmds, buf, tmp, disk, moduleDir>>
callVars == <<then, waiting, answer, overlapped>>
updateVars == <<fwAt, run, dest, netVars, known, want, todo, part, callVars, cardVars, recorded>>

Files == Mods \cup {"BOOT"}

\* An entry's name is that of a file, of another harmless member, or unsafe.
ASSUME UpdateAssumption ==
  /\ IsFiniteSet(Mods) /\ "BOOT" \notin Mods /\ "none" \notin Mods /\ MaxUpdates \in Nat
  /\ \A a \in Archives :
       a \in Seq([name : Files \cup {"other", "unsafe"}, sound : BOOLEAN])

Image(k, f) == <<<<k, f, 1>>, <<k, f, 2>>>>
\* What is staged in the shared buffer: a file name, or the chunk <<k, f, i>>.
Name(f) == <<"name", f>>
IsName(b) == Len(b) = 2
NoTransfer == [file |-> "none", data |-> << >>]
Parts == 3  \* of an entry: its header and two pieces of data

-----------------------------------------------------------------------------
(* Download.                                                               *)

\* check_online, fwonline_check: the latest release is known if the query and
\* its answer were good.
CheckOnline ==
  /\ fwAt = "idle" /\ run < MaxUpdates /\ known' \in BOOLEAN
  /\ UNCHANGED <<fwAt, run, dest, netVars, want, todo, part, callVars, cardVars, recorded>>

\* update_online, once the user has agreed, and make_bundle_directory.
BeginDownload ==
  /\ fwAt = "idle" /\ known /\ run < MaxUpdates
  /\ run' = run + 1 /\ dest' = "online" /\ fwAt' = "connect" /\ arch' \in Archives
  /\ UNCHANGED <<framing, hops, rx, zipRes, gotBoot, drawer, esc, known, want, todo, part,
                 callVars, cardVars, recorded>>

Reject == fwAt' = "remove" /\ UNCHANGED <<rx, zipRes, gotBoot, drawer>>

streamVars == <<run, dest, arch, esc, known, want, todo, part, callVars, cardVars, recorded>>

\* conn_open: name, socket, TLS and certificate.
ConnOpen ==
  /\ fwAt = "connect"
  /\ \/ fwAt' = "head" /\ UNCHANGED <<rx, zipRes, gotBoot, drawer>>
     \/ Reject
  /\ UNCHANGED <<streamVars, framing, hops>>

\* get: the next address of a redirect, up to the limit.
Redirect ==
  /\ fwAt = "head"
  /\ \/ hops < FwRedirects /\ hops' = hops + 1 /\ fwAt' = "connect"
        /\ UNCHANGED <<rx, zipRes, gotBoot, drawer>>
     \/ hops = FwRedirects /\ UNCHANGED hops /\ Reject
  /\ UNCHANGED <<streamVars, framing>>

\* request: the head says how the body ends, or is refused.
ResponseHead ==
  /\ fwAt = "head"
  /\ \/ fwAt' = "body" /\ framing' \in {"counted", "close"}
        /\ UNCHANGED <<rx, zipRes, gotBoot, drawer>>
     \/ UNCHANGED framing /\ Reject
  /\ UNCHANGED <<streamVars, hops>>

Entry == arch[(rx \div Parts) + 1]
AtDirectory == rx = Parts * Len(arch)

\* bundle_target_name: a name that leaves the drawer is no bundle's; a second
\* BOOT.bin neither.
Wanted == Entry.name \in Files /\ ~(Entry.name = "BOOT" /\ gotBoot)
Skipped == Entry.name = "other"

Put(n) == drawer' = IF Entry.name \in Files THEN [drawer EXCEPT ![Entry.name] = n] ELSE drawer

\* zip_begin_entry: a wanted entry's file is opened.
BeginEntry ==
  /\ UNCHANGED gotBoot
  /\ \/ Wanted /\ Put(1) /\ zipRes' \in {"more", "write"}
     \/ Skipped /\ UNCHANGED drawer /\ zipRes' = "more"
     \/ ~Wanted /\ ~Skipped /\ UNCHANGED drawer /\ zipRes' = "format"

\* zip_output: checks the image's header and writes.
Output == zipRes' \in {"more", "write"} /\ Put(2) /\ UNCHANGED gotBoot

\* zip_entry_done: CRC, sizes and digest must agree.
EntryDone ==
  \/ /\ Entry.sound /\ zipRes' = "more" /\ Put(3)
     /\ gotBoot' = (gotBoot \/ Entry.name = "BOOT")
  \/ /\ ~Entry.sound /\ zipRes' = "damaged" /\ UNCHANGED <<drawer, gotBoot>>

\* A central directory ends a bundle that had a BOOT.bin.
DirectoryResult == IF gotBoot THEN "done" ELSE "not found"

\* fwrel_zip_feed on the next piece of the stream.
ZipFeed ==
  \/ AtDirectory /\ zipRes' = DirectoryResult /\ UNCHANGED <<rx, gotBoot, drawer>>
  \/ /\ ~AtDirectory /\ rx' = rx + 1
     /\ \/ rx % Parts = 0 /\ BeginEntry
        \/ rx % Parts = 1 /\ Output
        \/ rx % Parts = 2 /\ EntryDone

\* Takes an archive whose stream has ended for a complete one.
AcceptsAtEnd == TRUE

\* fwonline_download accepts only a stream the unpacker itself stopped.
Accepts == zipRes' = "done"

\* request: the body, read by read.  The hook is polled before every read.
Receive ==
  /\ fwAt = "body"
  /\ \/ /\ ~esc /\ zipRes = "more" /\ ZipFeed
        /\ fwAt' = IF zipRes' = "more" THEN "body" ELSE IF Accepts THEN "poll" ELSE "remove"
     \/ /\ esc /\ Reject
  /\ UNCHANGED <<streamVars, framing, hops>>

\* The connection ends: a body of declared length or chunks is then cut
\* short, one that ends with the connection is over.
StreamEnds ==
  /\ fwAt = "body" /\ ~esc /\ UNCHANGED <<rx, zipRes, gotBoot, drawer>>
  /\ fwAt' = IF framing = "close" /\ Accepts THEN "poll" ELSE "remove"
  /\ UNCHANGED <<streamVars, framing, hops>>

PressEscape ==
  /\ fwAt \in {"body", "poll"} /\ ~esc /\ esc' = TRUE
  /\ UNCHANGED <<fwAt, run, dest, arch, framing, hops, rx, zipRes, gotBoot, drawer, known, want,
                 todo, part, callVars, cardVars, recorded>>

\* What describes the stream ends with fwonline_download.
StreamClosed ==
  arch' = << >> /\ framing' = "counted" /\ hops' = 0 /\ rx' = 0 /\ zipRes' = "more"
  /\ gotBoot' = FALSE /\ esc' = FALSE

\* The last poll of update_online, then fwup_bundle_discover, which may fail
\* to read the drawer.
Discover ==
  /\ fwAt = "poll" /\ todo' = << >> /\ StreamClosed /\ UNCHANGED drawer
  /\ \/ esc /\ fwAt' = "remove" /\ UNCHANGED want
     \/ ~esc /\ fwAt' = "remove" /\ UNCHANGED want
     \/ /\ ~esc /\ drawer["BOOT"] # 0 /\ fwAt' = "list"
        /\ want' = [want EXCEPT ![run] = {m \in Mods : drawer[m] # 0}]
  /\ UNCHANGED <<run, dest, known, part, callVars, cardVars, recorded>>

-----------------------------------------------------------------------------
(* FWUP commands.                                                          *)

\* run_command: the mirror is read before the command, so the completion it
\* will take is the next one, whichever command that belongs to.
Command(c, next) ==
  /\ cmds' = Append(cmds, c) /\ waiting' = TRUE /\ answer' = "none"
  /\ then' = next /\ fwAt' = "wait"
  /\ overlapped' = (overlapped \/ (cmds # << >> /\ c # "abort"))

\* Carries out the first command; buf is read now, not when it was issued.
FwExec ==
  /\ cmds # << >> /\ cmds' = Tail(cmds)
  /\ waiting' = FALSE
  /\ LET c == Head(cmds)
         Done(st) == answer' = IF waiting THEN st ELSE answer
     IN  \/ /\ c = "abort" /\ tmp' = NoTransfer /\ Done("ok") /\ UNCHANGED disk
         \/ /\ c = "open" /\ UNCHANGED disk
            /\ \/ /\ IsName(buf) /\ tmp' = [file |-> buf[2], data |-> << >>] /\ Done("ok")
               \/ /\ tmp' = NoTransfer /\ Done("error")
         \/ /\ c = "write" /\ UNCHANGED disk
            /\ \/ /\ tmp.file # "none" /\ ~IsName(buf)
                  /\ tmp' = [tmp EXCEPT !.data = Append(@, buf)] /\ Done("ok")
               \/ /\ UNCHANGED tmp /\ Done("error")
         \/ /\ c = "probe" /\ UNCHANGED <<disk, tmp>> /\ Done("state")
         \/ /\ c = "close"
            /\ \/ /\ tmp.file # "none" /\ tmp' = NoTransfer
                  /\ disk' = [disk EXCEPT ![tmp.file] = tmp.data] /\ Done("ok")
               \/ /\ UNCHANGED <<tmp, disk>> /\ Done("error")
         \/ /\ c = "restore" /\ UNCHANGED tmp
            /\ \/ /\ IsName(buf) /\ disk' = [disk EXCEPT ![buf[2]] = Image(0, buf[2])] /\ Done("ok")
               \/ UNCHANGED disk /\ Done("error")
  /\ UNCHANGED <<fwAt, run, dest, netVars, known, want, todo, part, then, overlapped, buf,
                 moduleDir, recorded>>

\* poll_mirror and poll_status: the completion, or the budget is spent.
Polled ==
  /\ fwAt = "wait"
  /\ \/ ~waiting /\ UNCHANGED <<waiting, answer>>
     \/ waiting /\ waiting' = FALSE /\ answer' = "busy"
  /\ fwAt' = then
  /\ UNCHANGED <<run, dest, netVars, known, want, todo, part, then, overlapped, cardVars, recorded>>

Stage(x) == buf' = x
Unstaged == UNCHANGED buf

-----------------------------------------------------------------------------
(* Pushing a bundle.                                                       *)

\* Install of the page, or ZZFwUpdate: the user's own complete bundle.  The
\* tool probes first: ABORT, then an empty WRITE that must be refused.
BeginOwn ==
  /\ fwAt = "idle" /\ run < MaxUpdates /\ run' = run + 1
  /\ \E ms \in SUBSET Mods : want' = [want EXCEPT ![run'] = ms]
  /\ \/ /\ dest' = "own" /\ fwAt' = "list" /\ UNCHANGED <<cmds, callVars>>
     \/ dest' = "tool" /\ Command("abort", "probe")
  /\ Unstaged
  /\ UNCHANGED <<netVars, known, todo, part, tmp, disk, moduleDir, recorded>>

Probe ==
  /\ fwAt = "probe"
  /\ \/ /\ answer = "busy" /\ fwAt' = "remove" /\ UNCHANGED <<cmds, callVars>>
     \/ /\ answer # "busy" /\ Command("probe", "probed")
  /\ Unstaged
  /\ UNCHANGED <<run, dest, netVars, known, want, todo, part, tmp, disk, moduleDir, recorded>>

Probed ==
  /\ fwAt = "probed" /\ fwAt' = IF answer = "state" THEN "list" ELSE "remove"
  /\ UNCHANGED <<run, dest, netVars, known, want, todo, part, callVars, cardVars, recorded>>

\* The modules of the bundle, then BOOT.bin.
ModulesFirst(s) == s \o <<"BOOT">>

\* fwup_install_bundle: modules are left out when the firmware has no drawer
\* for them.
ListBundle ==
  /\ fwAt = "list" /\ fwAt' = "file" /\ part' = 0
  /\ \E s \in [1..Cardinality(want[run]) -> want[run]] :
       /\ want[run] = {s[i] : i \in DOMAIN s}
       /\ todo' = ModulesFirst(IF moduleDir THEN s ELSE << >>)
  /\ UNCHANGED <<run, dest, netVars, known, want, callVars, cardVars, recorded>>

\* fwonline_record_install after a push; the tool does not know the variable.
Record == CASE dest = "online" -> run [] dest = "own" -> 0 [] dest = "tool" -> recorded

\* send_bundle_file: the file is opened and its name staged.
SendOpen ==
  /\ fwAt = "file"
  /\ \/ /\ todo # << >> /\ Command("open", "opened") /\ Stage(Name(Head(todo)))
        /\ UNCHANGED recorded
     \/ /\ todo # << >> /\ fwAt' = "remove" /\ Unstaged  \* FWUP_ERR_FILE
        /\ UNCHANGED <<cmds, callVars, recorded>>
     \/ /\ todo = << >> /\ fwAt' = "remove" /\ Unstaged
        /\ recorded' = Record
        /\ UNCHANGED <<cmds, callVars>>
  /\ UNCHANGED <<run, dest, netVars, known, want, todo, part, tmp, disk, moduleDir>>

\* Chunks of a file: those that were downloaded, or all of them.
Size(f) == IF dest = "online" THEN drawer[f] - 1 ELSE 2

\* The next chunk is read into the shared buffer and written, or the file
\* has ended; a read error aborts.
SendChunk ==
  /\ fwAt = "opened"
  /\ \/ /\ answer # "ok" /\ part = 0 /\ fwAt' = "remove" /\ Unstaged
        /\ UNCHANGED <<cmds, callVars, part>>
     \/ /\ answer # "ok" /\ part # 0 /\ Command("abort", "remove") /\ Unstaged
        /\ UNCHANGED part
     \/ /\ answer = "ok" /\ part < Size(Head(todo)) /\ part' = part + 1
        /\ Stage(<<run, Head(todo), part'>>) /\ Command("write", "opened")
     \/ /\ answer = "ok" /\ part = Size(Head(todo)) /\ Command("close", "closed") /\ Unstaged
        /\ UNCHANGED part
     \/ /\ answer = "ok" /\ Command("abort", "remove") /\ Unstaged /\ UNCHANGED part
  /\ UNCHANGED <<run, dest, netVars, known, want, todo, tmp, disk, moduleDir, recorded>>

\* The file counts as sent.
CloseAccepted == answer = "ok"

SendDone ==
  /\ fwAt = "closed"
  /\ \/ /\ CloseAccepted /\ fwAt' = "file" /\ todo' = Tail(todo) /\ part' = 0
        /\ UNCHANGED <<cmds, callVars>>
     \/ /\ ~CloseAccepted /\ Command("abort", "remove") /\ UNCHANGED <<todo, part>>
  /\ Unstaged
  /\ UNCHANGED <<run, dest, netVars, known, want, tmp, disk, moduleDir, recorded>>

\* fwonline_remove_bundle
fwonline_remove_bundle == drawer' = [f \in Files |-> 0]

\* The drawer is removed after every outcome.
Remove ==
  /\ fwAt = "remove" /\ fwAt' = "idle" /\ fwonline_remove_bundle
  /\ todo' = << >> /\ part' = 0 /\ StreamClosed
  /\ UNCHANGED <<run, dest, known, want, callVars, cardVars, recorded>>

\* restore of the page, do_restore of the tool: BOOT.bak becomes BOOT.bin.  The
\* page then forgets the recorded release.
Restore ==
  /\ fwAt = "idle" /\ Stage(Name("BOOT")) /\ Command("restore", "restored")
  /\ run < MaxUpdates /\ run' = run + 1 /\ dest' \in {"own", "tool"}
  /\ UNCHANGED <<netVars, known, want, todo, part, tmp, disk, moduleDir, recorded>>

Restored ==
  /\ fwAt = "restored" /\ fwAt' = "idle"
  /\ recorded' = IF answer = "ok" /\ dest = "own" THEN 0 ELSE recorded
  /\ UNCHANGED <<run, dest, netVars, known, want, todo, part, callVars, cardVars>>

-----------------------------------------------------------------------------
UpdateInit ==
  /\ fwAt = "idle" /\ run = 0 /\ dest = "own"
  /\ arch = << >> /\ framing = "counted" /\ hops = 0 /\ rx = 0 /\ zipRes = "more"
  /\ gotBoot = FALSE /\ drawer = [f \in Files |-> 0] /\ esc = FALSE
  /\ known = FALSE /\ want = [k \in 1..MaxUpdates |-> {}] /\ todo = << >> /\ part = 0
  /\ then = "idle" /\ waiting = FALSE /\ answer = "none" /\ overlapped = FALSE
  /\ cmds = << >> /\ buf = << >> /\ tmp = NoTransfer /\ moduleDir \in BOOLEAN
  /\ disk = [f \in Files |-> Image(0, f)] /\ recorded = 0

UpdateNext ==
  \/ CheckOnline \/ BeginDownload \/ ConnOpen \/ Redirect \/ ResponseHead
  \/ Receive \/ StreamEnds \/ PressEscape \/ Discover
  \/ FwExec \/ Polled
  \/ BeginOwn \/ Probe \/ Probed \/ ListBundle \/ SendOpen \/ SendChunk \/ SendDone
  \/ Remove \/ Restore \/ Restored

UpdateSpec == UpdateInit /\ [][UpdateNext]_updateVars

-----------------------------------------------------------------------------
\* Every file on the card is one whole image: damaged or cut-off data never
\* gets there.
CardIntact == \A f \in Files : disk[f] \in {Image(k, f) : k \in 0..MaxUpdates}

\* A new BOOT.bin is on the card only with the modules of its bundle, or with
\* those of a later one.
BootAfterModules ==
  moduleDir => \A k \in 1..run : disk["BOOT"] = Image(k, "BOOT") =>
    \A m \in want[k] : \E j \in k..run : disk[m] = Image(j, m)

\* The release recorded as installed is on the card, with its modules, until
\* something else is pushed.
RecordedIsInstalled ==
  recorded # 0 /\ recorded = run =>
    \A f \in {"BOOT"} \cup (IF moduleDir THEN want[run] ELSE {}) : disk[f] = Image(run, f)

\* Between updates no download is left behind.
DrawerRemoved == fwAt = "idle" => \A f \in Files : drawer[f] = 0

\* However an update fails, and whichever of its commands times out and is
\* carried out later: the card holds whole images, BOOT.bin never runs ahead
\* of its modules and the recorded release is the installed one, unless a
\* command was issued while one that timed out was still to be carried out
\* (the late completion is then taken for the new command's); and no download
\* is left behind.
UpdateSafe ==
  /\ ~overlapped => CardIntact /\ BootAfterModules /\ RecordedIsInstalled
  /\ DrawerRemoved
=============================================================================
