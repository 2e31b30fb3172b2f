------------------------------- MODULE ZzRun -------------------------------
(***************************************************************************)
(* ZZRun, the launcher of ARM programs: it claims a generation of the app  *)
(* runtime, loads and starts the program, then serves its files until it   *)
(* ends, the user stops it, or another launcher has taken the runtime over *)
(* (ZZRun.c, zzrun_policy.h).  The generation word of the shared window is *)
(* the ownership token.  A step of the launcher runs from one call that    *)
(* may block (mailbox, DOS, Wait) to the next; the card, its program and   *)
(* another launcher act between steps.  A path is resolved a name at a     *)
(* time, each a DOS call.  A write to the request slot or the data area is *)
(* a step of its own, after the check that the request is current.  A      *)
(* mailbox command may go unanswered, and be carried out later or never.   *)
(***************************************************************************)
EXTENDS ZzDisplay

CONSTANTS Dirs, RootDir, UpOf, Into, \* directories, their parents and entries
          PathNames,                 \* names a program may use in a path
          FdIds,                     \* table of files and directory lists
          MaxRunGen, MaxReqs         \* bounds: generations, requests of one

VARIABLES
  rGen,     \* window: generation
  rState,   \* window: lifecycle state
  rMine,    \* generation the card gave this launcher, or 0
  rReq,     \* window: file request of the program
  rAt,      \* place in the launcher
  rPrior,   \* generation sampled before APP_LOAD_BEGIN
  rBegin,   \* what became of APP_LOAD_BEGIN
  rOwned,   \* owned_generation
  rAsked,   \* stop_asked
  rUser,    \* user_stop
  rGraces,  \* grace periods since the stop was asked
  rFiles,   \* files, lists: directory of every open entry, or "free"
  rCap,     \* request that serve_files is at work on
  rWalk,    \* how far a path is resolved: directory reached, name held back
  rNew,     \* what the DOS call opened, not yet in the table
  rOut,     \* console output: "none", "pending" or "failed"
  rAbs,     \* abs_paths: the user allows paths that name a volume
  rUnheard, \* generations whose STOP was not answered: the card may take it yet
  rTaken,   \* history: the runtime was taken over since the launcher last found it its own
  rHarm     \* history: effects on another launcher's program

runtimeVars == <<rGen, rState, rMine, rReq>>
claimVars == <<rPrior, rBegin, rOwned>>
stopVars == <<rAsked, rUser, rGraces>>
openVars == <<rFiles, rCap, rWalk, rNew>>
stopped == <<rState, rHarm, rUnheard>>  \* what a STOP may change
runVars == <<runtimeVars, rAt, claimVars, stopVars, openVars, rOut, rAbs, rTaken, rUnheard, rHarm>>

Ops == {"open", "list_open", "close", "list_close", "read", "write", "list_next",
        "seek", "stat", "unknown"}
NoReq == [g |-> 0, n |-> 0, done |-> TRUE]
NoCap == [g |-> 0, n |-> 0, op |-> "none", fd |-> "none"]

-----------------------------------------------------------------------------
(* The card: runtime, program, and another launcher.                       *)

\* A launcher's APP_LOAD_BEGIN is taken in the idle state only.
NewGeneration ==
  rGen' = rGen + 1 /\ rState' = "loading" /\ rReq' = NoReq /\ rTaken' = TRUE

CardBegin ==
  /\ rBegin = "queued" \/ (rBegin = "late" /\ rMine = 0)
  /\ \/ /\ rState = "idle" /\ rGen < MaxRunGen /\ NewGeneration
        /\ rMine' = rGen + 1 /\ rBegin' = IF rBegin = "queued" THEN "ok" ELSE "late"
     \/ /\ rState # "idle" /\ UNCHANGED <<rGen, rState, rReq, rMine, rTaken>>
        /\ rBegin = "queued" /\ rBegin' = "busy"
  /\ UNCHANGED <<rAt, rPrior, rOwned, stopVars, openVars, rOut, rAbs, rUnheard, rHarm>>

OtherLauncher ==
  /\ \/ rState = "idle" /\ rGen < MaxRunGen /\ NewGeneration
     \/ rGen # rMine /\ rState = "loading" /\ rState' = "running"
        /\ UNCHANGED <<rGen, rReq, rTaken>>
  /\ UNCHANGED <<rMine, rAt, claimVars, stopVars, openVars, rOut, rAbs, rUnheard, rHarm>>

\* The program asks for a file operation, writes to its console, faults, or
\* ends; a forced end may leave a request behind.
Program ==
  /\ \/ /\ rState = "running" /\ rReq.done /\ rReq.n < MaxReqs
        /\ rReq' = [g |-> rGen, n |-> rReq.n + 1, done |-> FALSE]
        /\ UNCHANGED <<rState, rOut>>
     \/ /\ rState = "running" /\ rGen = rMine /\ rOut = "none" /\ rOut' = "pending"
        /\ UNCHANGED <<rReq, rState>>
     \/ /\ rState = "running" /\ rState' \in {"faulted", "idle"} /\ UNCHANGED <<rReq, rOut>>
     \/ /\ rState \in {"stopping", "faulted"} /\ rState' = "idle" /\ UNCHANGED <<rReq, rOut>>
  /\ UNCHANGED <<rGen, rMine, rAt, claimVars, stopVars, openVars, rAbs, rTaken, rUnheard, rHarm>>

\* STOP names a generation; the card takes it for that one only.
TakesStop(g) ==
  /\ rState' = IF g = rGen /\ rState \in {"loading", "running"} THEN "stopping" ELSE rState
  /\ rHarm' = IF g = rGen /\ g # rMine /\ rBegin # "late" THEN rHarm \cup {"stopped"} ELSE rHarm

\* A STOP whose answer the launcher did not wait for.
CardStops ==
  /\ \E g \in rUnheard : TakesStop(g)
  /\ UNCHANGED <<rGen, rMine, rReq, rAt, claimVars, stopVars, openVars, rOut, rAbs, rTaken,
                 rUnheard>>

-----------------------------------------------------------------------------
(* Load and claim.                                                         *)

\* main up to LOAD_BEGIN: the runtime must be idle; mailbox_long queues it.
Begin ==
  /\ rAt = "main"
  /\ \/ /\ rState # "idle" /\ rAt' = "cleanup" /\ UNCHANGED <<rPrior, rBegin>>
     \/ /\ rState = "idle" /\ rPrior' = rGen /\ rAt' = "begin" /\ rBegin' \in {"queued", "unsent"}
  /\ UNCHANGED <<runtimeVars, rOwned, stopVars, openVars, rOut, rAbs, rTaken, rUnheard, rHarm>>

\* mailbox_long gives up after its time and cancels what the card may do yet.
BeginTimeout ==
  /\ rAt = "begin" /\ rBegin = "queued" /\ rBegin' = "late"
  /\ UNCHANGED <<runtimeVars, rAt, rPrior, rOwned, stopVars, openVars, rOut, rAbs, rTaken,
                 rUnheard, rHarm>>

owns_current_generation == rOwned # 0 /\ rGen = rOwned

\* zzrun_load_generation_to_claim: nothing for a request that was not sent or
\* was refused as busy; otherwise a new generation that is not idle.
Claimed ==
  IF rBegin \in {"unsent", "busy"} \/ rState = "idle" \/ rGen \in {0, rPrior} THEN 0 ELSE rGen

\* A STOP is sent and its result discarded: it may be refused, or time out and
\* be carried out later.
StopMail(g) ==
  \/ g = 0 /\ UNCHANGED stopped
  \/ g # 0 /\ TakesStop(g) /\ UNCHANGED rUnheard
  \/ g # 0 /\ rUnheard' = rUnheard \cup {g} /\ UNCHANGED <<rState, rHarm>>

\* claim_load_begin, and load_elf's ways out before the first chunk.
ClaimBegin ==
  /\ rAt = "begin" /\ rBegin # "queued" /\ rOwned' = Claimed
  /\ \/ rBegin = "ok" /\ rOwned' # 0 /\ rAt' = "load" /\ UNCHANGED stopped
     \/ rBegin = "ok" /\ rOwned' = 0 /\ rAt' = "cleanup" /\ UNCHANGED stopped
     \/ rBegin # "ok" /\ rAt' = "cleanup" /\ StopMail(rOwned')
  /\ UNCHANGED <<rGen, rMine, rReq, rPrior, rBegin, stopVars, openVars, rOut, rAbs, rTaken>>

stop_owned == StopMail(IF owns_current_generation THEN rOwned ELSE 0)

\* load_elf and APP_START: chunk by chunk; the user's break, a short read, a
\* refused operation or a missing answer stops the load.
Load ==
  /\ rAt = "load"
  /\ \/ /\ rState' = IF rGen = rOwned /\ rState = "loading" THEN "running" ELSE rState
        /\ rAt' \in {"loop", "unload"}
     \/ UNCHANGED rState /\ rAt' = "unload"
  /\ UNCHANGED <<rGen, rMine, rReq, claimVars, stopVars, openVars, rOut, rAbs, rTaken, rUnheard,
                 rHarm>>

Unload ==
  /\ rAt = "unload" /\ rAt' = "cleanup" /\ stop_owned
  /\ UNCHANGED <<rGen, rMine, rReq, claimVars, stopVars, openVars, rOut, rAbs, rTaken>>

-----------------------------------------------------------------------------
(* File operations.                                                        *)

\* under_root climbs with ParentDir until it meets the root: a set that holds the
\* directory and the parent of each of its own holds the root too.
UnderRoot(d) ==
  \A s \in SUBSET Dirs :
    d \in s /\ (\A e \in s : UpOf[e] \in Dirs => UpOf[e] \in s) => RootDir \in s

NoWalk == [cur |-> "none", hold |-> "none"]

\* enter_dir, step_parent: the next directory, or "none" outside the root.
EnterDir(cur, name) ==
  IF Into[cur][name] \in Dirs /\ UnderRoot(Into[cur][name]) THEN Into[cur][name] ELSE "none"

StepParent(cur) == IF UpOf[cur] \in Dirs /\ UnderRoot(UpOf[cur]) THEN UpOf[cur] ELSE "none"

\* A name is held back until the next one shows it to be a directory.
Here(w) == IF w.hold = "none" THEN w.cur ELSE EnterDir(w.cur, w.hold)

ResolveStep(w, comp) ==
  IF Here(w) = "none" THEN NoWalk
  ELSE IF comp = "up" THEN [cur |-> StepParent(Here(w)), hold |-> "none"]
  ELSE [cur |-> Here(w), hold |-> comp]

\* final_path_under_root, lock_target: the directory the last name leads to; a
\* new file is created where it is looked for.  With ABS the last name of a list
\* may lead out of the root.
PathTarget(w) ==
  IF rCap.op = "open"
  THEN IF w.hold # "none" /\ Into[w.cur][w.hold] \in {"file", "none"} THEN w.cur ELSE "none"
  ELSE IF rAbs /\ w.hold # "none" /\ Into[w.cur][w.hold] \in Dirs THEN Into[w.cur][w.hold]
  ELSE Here(w)

\* Compares the sequence number alone.
CurrentBySeq == rReq.n = rCap.n

\* file_request_is_current
Current == rReq.n = rCap.n /\ rReq.g = rCap.g

dosRest == <<rGen, rState, rMine, claimVars, stopVars, rOut, rAbs, rUnheard>>
noWrite == <<rReq, rTaken, rHarm>>
Ends == rAt' = "answer"
Served == rAt' = "services" /\ rCap' = NoCap

\* The check before a write to the window: a stale request is dropped.  It is a
\* check of ownership only for a request of the launcher's own program.
Checked(then) ==
  /\ IF Current THEN rAt' = then /\ UNCHANGED rCap ELSE Served
  /\ rTaken' = (rTaken /\ rCap.g # rOwned)
  /\ UNCHANGED <<dosRest, rFiles, rWalk, rNew, rReq, rHarm>>

\* A write behind the check harms the program of another launcher; only a
\* take-over since the last check of ownership excuses it.
WriteHarm ==
  rHarm' = IF rGen # rOwned /\ ~rTaken THEN rHarm \cup {"written"} ELSE rHarm

\* file_reply: check, then the words of the slot, its sequence number last.
file_reply ==
  \/ rAt = "answer" /\ Checked("reply")
  \/ /\ rAt = "reply" /\ Served /\ WriteHarm
     /\ rReq' = [rReq EXCEPT !.n = rCap.n, !.done = TRUE]
     /\ UNCHANGED <<dosRest, rFiles, rWalk, rNew, rTaken>>

\* file_copy_data_if_current: check, then the data area.  A list gives one name.
file_copy ==
  \/ /\ rAt = "dos" /\ rCap.op \in {"read", "list_next"} /\ rFiles[rCap.fd] # "free"
     /\ Checked("copy")
  \/ /\ rAt = "copy" /\ rAt' = (IF rCap.op = "read" THEN "dos" ELSE "answer") /\ WriteHarm
     /\ UNCHANGED <<dosRest, openVars, rReq, rTaken>>

\* A slot in use or a malformed path is refused; a path that names a volume is
\* opened as it is with ABS, and refused without.
Opens(op) ==
  /\ rAt = "dos" /\ rCap.op = op
  /\ \/ Ends /\ UNCHANGED openVars
     \/ /\ rFiles[rCap.fd] = "free" /\ rAt' = "resolve"
        /\ rWalk' = [cur |-> RootDir, hold |-> "none"]
        /\ UNCHANGED <<rFiles, rCap, rNew>>
     \/ /\ rFiles[rCap.fd] = "free" /\ rAbs /\ rAt' = "opened" /\ rNew' \in Dirs
        /\ UNCHANGED <<rFiles, rCap, rWalk>>
  /\ UNCHANGED <<noWrite, dosRest>>

serve_open == Opens("open")
serve_list_open == Opens("list_open")

\* resolve_rel, a component at a time: each is a DOS call.
resolve_rel ==
  /\ rAt = "resolve"
  /\ \E comp \in PathNames \cup {"up"} : rWalk' = ResolveStep(rWalk, comp)
  /\ rWalk'.cur # "none"
  /\ UNCHANGED <<rAt, rFiles, rCap, rNew, noWrite, dosRest>>

\* The path is at its end: Open or Lock; or a step left the root or failed.
PathEnds ==
  /\ rAt = "resolve" /\ rWalk' = NoWalk
  /\ \/ PathTarget(rWalk) # "none" /\ rNew' = PathTarget(rWalk) /\ rAt' = "opened"
     \/ Ends /\ UNCHANGED rNew
  /\ UNCHANGED <<rFiles, rCap, noWrite, dosRest>>

\* The examined object goes into the table if the request still stands, and is
\* closed otherwise.
Opened ==
  /\ rAt = "opened" /\ rNew' = "none" /\ Ends
  /\ rFiles' = IF Current THEN [rFiles EXCEPT ![rCap.fd] = rNew] ELSE rFiles
  /\ UNCHANGED <<dosRest, rCap, rWalk, noWrite>>

Closes(op) ==
  /\ rAt = "dos" /\ rCap.op = op /\ Ends
  /\ rFiles' = [rFiles EXCEPT ![rCap.fd] = "free"]
  /\ UNCHANGED <<dosRest, rCap, rWalk, rNew, noWrite>>

serve_close == Closes("close")
serve_list_close == Closes("list_close")

\* Answered after its DOS calls, whatever they say.
Completes(op) ==
  /\ rAt = "dos" /\ rCap.op = op /\ Ends
  /\ UNCHANGED <<dosRest, openVars, noWrite>>

\* Chunk by chunk (file_copy); a request that became stale ends without an answer.
serve_read == Completes("read")
serve_list_next == Completes("list_next")

serve_write ==
  \/ Completes("write")
  \/ rAt = "dos" /\ rCap.op = "write" /\ rFiles[rCap.fd] # "free" /\ Checked("dos")

serve_seek == Completes("seek")
serve_stat == Completes("stat")
serve_unknown == Completes("unknown")

-----------------------------------------------------------------------------
(* The loop.                                                               *)

\* request_stop, once: the stop word and the STOP operation for the own
\* program, and the stop event.
request_stop ==
  IF rAsked THEN UNCHANGED <<rAsked, rGraces, stopped>>
  ELSE rAsked' = TRUE /\ rGraces' = 0 /\ stop_owned

\* Wait returns: ownership first, then the break keys and the window's close
\* gadget; a STOP waits for its answer.
LoopTop ==
  /\ rAt = "loop"
  /\ \/ /\ ~owns_current_generation /\ rAt' = "lost"
        /\ UNCHANGED <<stopVars, stopped, rTaken>>
     \/ /\ owns_current_generation /\ rTaken' = FALSE /\ rAt' = "serve"
        /\ \/ UNCHANGED <<stopVars, stopped>>
           \/ rUser' \in {TRUE, rUser} /\ request_stop
  /\ UNCHANGED <<rGen, rMine, rReq, claimVars, openVars, rOut, rAbs>>

\* The request, and the generation the window shows now: what it asks for is
\* chosen as it is read.  One read while it is written is left for the next round.
serve_files ==
  /\ rAt = "serve"
  /\ \/ /\ ~rReq.done /\ rAt' = "dos"
        /\ \E op \in Ops, f \in FdIds : rCap' = [g |-> rReq.g, n |-> rReq.n, op |-> op, fd |-> f]
     \/ UNCHANGED rCap /\ rAt' = "services"
  /\ UNCHANGED <<dosRest, rFiles, rWalk, rNew, noWrite>>

\* Console, sound, log and palette; then ownership again.
Services ==
  /\ rAt = "services"
  /\ \/ rOut' \in {rOut, "none"} /\ (rOut = "failed" => rOut' = rOut)
        /\ UNCHANGED <<stopVars, stopped>>
     \/ rOut # "failed" /\ rOut' = "failed" /\ UNCHANGED rUser /\ request_stop
  /\ rAt' = IF owns_current_generation THEN "decide" ELSE "lost"
  /\ UNCHANGED <<rGen, rMine, rReq, claimVars, openVars, rAbs, rTaken>>

\* zzrun_run_should_exit
ShouldExit(asked, graces) ==
  LET blocked == rOut = "pending" IN
  \/ ~owns_current_generation
  \/ rUser /\ graces = 2
  \/ ~blocked /\ rState = "faulted"
  \/ ~blocked /\ rState = "idle" /\ (asked => graces >= 1)
  \/ ~blocked /\ rState = "stopping" /\ asked /\ graces >= 1
  \/ ~blocked /\ asked /\ graces = 2

\* The display request is served, or fails and stops the program.
Decide ==
  /\ rAt = "decide"
  /\ \/ UNCHANGED <<stopVars, stopped>>
     \/ UNCHANGED rUser /\ request_stop
  /\ rAt' = IF ShouldExit(rAsked', rGraces') THEN "cleanup" ELSE "loop"
  /\ UNCHANGED <<rGen, rMine, rReq, claimVars, openVars, rOut, rAbs, rTaken>>

Grace ==
  /\ rAsked /\ rGraces < 2 /\ rGraces' = rGraces + 1
  /\ UNCHANGED <<runtimeVars, rAt, claimVars, rAsked, rUser, openVars, rOut, rAbs, rTaken,
                 rUnheard, rHarm>>

\* run_loop gives up the window; cleanup then touches nothing of the card.
Lost ==
  /\ rAt = "lost" /\ rAt' = "gone" /\ rFiles' = [f \in FdIds |-> "free"]
  /\ UNCHANGED <<runtimeVars, claimVars, stopVars, rCap, rWalk, rNew, rOut, rAbs, rTaken,
                 rUnheard, rHarm>>

\* cleanup: a program that was not asked to stop is stopped, then everything
\* is released.
Cleanup ==
  /\ rAt = "cleanup" /\ rAt' = "gone"
  /\ IF ~rAsked /\ rState # "idle" THEN stop_owned ELSE UNCHANGED stopped
  /\ rFiles' = [f \in FdIds |-> "free"]
  /\ UNCHANGED <<rGen, rMine, rReq, claimVars, stopVars, rCap, rWalk, rNew, rOut, rAbs, rTaken>>

-----------------------------------------------------------------------------
RunInit ==
  /\ rGen = 0 /\ rState = "idle" /\ rMine = 0 /\ rReq = NoReq
  /\ rAt = "main" /\ rPrior = 0 /\ rBegin = "none" /\ rOwned = 0
  /\ rAsked = FALSE /\ rUser = FALSE /\ rGraces = 0
  /\ rFiles = [f \in FdIds |-> "free"] /\ rCap = NoCap /\ rWalk = NoWalk
  /\ rNew = "none"
  /\ rOut = "none" /\ rAbs \in BOOLEAN /\ rTaken = FALSE /\ rUnheard = {} /\ rHarm = {}

RunNext ==
  \/ CardBegin \/ OtherLauncher \/ Program \/ CardStops
  \/ Begin \/ BeginTimeout \/ ClaimBegin \/ Load \/ Unload
  \/ file_reply \/ file_copy
  \/ serve_open \/ serve_list_open \/ resolve_rel \/ PathEnds \/ Opened
  \/ serve_close \/ serve_list_close
  \/ serve_read \/ serve_write \/ serve_list_next \/ serve_seek \/ serve_stat \/ serve_unknown
  \/ LoopTop \/ serve_files \/ Services \/ Decide \/ Grace \/ Lost \/ Cleanup

RunSpec == RunInit /\ [][RunNext]_runVars

-----------------------------------------------------------------------------
\* The generation a launcher holds for its own is the one the card gave it,
\* unless its APP_LOAD_BEGIN timed out; no other program is stopped, also not by
\* a STOP carried out late, and the window of another program is written only
\* when it took the runtime over since the launcher last found it its own.
OnlyOwn == (rOwned # 0 /\ rBegin # "late" => rOwned = rMine) /\ rHarm = {}

\* Every open file and directory lies under the root, unless the user allowed
\* paths that name a volume; the walk of a relative path never leaves it.
FilesUnderRoot ==
  /\ ~rAbs => \A f \in FdIds : rFiles[f] # "free" => UnderRoot(rFiles[f])
  /\ rWalk.cur # "none" => UnderRoot(rWalk.cur)

\* A launcher that is gone left nothing open, and its program, if it is still
\* there, was stopped, or a STOP sent for it was never answered.
NothingLeft ==
  rAt = "gone" =>
    /\ rNew = "none" /\ \A f \in FdIds : rFiles[f] = "free"
    /\ rMine # 0 /\ rGen = rMine /\ rBegin # "late" /\ rState \notin {"stopping", "idle", "faulted"}
       => rMine \in rUnheard

\* Own program and root only, and nothing left behind.
LauncherSafe == OnlyOwn /\ FilesUnderRoot /\ NothingLeft

\* A launcher of programs touches its own program and root only, shows and
\* frees buffers when they are safe, and leaves nothing behind.
RunSafe == LauncherSafe /\ DisplaySafe
=============================================================================
