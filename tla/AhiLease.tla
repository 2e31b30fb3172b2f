------------------------------ MODULE AhiLease ------------------------------
(***************************************************************************)
(* Playback of the AHI driver in fabric mode (zz9000ax-ahi.c): the lease   *)
(* on a firmware audio ring, acquired by Start or by the worker's recovery,*)
(* surrendered by Stop and FreeAudio, revoked by the firmware, and the PCM *)
(* periods staged through it.                                              *)
(*                                                                         *)
(* Three tasks run this code.  The worker has priority 110, so the callers *)
(* of Start, Stop and FreeAudio run only while it waits for its timer or a *)
(* mailbox completion; it may preempt them between any two steps.  AHI     *)
(* serialises the calls of one client, except that a Stop may come while a *)
(* Start waits in the mailbox.                                             *)
(***************************************************************************)
EXTENDS Naturals, Sequences

CONSTANTS Slots,      \* ZZ9K_AUDIO_RING_SLOT_MAX
          RingCap,    \* periods the granted ring holds
          MaxGen,     \* bound: Stops
          MaxLeases   \* bound: grants of the firmware

ASSUME SlotsAssumption == Slots \in Nat

Tasks == {"start", "stop", "worker"}
RunwayPeriods == 2          \* LEASE_RUNWAY_PERIODS
AccumPeriods == 1           \* BOUNCE_BUFSZ in periods of the mix rate

VARIABLES
  playing,      \* ~play_stop
  gen,          \* play_transport_generation
  held,         \* lease_held
  session,      \* id of lease_session.grant, 0 when zeroed
  mapped,       \* lease_session.mapped
  pending,      \* lease_release_pending: the id to release, or 0
  releasing,    \* lease_release_in_progress
  acquiring,    \* lease_acquire_in_progress
  uncertain,    \* lease_acquire_uncertain
  retryAt,      \* lease_retry_deadline is set
  accum,        \* lease_accum: the generation each staged period was mixed in
  ring,         \* periods in the granted ring, the same way
  paused,       \* ZZ9K_AUDIO_RING_PRODUCER_FLAG_PAUSED
  at,           \* where each task is
  back, ret,    \* where its release, and its acquire, return to
  slot,         \* slot its acquire tries
  reply,        \* answer of the firmware to it, with the lease granted
  seen,         \* start_generation, recovery_generation
  fw,           \* the firmware's lease of every slot, 0 when free
  granted,      \* ids the firmware has used
  unacked,      \* history: leases whose acquire or release timed out
  unusable      \* history: grants the driver rejected

transport == <<playing, gen>>
lease == <<held, session, mapped, pending, releasing, acquiring, uncertain, retryAt>>
pcm == <<accum, ring, paused>>
calls == <<back, ret, slot, reply, seen>>
card == <<fw, granted, unacked, unusable>>
leaseVars == <<transport, lease, pcm, at, calls, card>>

\* The worker waits, so a caller may run.
Blocked == at["worker"] \in {"wait", "gone", "acquire sent", "release sent"}
MayRun(t) == t = "worker" \/ Blocked

Go(t, place) == at' = [at EXCEPT ![t] = place]
CallRelease(t, then) == Go(t, "release") /\ back' = [back EXCEPT ![t] = then]
Live(id) == \E s \in 1..Slots : fw[s] = id

-----------------------------------------------------------------------------
(* fabric_lease_release                                                    *)

ReleaseBegin(t) ==
  /\ at[t] = "release" /\ MayRun(t)
  /\ \/ releasing /\ Go(t, back[t]) /\ UNCHANGED releasing
     \/ ~releasing /\ releasing' = TRUE /\ Go(t, "transfer")
  /\ UNCHANGED <<transport, held, session, mapped, pending, acquiring,
                 uncertain, retryAt, pcm, calls, card>>

\* Forgets the identity of the held lease.
TransferNothing == UNCHANGED pending

\* The held lease becomes the one to release.
Transfer == pending' = IF held THEN session ELSE pending

\* lease_held is read outside Forbid: a grant may still arrive behind it.
ReleaseTransfer(t) ==
  /\ at[t] = "transfer" /\ MayRun(t) /\ Go(t, "send release")
  /\ Transfer
  /\ held' = FALSE
  /\ session' = IF held THEN 0 ELSE session
  /\ mapped' = (mapped /\ ~held)
  /\ UNCHANGED <<transport, releasing, acquiring, uncertain, retryAt, pcm, calls, card>>

ReleaseSend(t) ==
  /\ at[t] = "send release" /\ MayRun(t)
  /\ \/ pending = 0 /\ releasing' = FALSE /\ Go(t, back[t])
     \/ pending # 0 /\ Go(t, "release sent") /\ UNCHANGED releasing
  /\ UNCHANGED <<transport, held, session, mapped, pending, acquiring,
                 uncertain, retryAt, pcm, calls, card>>

\* The firmware drops the lease if the identity is still current.  The call
\* may time out with the command carried out or not.
FwRelease(t) ==
  /\ at[t] = "release sent" /\ Go(t, "release answered")
  /\ \E ok, done \in BOOLEAN :
       /\ ok => done
       /\ reply' = [reply EXCEPT ![t] = <<IF ok THEN "ok" ELSE "timeout", 0>>]
       /\ fw' = IF done THEN [s \in 1..Slots |-> IF fw[s] = pending THEN 0 ELSE fw[s]] ELSE fw
       /\ unacked' = IF ok THEN unacked ELSE unacked \cup {pending}
  /\ UNCHANGED <<transport, lease, pcm, back, ret, slot, seen, granted, unusable>>

\* A failed completion keeps the identity and schedules a retry.
ReleaseDone(t) ==
  /\ at[t] = "release answered" /\ MayRun(t) /\ Go(t, back[t])
  /\ releasing' = FALSE
  /\ \/ reply[t][1] = "ok" /\ pending' = 0 /\ retryAt' = FALSE
     \/ reply[t][1] # "ok" /\ retryAt' = TRUE /\ UNCHANGED pending
  /\ UNCHANGED <<transport, held, session, mapped, acquiring, uncertain, pcm, calls, card>>

-----------------------------------------------------------------------------
(* fabric_lease_acquire                                                    *)

\* One slot after the other; a request refused as bad is repeated without
\* the byte order flag, which changes nothing here.
AcquireSend(t) ==
  /\ at[t] = "acquire" /\ MayRun(t)
  /\ \/ slot[t] > Slots /\ Go(t, ret[t])
     \/ slot[t] <= Slots /\ Go(t, "acquire sent")
  /\ UNCHANGED <<transport, lease, pcm, calls, card>>

\* A free slot may be granted, usable or not, with the answer lost or not;
\* any request may be refused or time out unserved.
FwAcquire(t) ==
  /\ at[t] = "acquire sent" /\ Go(t, "acquire answered")
  /\ \/ /\ \E r \in {"refused", "timeout"} : reply' = [reply EXCEPT ![t] = <<r, 0>>]
        /\ UNCHANGED card
     \/ /\ fw[slot[t]] = 0 /\ granted < MaxLeases
        /\ granted' = granted + 1
        /\ fw' = [fw EXCEPT ![slot[t]] = granted']
        /\ \E r \in {"usable", "unusable", "timeout"} :
             /\ reply' = [reply EXCEPT ![t] = <<r, granted'>>]
             /\ unacked' = IF r = "timeout" THEN unacked \cup {granted'} ELSE unacked
             /\ unusable' = IF r = "unusable" THEN unusable \cup {granted'} ELSE unusable
  /\ UNCHANGED <<transport, lease, pcm, back, ret, slot, seen>>

AcquireDone(t) ==
  /\ at[t] = "acquire answered" /\ MayRun(t)
  /\ \/ /\ reply[t][1] = "usable"                    \* published paused, ring zeroed
        /\ held' = TRUE /\ session' = reply[t][2] /\ mapped' = TRUE
        /\ paused' = TRUE /\ ring' = << >> /\ retryAt' = FALSE
        /\ Go(t, ret[t])
        /\ UNCHANGED <<uncertain, back, slot>>
     \/ /\ reply[t][1] = "unusable"                  \* surrendered at once
        /\ held' = TRUE /\ session' = reply[t][2] /\ mapped' = FALSE
        /\ CallRelease(t, "rejected")
        /\ UNCHANGED <<paused, ring, uncertain, retryAt, slot>>
     \/ /\ reply[t][1] = "timeout"                   \* applied, perhaps
        /\ uncertain' = TRUE /\ retryAt' = TRUE /\ Go(t, ret[t])
        /\ UNCHANGED <<held, session, mapped, paused, ring, back, slot>>
     \/ /\ reply[t][1] = "refused"
        /\ slot' = [slot EXCEPT ![t] = @ + 1] /\ Go(t, "acquire")
        /\ UNCHANGED <<held, session, mapped, paused, ring, uncertain, retryAt, back>>
  /\ UNCHANGED <<transport, pending, releasing, acquiring, accum, ret, reply, seen, card>>

\* Another slot is tried only when the unusable grant is surely gone.
Rejected(t) ==
  /\ at[t] = "rejected" /\ MayRun(t)
  /\ reply' = [reply EXCEPT ![t] = <<"refused", 0>>]
  /\ \/ pending # 0 /\ Go(t, ret[t]) /\ UNCHANGED slot
     \/ pending = 0 /\ slot' = [slot EXCEPT ![t] = @ + 1] /\ Go(t, "acquire")
  /\ UNCHANGED <<transport, lease, pcm, back, ret, seen, card>>

Acquired(t) == reply[t][1] = "usable"

CallAcquire(t, then) ==
  /\ Go(t, "acquire") /\ ret' = [ret EXCEPT ![t] = then]
  /\ slot' = [slot EXCEPT ![t] = 1]
  /\ reply' = [reply EXCEPT ![t] = <<"refused", 0>>]
  /\ seen' = [seen EXCEPT ![t] = gen]

-----------------------------------------------------------------------------
(* intAHIsub_Start, intAHIsub_Stop and intAHIsub_FreeAudio.                *)

Idle(t) == at[t] = "idle" /\ Blocked

\* A release or an acquire that is not settled refuses the Start.
Unsettled == pending # 0 \/ releasing \/ uncertain \/ acquiring

Start ==
  /\ Idle("start") /\ at["stop"] = "idle" /\ ~playing
  /\ ~Unsettled
  /\ \/ held /\ Go("start", "started") /\ seen' = [seen EXCEPT !["start"] = gen]
             /\ UNCHANGED <<acquiring, ret, slot, reply>>
     \/ ~held /\ acquiring' = TRUE /\ CallAcquire("start", "acquired")
  /\ UNCHANGED <<transport, held, session, mapped, pending, releasing,
                 uncertain, retryAt, pcm, back, card>>

\* A refused lease fails the Start.
StartAcquired ==
  /\ at["start"] = "acquired" /\ Blocked
  /\ \/ Acquired("start") /\ Go("start", "started") /\ UNCHANGED acquiring
     \/ ~Acquired("start") /\ acquiring' = FALSE /\ Go("start", "idle")
  /\ UNCHANGED <<transport, held, session, mapped, pending, releasing,
                 uncertain, retryAt, pcm, calls, card>>

\* A Stop that came meanwhile wins: the stale grant is surrendered first.
StartPublish ==
  /\ at["start"] = "started" /\ Blocked
  /\ \/ /\ gen # seen["start"] /\ CallRelease("start", "start stale")
        /\ UNCHANGED <<playing, acquiring>>
     \/ /\ gen = seen["start"] /\ playing' = TRUE /\ acquiring' = FALSE
        /\ Go("start", "idle") /\ UNCHANGED back
  /\ UNCHANGED <<gen, held, session, mapped, pending, releasing,
                 uncertain, retryAt, pcm, ret, slot, reply, seen, card>>

StartStale ==
  /\ at["start"] = "start stale" /\ Blocked
  /\ acquiring' = FALSE /\ Go("start", "idle")
  /\ UNCHANGED <<transport, held, session, mapped, pending, releasing,
                 uncertain, retryAt, pcm, calls, card>>

StopBegin ==
  /\ Idle("stop") /\ at["start"] \notin {"free", "join", "freed"} /\ gen < MaxGen
  /\ playing' = FALSE /\ gen' = gen + 1
  /\ Go("stop", "stopped")
  /\ UNCHANGED <<lease, pcm, calls, card>>

\* Leaves the mixed period in the accumulator.
StopKeepsAccum == accum' = accum

\* The staged period must not survive the Stop.
StopDropsAccum == accum' = << >>

StopSurrender ==
  /\ at["stop"] = "stopped" /\ Blocked
  /\ StopDropsAccum /\ CallRelease("stop", "idle")
  /\ UNCHANGED <<transport, lease, ring, paused, ret, slot, reply, seen, card>>

FreeBegin ==
  /\ Idle("start") /\ at["stop"] = "idle"
  /\ playing' = FALSE
  /\ Go("start", "free") /\ slot' = [slot EXCEPT !["start"] = 0]
  /\ UNCHANGED <<gen, lease, pcm, back, ret, reply, seen, card>>

\* Up to three attempts while the worker, and so timer.device, is still
\* there; then the worker is told to leave.
FreeRelease ==
  /\ at["start"] = "free" /\ Blocked
  /\ \/ /\ slot["start"] < 3 /\ (held \/ pending # 0)
        /\ slot' = [slot EXCEPT !["start"] = @ + 1]
        /\ CallRelease("start", "free")
     \/ /\ ~(slot["start"] < 3 /\ (held \/ pending # 0))
        /\ Go("start", "join") /\ UNCHANGED <<slot, back>>
  /\ UNCHANGED <<transport, lease, pcm, ret, reply, seen, card>>

FreeJoin ==
  /\ at["start"] = "join" /\ at["worker"] = "gone"
  /\ Go("start", "freed")
  /\ UNCHANGED <<transport, lease, pcm, calls, card>>

-----------------------------------------------------------------------------
(* WorkerProcess in fabric mode: fabric_lease_pump on every timer wake.    *)

WorkerQuit ==
  /\ at["worker"] = "wait" /\ at["start"] = "join" /\ Go("worker", "gone")
  /\ UNCHANGED <<transport, lease, pcm, calls, card>>

\* Only one blocking acquire may install the shared session.
MayRecover == ~acquiring

\* The retry deadline, when set, has passed.
Pump ==
  /\ at["worker"] = "wait"
  /\ retryAt' = FALSE /\ uncertain' = FALSE
  /\ \/ /\ pending # 0 /\ CallRelease("worker", "wait")
        /\ UNCHANGED <<acquiring, ret, slot, reply, seen>>
     \/ /\ pending = 0 /\ held /\ mapped /\ Go("worker", "credits")
        /\ UNCHANGED <<acquiring, calls>>
     \/ /\ pending = 0 /\ ~held /\ playing /\ MayRecover
        /\ acquiring' = TRUE /\ CallAcquire("worker", "recovered")
        /\ UNCHANGED back
     \/ /\ pending = 0 /\ ~(held /\ mapped) /\ (~playing \/ held \/ ~MayRecover)
        /\ UNCHANGED <<acquiring, at, calls>>
  /\ UNCHANGED <<transport, held, session, mapped, pending, releasing, pcm, card>>

\* Only the transport that began the recovery may keep the grant.
Stale == gen # seen["worker"] \/ ~playing

Recovered ==
  /\ at["worker"] = "recovered"
  /\ \/ /\ ~Acquired("worker")
        /\ acquiring' = FALSE /\ retryAt' = TRUE /\ Go("worker", "wait")
        /\ UNCHANGED <<accum, back>>
     \/ /\ Acquired("worker") /\ Stale
        /\ CallRelease("worker", "recovery stale")
        /\ UNCHANGED <<acquiring, retryAt, accum>>
     \/ /\ Acquired("worker") /\ ~Stale
        /\ acquiring' = FALSE /\ accum' = << >> /\ Go("worker", "credits")
        /\ UNCHANGED <<retryAt, back>>
  /\ UNCHANGED <<transport, held, session, mapped, pending, releasing,
                 uncertain, ring, paused, ret, slot, reply, seen, card>>

RecoveryStale ==
  /\ at["worker"] = "recovery stale" /\ acquiring' = FALSE /\ Go("worker", "wait")
  /\ UNCHANGED <<transport, held, session, mapped, pending, releasing,
                 uncertain, retryAt, pcm, calls, card>>

\* fabric_lease_flush_accum: whole periods while the ring has credit.
Flush(a, r) ==
  IF a # << >> /\ Len(r) < RingCap THEN <<Tail(a), Append(r, Head(a))>> ELSE <<a, r>>

\* A revocation is seen in the credits.  Otherwise the pass drains, mixes
\* one period, drops it when the accumulator has no room, drains again and
\* unpauses at the runway; the heartbeat is published in any case.
Credits ==
  /\ at["worker"] = "credits" /\ Go("worker", "wait")
  /\ \/ /\ ~Live(session)
        /\ held' = FALSE /\ session' = 0 /\ mapped' = FALSE /\ retryAt' = FALSE
        /\ accum' = << >> /\ UNCHANGED <<ring, paused>>
     \/ /\ Live(session)
        /\ LET before == Flush(accum, ring)
               mixed  == IF Len(before[1]) < AccumPeriods
                         THEN Append(before[1], gen) ELSE before[1]
               after  == Flush(mixed, before[2])
           IN  \/ /\ playing /\ accum' = after[1] /\ ring' = after[2]
                  /\ paused' = (paused /\ Len(ring') < RunwayPeriods)
               \/ UNCHANGED pcm           \* stopped or disabled
        /\ UNCHANGED <<held, session, mapped, retryAt>>
  /\ UNCHANGED <<transport, pending, releasing, acquiring, uncertain, calls, card>>

-----------------------------------------------------------------------------
(* The firmware's compositor.                                              *)

FwConsume ==
  /\ Live(session) /\ mapped /\ ~paused /\ ring # << >> /\ Blocked
  /\ ring' = Tail(ring)
  /\ UNCHANGED <<transport, lease, accum, paused, at, calls, card>>

\* Heartbeats that stop, or a cursor out of range.
FwRevoke ==
  /\ \E s \in 1..Slots : fw[s] # 0 /\ fw' = [fw EXCEPT ![s] = 0]
  /\ UNCHANGED <<transport, lease, pcm, at, calls, granted, unacked, unusable>>

-----------------------------------------------------------------------------
LeaseInit ==
  /\ playing = FALSE /\ gen = 0
  /\ held = FALSE /\ session = 0 /\ mapped = FALSE /\ pending = 0
  /\ releasing = FALSE /\ acquiring = FALSE /\ uncertain = FALSE /\ retryAt = FALSE
  /\ accum = << >> /\ ring = << >> /\ paused = FALSE
  /\ at = [t \in Tasks |-> IF t = "worker" THEN "wait" ELSE "idle"]
  /\ back = [t \in Tasks |-> "idle"] /\ ret = [t \in Tasks |-> "idle"]
  /\ slot = [t \in Tasks |-> 1] /\ reply = [t \in Tasks |-> <<"refused", 0>>]
  /\ seen = [t \in Tasks |-> 0]
  /\ fw = [s \in 1..Slots |-> 0] /\ granted = 0 /\ unacked = {} /\ unusable = {}

LeaseNext ==
  \/ \E t \in Tasks :
       \/ ReleaseBegin(t) \/ ReleaseTransfer(t) \/ ReleaseSend(t) \/ ReleaseDone(t)
       \/ AcquireSend(t) \/ AcquireDone(t) \/ Rejected(t)
       \/ FwRelease(t) \/ FwAcquire(t)
  \/ Start \/ StartAcquired \/ StartPublish \/ StartStale
  \/ StopBegin \/ StopSurrender
  \/ FreeBegin \/ FreeRelease \/ FreeJoin
  \/ Pump \/ Recovered \/ RecoveryStale \/ Credits \/ WorkerQuit
  \/ FwConsume \/ FwRevoke

LeaseSpec == LeaseInit /\ [][LeaseNext]_leaseVars

-----------------------------------------------------------------------------
\* While playback runs, every period in the accumulator and in the ring of
\* the held lease was mixed since the last Stop: a Stop racing the worker's
\* recovery, a revocation or a release that times out never lets PCM of an
\* older timeline through.
NoStalePcm ==
  playing => /\ \A i \in DOMAIN accum : accum[i] = gen
             /\ held /\ mapped => \A i \in DOMAIN ring : ring[i] = gen

\* A usable lease the firmware has granted, and whose grant or release did
\* not time out, is never forgotten: it is held, waits for its release, or
\* is in the answer a task is about to read.
LeaseTracked ==
  \A s \in 1..Slots :
    \/ fw[s] = 0
    \/ fw[s] \in unacked \cup unusable
    \/ held /\ session = fw[s]
    \/ pending = fw[s]
    \/ \E t \in Tasks : at[t] = "acquire answered" /\ reply[t][2] = fw[s]

\* Through every race of Start, Stop, FreeAudio and the worker's recovery, no
\* PCM of a stopped playback is heard and no lease is forgotten.
LeaseSafe == NoStalePcm /\ LeaseTracked
=============================================================================
