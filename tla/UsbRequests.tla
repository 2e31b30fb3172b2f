---------------------------- MODULE UsbRequests ----------------------------
(***************************************************************************)
(* What zzusbhw.device promises of a request it queues: it is the caller's *)
(* again after exactly one reply, and a request whose abort was accepted   *)
(* is replied as aborted and never as done.                                *)
(***************************************************************************)
CONSTANT Iors       \* the I/O requests of all callers

VARIABLES st,       \* who has each request
          res       \* the io_Error a finished request carries

Init == /\ st = [i \in Iors |-> "caller"]
        /\ res = [i \in Iors |-> "none"]

Submit(i) ==
  /\ st[i] = "caller"
  /\ \/ st' = [st EXCEPT ![i] = "pending"] /\ UNCHANGED res
     \/ /\ st' = [st EXCEPT ![i] = "done"]
        /\ res' = [res EXCEPT ![i] = "nomem"]

\* AbortIO aborts one request, CMD_FLUSH and CMD_RESET those of a unit.
Abort(set) ==
  /\ set # {} /\ \A i \in set : st[i] = "pending"
  /\ st' = [i \in Iors |-> IF i \in set THEN "aborting" ELSE st[i]]
  /\ UNCHANGED res

Complete(i) ==
  /\ \/ st[i] = "pending" /\ res' = [res EXCEPT ![i] = "done"]
     \/ st[i] = "aborting" /\ res' = [res EXCEPT ![i] = "aborted"]
  /\ st' = [st EXCEPT ![i] = "done"]

\* AbortIO of a finished request only overwrites its io_Error.
LateAbort(i) ==
  /\ st[i] = "done"
  /\ res' = [res EXCEPT ![i] = "aborted"]
  /\ UNCHANGED st

Reclaim(i) ==
  /\ st[i] = "done"
  /\ st' = [st EXCEPT ![i] = "caller"]
  /\ res' = [res EXCEPT ![i] = "none"]

Next == \/ \E i \in Iors :
             Submit(i) \/ Complete(i) \/ LateAbort(i) \/ Reclaim(i)
        \/ \E set \in SUBSET Iors : Abort(set)

Spec == Init /\ [][Next]_<<st, res>>
=============================================================================
