---------------------------- MODULE JobLifecycle ----------------------------
(***************************************************************************)
(* What the asynchronous job queue of the gateway promises its callers,    *)
(* with no transaction, worker or process in sight.  A job is stored once, *)
(* leaves the queue oldest first, at most once, and ends in a final state. *)
(* JobQueue, the queue as it is written, implements this module.           *)
(*                                                                         *)
(* Two permissions are deliberate, because the code needs them: a run that *)
(* is under way may be abandoned (the gateway stopped) with its job left   *)
(* "running", and the run of a cancelled job still records its result.     *)
(***************************************************************************)
EXTENDS Naturals

CONSTANT Jobs

VARIABLES status,    \* what GET /exec/{id} shows of each job
          stamp,     \* when the job was submitted, 0 before
          inflight   \* the jobs some worker has in hand

vars == <<status, stamp, inflight>>

Results == {"completed", "failed"}
Statuses == {"absent", "pending", "running", "cancelled"} \cup Results

Init == /\ status = [j \in Jobs |-> "absent"]
        /\ stamp = [j \in Jobs |-> 0]
        /\ inflight = {}

Submit(j) == /\ status[j] = "absent"
             /\ status' = [status EXCEPT ![j] = "pending"]
             /\ stamp'[j] \in Nat
             /\ stamp' = [stamp EXCEPT ![j] = stamp'[j]]
             /\ UNCHANGED inflight

\* Only the oldest pending job can be taken, and only while it is pending.
Claim(j) == /\ status[j] = "pending"
            /\ \A k \in Jobs : status[k] = "pending" => stamp[j] <= stamp[k]
            /\ status' = [status EXCEPT ![j] = "running"]
            /\ inflight' = inflight \cup {j}
            /\ UNCHANGED stamp

Cancel(j) == /\ status[j] \in {"pending", "running"}
             /\ status' = [status EXCEPT ![j] = "cancelled"]
             /\ UNCHANGED <<stamp, inflight>>

\* The result of a run is recorded once, whatever the status became meanwhile.
Finish(j) == /\ j \in inflight
             /\ \E r \in Results : status' = [status EXCEPT ![j] = r]
             /\ inflight' = inflight \ {j}
             /\ UNCHANGED stamp

\* The gateway stops, or a result cannot be recorded.
Abandon == /\ inflight' \subseteq inflight
           /\ UNCHANGED <<status, stamp>>

Next == \/ \E j \in Jobs : Submit(j) \/ Claim(j) \/ Cancel(j) \/ Finish(j)
        \/ Abandon

Spec == Init /\ [][Next]_vars
=============================================================================
