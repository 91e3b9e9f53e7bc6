------------------------------ MODULE JobQueue ------------------------------
(***************************************************************************)
(* The asynchronous execution queue of the gateway: the handlers of POST   *)
(* /exec/async and DELETE /exec/{id}, the workers that drain the queue,    *)
(* the two SQLite tables they share, and the gateway process, which shuts  *)
(* down, crashes and starts again over the same database.                  *)
(*                                                                         *)
(* SQLite runs in WAL mode with deferred transactions.  One connection may *)
(* hold the write lock.  A transaction that reads first (Cancel,           *)
(* ClaimNext) keeps the snapshot of its first read: to write it needs the  *)
(* lock free and no commit since that read, or it fails at once.  One that *)
(* writes first (Submit, Complete) waits for the lock up to busy_timeout.  *)
(* Nothing a transaction wrote is seen before its commit, so its writes    *)
(* are one step, the commit.                                               *)
(*                                                                         *)
(* Jobs, Workers and Cancels are sets of identifiers: a job stands for the *)
(* POST that submits it as well, a cancel is one DELETE request.           *)
(***************************************************************************)
EXTENDS Naturals, FiniteSets

CONSTANTS Jobs, Workers, Cancels, Nobody,
          MaxCrashes,      \* bound on crashes of the process
          MaxShutdowns,    \* bound on orderly stops
          MaxLostWrites    \* bound on results lost to a lock held too long

ASSUME ProcessesAssumption ==
  /\ IsFiniteSet(Jobs) /\ IsFiniteSet(Workers) /\ IsFiniteSet(Cancels)
  /\ Jobs \cap Workers = {} /\ Jobs \cap Cancels = {} /\ Workers \cap Cancels = {}
  /\ Nobody \notin Jobs \cup Workers \cup Cancels

ASSUME BoundsAssumption ==
  MaxCrashes \in Nat /\ MaxShutdowns \in Nat /\ MaxLostWrites \in Nat

VARIABLES
  status,      \* job_queue.status of each job, "absent" without a row
  exec,        \* executions.status of each job
  started,     \* whether job_queue.started_at is set
  created,     \* job_queue.created_at: the time Submit read before it began
  clock,       \* the clock Submit reads
  sub, told,   \* each POST /exec/async: where Submit is, the position returned
  can, target, \* each DELETE /exec/{id}: where Cancel is, the job it names
  wk, job,     \* each worker: where processOne is, the job it took
  outcome,     \* the result a worker has to record
  ran,         \* how often the sandbox was asked to run each job (history)
  writer,      \* who holds the write lock of the database
  fresh,       \* readers whose snapshot no commit has overtaken
  gw,          \* the gateway process
  crashes, shutdowns, lostWrites  \* faults so far

rows     == <<status, exec, started>>
submits  == <<sub, told, created, clock>>
cancels  == <<can, target>>
workers  == <<wk, job, outcome, ran>>
lock     == <<writer, fresh>>
process  == <<gw, crashes, shutdowns, lostWrites>>
vars     == <<rows, submits, cancels, workers, lock, process>>

Results  == {"completed", "failed"}
Terminal == Results \cup {"cancelled"}
Statuses == {"absent", "pending", "running"} \cup Terminal

SubmitInFlight == {"stamped", "writing", "committed"}
CancelInFlight == {"read", "writing"}
\* The phases in which a worker has a job it claimed.
Owning == {"claimed", "running", "recording", "writing"}

TypeOK ==
  /\ status \in [Jobs -> Statuses] /\ exec \in [Jobs -> Statuses]
  /\ started \in [Jobs -> BOOLEAN]
  /\ created \in [Jobs -> Nat] /\ clock \in Nat
  /\ sub \in [Jobs -> SubmitInFlight \cup {"new", "answered", "failed"}]
  /\ told \in [Jobs -> Nat]
  /\ can \in [Cancels -> CancelInFlight \cup {"new", "ok", "conflict", "notfound", "error"}]
  /\ target \in [Cancels -> Jobs \cup {Nobody}]
  /\ wk \in [Workers -> Owning \cup {"idle", "selected", "claiming", "stopped"}]
  /\ job \in [Workers -> Jobs \cup {Nobody}]
  /\ outcome \in [Workers -> Results]
  /\ ran \in [Jobs -> Nat]
  /\ writer \in Jobs \cup Workers \cup Cancels \cup {Nobody}
  /\ fresh \subseteq Workers \cup Cancels
  /\ gw \in {"up", "draining", "stopping", "down"}
  /\ crashes \in Nat /\ shutdowns \in Nat /\ lostWrites \in Nat

Init ==
  /\ status = [j \in Jobs |-> "absent"] /\ exec = [j \in Jobs |-> "absent"]
  /\ started = [j \in Jobs |-> FALSE]
  /\ created = [j \in Jobs |-> 0] /\ clock = 0
  /\ sub = [j \in Jobs |-> "new"] /\ told = [j \in Jobs |-> 0]
  /\ can = [c \in Cancels |-> "new"] /\ target = [c \in Cancels |-> Nobody]
  /\ wk = [w \in Workers |-> "idle"] /\ job = [w \in Workers |-> Nobody]
  /\ outcome = [w \in Workers |-> "failed"]
  /\ ran = [j \in Jobs |-> 0]
  /\ writer = Nobody /\ fresh = {}
  /\ gw = "up" /\ crashes = 0 /\ shutdowns = 0 /\ lostWrites = 0

-----------------------------------------------------------------------------
(* The database.  The variants named ...Faulty are the mistakes the        *)
(* properties are validated against; no action uses them.                  *)

\* A reader becomes the writer: SQLITE_BUSY unless the lock is free,
\* SQLITE_BUSY_SNAPSHOT unless its snapshot is the latest.
UpgradableFaulty(p) == writer = Nobody
Upgradable(p) == writer = Nobody /\ p \in fresh

\* A commit frees the lock and overtakes every open snapshot.
Commit == writer' = Nobody /\ fresh' = {}

\* A rollback, of a transaction that may or may not hold the lock.
Rollback(p) == /\ writer' = IF writer = p THEN Nobody ELSE writer
               /\ fresh' = fresh \ {p}

\* The row ClaimNext selects: ORDER BY created_at ASC LIMIT 1, ties either way.
OldestFaulty(j) == status[j] = "pending"
Oldest(j) == /\ status[j] = "pending"
             /\ \A k \in Jobs : status[k] = "pending" => created[j] <= created[k]

\* positionOf, a count of its own after the commit.
PositionOf(j) ==
  Cardinality({k \in Jobs : status[k] = "pending" /\ created[k] <= created[j]})

\* Cancel refuses the terminal states.
CancellableFaulty(s) == s \notin {"absent", "completed"}
Cancellable(s) == s \notin {"absent"} \cup Terminal

\* A handler that has begun runs on until the process ends.
Alive == gw # "down"
\* The context of the workers, cancelled by Worker.Stop.
Live == gw \in {"up", "draining"}

-----------------------------------------------------------------------------
(* POST /exec/async: Queue.Submit for job j *)

\* created_at is read before the transaction begins: two submits may commit in
\* the other order.  It is the wall clock, which may stand still or step back.
SubmitStamp(j) ==
  /\ gw = "up" /\ sub[j] = "new"
  /\ \E t \in {clock - 1, clock, clock + 1} \cap Nat :
       clock' = t /\ created' = [created EXCEPT ![j] = t]
  /\ sub' = [sub EXCEPT ![j] = "stamped"]
  /\ UNCHANGED <<told, rows, cancels, workers, lock, process>>

SubmitLock(j) ==
  /\ Alive /\ sub[j] = "stamped" /\ writer = Nobody
  /\ writer' = j
  /\ sub' = [sub EXCEPT ![j] = "writing"]
  /\ UNCHANGED <<told, created, clock, rows, cancels, workers, fresh, process>>

SubmitCommitFaulty(j) ==
  /\ Alive /\ sub[j] = "writing"
  /\ status' = [status EXCEPT ![j] = "queued"]
  /\ exec' = [exec EXCEPT ![j] = "pending"]
  /\ Commit
  /\ sub' = [sub EXCEPT ![j] = "committed"]
  /\ UNCHANGED <<told, created, clock, started, cancels, workers, process>>
SubmitCommit(j) ==
  /\ Alive /\ sub[j] = "writing"
  /\ status' = [status EXCEPT ![j] = "pending"]
  /\ exec' = [exec EXCEPT ![j] = "pending"]
  /\ Commit
  /\ sub' = [sub EXCEPT ![j] = "committed"]
  /\ UNCHANGED <<told, created, clock, started, cancels, workers, process>>

\* The client went away, the lock was not free within busy_timeout, or an
\* insert failed.
SubmitFail(j) ==
  /\ Alive /\ sub[j] \in {"stamped", "writing"}
  /\ Rollback(j)
  /\ sub' = [sub EXCEPT ![j] = "failed"]
  /\ UNCHANGED <<told, created, clock, rows, cancels, workers, process>>

SubmitAnswerFaulty(j) ==
  /\ Alive /\ sub[j] \in {"writing", "committed"}
  /\ told' = [told EXCEPT ![j] = PositionOf(j)]
  /\ sub' = [sub EXCEPT ![j] = "answered"]
  /\ UNCHANGED <<created, clock, rows, cancels, workers, lock, process>>
SubmitAnswer(j) ==
  /\ Alive /\ sub[j] = "committed"
  /\ told' = [told EXCEPT ![j] = PositionOf(j)]
  /\ sub' = [sub EXCEPT ![j] = "answered"]
  /\ UNCHANGED <<created, clock, rows, cancels, workers, lock, process>>

-----------------------------------------------------------------------------
(* DELETE /exec/{id}: Queue.Cancel, request c for job j *)

CancelMissing(c, j) ==
  /\ gw = "up" /\ can[c] = "new" /\ status[j] = "absent"
  /\ can' = [can EXCEPT ![c] = "notfound"]
  /\ target' = [target EXCEPT ![c] = j]
  /\ UNCHANGED <<rows, submits, workers, lock, process>>

CancelRefused(c, j) ==
  /\ gw = "up" /\ can[c] = "new"
  /\ status[j] # "absent" /\ ~Cancellable(status[j])
  /\ can' = [can EXCEPT ![c] = "conflict"]
  /\ target' = [target EXCEPT ![c] = j]
  /\ UNCHANGED <<rows, submits, workers, lock, process>>

CancelRead(c, j) ==
  /\ gw = "up" /\ can[c] = "new" /\ Cancellable(status[j])
  /\ can' = [can EXCEPT ![c] = "read"]
  /\ target' = [target EXCEPT ![c] = j]
  /\ fresh' = fresh \cup {c}
  /\ UNCHANGED <<rows, submits, workers, writer, process>>

CancelLock(c) ==
  /\ Alive /\ can[c] = "read" /\ Upgradable(c)
  /\ writer' = c
  /\ can' = [can EXCEPT ![c] = "writing"]
  /\ UNCHANGED <<rows, submits, target, workers, fresh, process>>

\* The update of a transaction that lost the race, or whose client went away.
CancelFail(c) ==
  /\ Alive
  /\ can[c] \in CancelInFlight
  /\ Rollback(c)
  /\ can' = [can EXCEPT ![c] = "error"]
  /\ UNCHANGED <<rows, submits, target, workers, process>>

CancelCommitFaulty(c) ==
  /\ Alive /\ can[c] = "writing"
  /\ status' = [status EXCEPT ![target[c]] = "cancelled"]
  /\ Commit
  /\ can' = [can EXCEPT ![c] = "ok"]
  /\ UNCHANGED <<exec, started, submits, target, workers, process>>
CancelCommit(c) ==
  /\ Alive /\ can[c] = "writing"
  /\ status' = [status EXCEPT ![target[c]] = "cancelled"]
  /\ exec' = [exec EXCEPT ![target[c]] = "cancelled"]
  /\ Commit
  /\ can' = [can EXCEPT ![c] = "ok"]
  /\ UNCHANGED <<started, submits, target, workers, process>>

-----------------------------------------------------------------------------
(* Worker.processOne: Queue.ClaimNext, Client.Execute, Queue.Complete *)

\* What processOne leaves behind when it returns.
Done(w, next) == /\ wk' = [wk EXCEPT ![w] = next]
                 /\ job' = [job EXCEPT ![w] = Nobody]
                 /\ outcome' = [outcome EXCEPT ![w] = "failed"]

\* The tick of a worker that finds nothing: sql.ErrNoRows.
PollEmpty(w) ==
  /\ Live /\ wk[w] = "idle" /\ \A j \in Jobs : status[j] # "pending"
  /\ UNCHANGED vars

ClaimSelect(w, j) ==
  /\ Live /\ wk[w] = "idle" /\ Oldest(j)
  /\ wk' = [wk EXCEPT ![w] = "selected"]
  /\ job' = [job EXCEPT ![w] = j]
  /\ fresh' = fresh \cup {w}
  /\ UNCHANGED <<rows, submits, cancels, outcome, ran, writer, process>>

ClaimLock(w) ==
  /\ Live /\ wk[w] = "selected" /\ Upgradable(w)
  /\ writer' = w
  /\ wk' = [wk EXCEPT ![w] = "claiming"]
  /\ UNCHANGED <<rows, submits, cancels, job, outcome, ran, fresh, process>>

\* SQLITE_BUSY, or an error of any statement, with or without the lock: it is
\* logged, and tried again at the next tick.
ClaimFailsFaulty(w) ==
  /\ Live /\ wk[w] = "selected" /\ ~Upgradable(w)
  /\ UNCHANGED vars
ClaimFails(w) ==
  /\ Live /\ wk[w] \in {"selected", "claiming"}
  /\ Rollback(w)
  /\ Done(w, "idle")
  /\ UNCHANGED <<rows, submits, cancels, ran, process>>

\* The update of job_queue repeats the test for 'pending', that of executions
\* does not, and nobody looks at the number of rows updated.
ClaimCommit(w) ==
  /\ Live /\ wk[w] = "claiming"
  /\ IF status[job[w]] = "pending"
       THEN /\ status' = [status EXCEPT ![job[w]] = "running"]
            /\ started' = [started EXCEPT ![job[w]] = TRUE]
       ELSE UNCHANGED <<status, started>>
  /\ exec' = [exec EXCEPT ![job[w]] = "running"]
  /\ Commit
  /\ wk' = [wk EXCEPT ![w] = "claimed"]
  /\ UNCHANGED <<submits, cancels, job, outcome, ran, process>>

\* The request reaches the sandbox.
ExecuteStart(w) ==
  /\ Live /\ wk[w] = "claimed"
  /\ ran' = [ran EXCEPT ![job[w]] = @ + 1]
  /\ wk' = [wk EXCEPT ![w] = "running"]
  /\ UNCHANGED <<rows, submits, cancels, job, outcome, lock, process>>

\* It does not: the tier is disabled, or the sandbox cannot be reached.
ExecuteUnreachableFaulty(w) ==
  /\ Live /\ wk[w] = "claimed"
  /\ Done(w, "idle")
  /\ UNCHANGED <<rows, submits, cancels, ran, lock, process>>
ExecuteUnreachable(w) ==
  /\ Live /\ wk[w] = "claimed"
  /\ wk' = [wk EXCEPT ![w] = "recording"]
  /\ UNCHANGED <<rows, submits, cancels, job, outcome, ran, lock, process>>

\* The sandbox answers, or the HTTP client gives up on it.
ExecuteReturn(w) ==
  /\ Live /\ wk[w] = "running"
  /\ \E r \in Results : outcome' = [outcome EXCEPT ![w] = r]
  /\ wk' = [wk EXCEPT ![w] = "recording"]
  /\ UNCHANGED <<rows, submits, cancels, job, ran, lock, process>>

CompleteLock(w) ==
  /\ Live /\ wk[w] = "recording" /\ writer = Nobody
  /\ writer' = w
  /\ wk' = [wk EXCEPT ![w] = "writing"]
  /\ UNCHANGED <<rows, submits, cancels, job, outcome, ran, fresh, process>>

\* The lock was held longer than busy_timeout, or a statement or the commit
\* fails: the result is logged and lost.
CompleteFails(w) ==
  /\ Live /\ wk[w] \in {"recording", "writing"}
  /\ lostWrites < MaxLostWrites
  /\ lostWrites' = lostWrites + 1
  /\ Rollback(w)
  /\ Done(w, "idle")
  /\ UNCHANGED <<rows, submits, cancels, ran, gw, crashes, shutdowns>>

\* Both rows are overwritten, whatever they hold by now.
CompleteCommit(w) ==
  /\ Live /\ wk[w] = "writing"
  /\ status' = [status EXCEPT ![job[w]] = outcome[w]]
  /\ exec' = [exec EXCEPT ![job[w]] = outcome[w]]
  /\ Commit
  /\ Done(w, "idle")
  /\ UNCHANGED <<started, submits, cancels, ran, process>>

-----------------------------------------------------------------------------
(* The gateway process: main.run *)

\* SIGTERM: http.Server.Shutdown stops accepting and waits for the handlers.
Shutdown ==
  /\ gw = "up" /\ shutdowns < MaxShutdowns
  /\ gw' = "draining"
  /\ shutdowns' = shutdowns + 1
  /\ UNCHANGED <<rows, submits, cancels, workers, lock, crashes, lostWrites>>

\* The listener fails: run returns without draining.
ServerError ==
  /\ gw = "up" /\ shutdowns < MaxShutdowns
  /\ gw' = "stopping"
  /\ shutdowns' = shutdowns + 1
  /\ UNCHANGED <<rows, submits, cancels, workers, lock, crashes, lostWrites>>

\* Shutdown returns, drained or after its 15 seconds; worker.Stop is deferred.
StopWorkers ==
  /\ gw = "draining"
  /\ gw' = "stopping"
  /\ UNCHANGED <<rows, submits, cancels, workers, lock, crashes, shutdowns, lostWrites>>

\* The cancelled context fails whatever the worker is in: the claim or the
\* result rolls back, the call to the sandbox is abandoned.
WorkerExit(w) ==
  /\ gw = "stopping" /\ wk[w] # "stopped"
  /\ Rollback(w)
  /\ Done(w, "stopped")
  /\ UNCHANGED <<rows, submits, cancels, ran, process>>

\* The end of the process: what was in flight is gone, the tables stay.
Die ==
  /\ gw' = "down"
  /\ sub' = [j \in Jobs |-> IF sub[j] \in SubmitInFlight THEN "failed" ELSE sub[j]]
  /\ can' = [c \in Cancels |-> IF can[c] \in CancelInFlight THEN "error" ELSE can[c]]
  /\ wk' = [w \in Workers |-> "stopped"]
  /\ job' = [w \in Workers |-> Nobody]
  /\ outcome' = [w \in Workers |-> "failed"]
  /\ writer' = Nobody /\ fresh' = {}
  /\ UNCHANGED <<rows, told, created, clock, target, ran, shutdowns, lostWrites>>

Exit == /\ gw = "stopping" /\ \A w \in Workers : wk[w] = "stopped"
        /\ Die
        /\ UNCHANGED crashes

Crash == /\ gw # "down" /\ crashes < MaxCrashes
         /\ Die
         /\ crashes' = crashes + 1

\* run: the database is opened as it is and the workers start.
RestartFaulty ==
  /\ gw = "down"
  /\ gw' = "up"
  /\ wk' = [w \in Workers |-> "idle"]
  /\ status' = [j \in Jobs |-> IF status[j] = "running" THEN "pending" ELSE status[j]]
  /\ exec' = [j \in Jobs |-> IF exec[j] = "running" THEN "pending" ELSE exec[j]]
  /\ UNCHANGED <<started, submits, cancels, job, outcome, ran, lock, crashes,
                 shutdowns, lostWrites>>
Restart ==
  /\ gw = "down"
  /\ gw' = "up"
  /\ wk' = [w \in Workers |-> "idle"]
  /\ UNCHANGED <<rows, submits, cancels, job, outcome, ran, lock, crashes,
                 shutdowns, lostWrites>>

-----------------------------------------------------------------------------
SubmitStep(j) == SubmitLock(j) \/ SubmitCommit(j) \/ SubmitAnswer(j)
CancelStep(c) == CancelLock(c) \/ CancelFail(c) \/ CancelCommit(c)
ClaimStep(w) ==
  \/ \E j \in Jobs : ClaimSelect(w, j)
  \/ ClaimLock(w) \/ ClaimFails(w) \/ ClaimCommit(w)
RunStep(w) == ExecuteStart(w) \/ ExecuteUnreachable(w) \/ ExecuteReturn(w)
RecordStep(w) == CompleteLock(w) \/ CompleteCommit(w)
WorkerStep(w) == ClaimStep(w) \/ RunStep(w) \/ RecordStep(w)

Next ==
  \/ \E j \in Jobs : SubmitStamp(j) \/ SubmitStep(j) \/ SubmitFail(j)
  \/ \E c \in Cancels, j \in Jobs : CancelMissing(c, j) \/ CancelRefused(c, j) \/ CancelRead(c, j)
  \/ \E c \in Cancels : CancelStep(c)
  \/ \E w \in Workers : PollEmpty(w) \/ WorkerStep(w) \/ CompleteFails(w) \/ WorkerExit(w)
  \/ Shutdown \/ ServerError \/ StopWorkers \/ Exit \/ Crash \/ Restart

Spec == Init /\ [][Next]_vars

\* Go schedules every goroutine that can run, the poll timer keeps firing, a
\* statement waiting for the lock gets it or gives up, and the HTTP client
\* gives up on a sandbox after 310 seconds.  An error of the database does not
\* meet every claim a worker ever tries.  Clients owe nothing.
FairSpec ==
  /\ Spec
  /\ \A j \in Jobs : WF_vars(SubmitStep(j) \/ SubmitFail(j))
  /\ \A c \in Cancels : WF_vars(CancelStep(c))
  /\ \A w \in Workers : /\ WF_vars(WorkerStep(w))
                        /\ SF_vars(ClaimLock(w)) /\ SF_vars(ClaimCommit(w))

\* A supervisor restarts the gateway, and an orderly stop goes through.
SupervisedSpec ==
  /\ FairSpec
  /\ \A w \in Workers : WF_vars(WorkerExit(w))
  /\ WF_vars(StopWorkers) /\ WF_vars(Exit) /\ WF_vars(Restart)

-----------------------------------------------------------------------------
(* Safety *)

Owned == {job[w] : w \in {v \in Workers : wk[v] \in Owning}}

\* The two rows of a job never disagree, although each transaction updates
\* them separately, two of the four without looking at what they overwrite.
RowsAgree == \A j \in Jobs : exec[j] = status[j]

\* Submitted code runs at most once, through races of workers for the same row,
\* cancels, crashes and restarts over the same database.
AtMostOnce == \A j \in Jobs : ran[j] <= 1

\* Two workers never have the same job in hand, and what a worker has in hand
\* was marked started and is running, unless a cancel overtook it.
ExclusiveOwner ==
  /\ \A v, w \in Workers : {wk[v], wk[w]} \subseteq Owning /\ job[v] = job[w] => v = w
  /\ \A j \in Owned : started[j] /\ status[j] \in {"running", "cancelled"}

\* A reply stays true: a job the gateway accepted is stored, and a job whose
\* DELETE was answered 200 or 409 is final, whatever crashed since.
AnswersHold ==
  /\ \A j \in Jobs : sub[j] = "answered" => status[j] # "absent"
  /\ \A c \in Cancels : can[c] \in {"ok", "conflict"} => status[target[c]] \in Terminal

\* A job left "running" by nobody (no code ever picks it up again) was in the
\* hands of a worker when the process ended, or its result could not be
\* written: at most one per worker and stop, and one per lost write.
BoundedOrphans ==
  Cardinality({j \in Jobs : status[j] = "running"} \ Owned)
    <= Cardinality(Workers) * (crashes + shutdowns) + lostWrites

-----------------------------------------------------------------------------
(* What a step may never do *)

\* A recorded result is never overwritten: not by a cancel that read the job
\* while it ran, not by a second worker, not after a restart.
FinishedIsFinal ==
  [][\A j \in Jobs : status[j] \in Results => status'[j] = status[j]]_vars

\* A job cancelled before a worker started it stays cancelled and never runs,
\* even when a worker had already selected it.
CancelledBeforeStart ==
  [][\A j \in Jobs : status[j] = "cancelled" /\ ~started[j] =>
       status'[j] = "cancelled" /\ ran'[j] = 0]_vars

\* The queue implements JobLifecycle: no interleaving of transactions, stop or
\* crash takes a job along a path that module does not have.  In particular a
\* claim takes the oldest job pending when it commits, although an earlier
\* statement selected it.
Lifecycle == INSTANCE JobLifecycle
  WITH stamp <- [j \in Jobs |-> IF status[j] = "absent" THEN 0 ELSE created[j]],
       inflight <- Owned
ImplementsLifecycle == Lifecycle!Spec

-----------------------------------------------------------------------------
(* Liveness *)

\* Every stored job is picked up, by a later process over the same database if
\* need be, and reaches a final state, unless a fault left it to nobody.
Orphaned(j) == status[j] = "running" /\ j \notin Owned /\ crashes + shutdowns + lostWrites > 0
EveryJobSettles == \A j \in Jobs :
  status[j] = "pending" ~> status[j] \in Terminal \/ Orphaned(j)

-----------------------------------------------------------------------------
(* What the documentation says and the code does not do *)

\* queue.go: Cancel "returns ErrJobNotCancellable for jobs already in a
\* terminal state", cancelled among them; yet Complete overwrites that state.
TerminalIsFinal ==
  [][\A j \in Jobs : status[j] \in Terminal => status'[j] = status[j]]_vars

\* worker.go: Stop "waits for them to finish the in-flight job (if any)".
\* Without a crash or a lost write, a stopped gateway leaves no job running.
StopFinishesInFlight ==
  gw = "down" /\ crashes = 0 => \A j \in Jobs : status[j] # "running"

\* queue.go: positionOf "returns the 1-based queue position of a pending job".
PositionIsOneBased == \A j \in Jobs : sub[j] = "answered" => told[j] >= 1
=============================================================================
