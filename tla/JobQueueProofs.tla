--------------------------- MODULE JobQueueProofs ---------------------------
(***************************************************************************)
(* Proofs about JobQueue, for any finite sets of jobs, workers and cancels *)
(* and any number of faults.                                               *)
(*                                                                         *)
(* The inductive invariant says what the write lock and the snapshots are  *)
(* for: whoever is about to commit holds the lock, and what it read is     *)
(* still so.  From there a claim finds its row pending and unowned, and a  *)
(* cancel finds its row unfinished.                                        *)
(***************************************************************************)
EXTENDS JobQueue, TLAPS, FiniteSetTheorems

-----------------------------------------------------------------------------
(* Types *)

LEMMA PositionType ==
  ASSUME NEW j \in Jobs
  PROVE  PositionOf(j) \in Nat
<1>1. {k \in Jobs : status[k] = "pending" /\ created[k] <= created[j]} \subseteq Jobs
  OBVIOUS
<1>2. IsFiniteSet({k \in Jobs : status[k] = "pending" /\ created[k] <= created[j]})
  BY <1>1, ProcessesAssumption, FS_Subset
<1> QED
  BY <1>2, FS_CardinalityType DEF PositionOf

LEMMA TypeInit == Init => TypeOK
  BY BoundsAssumption DEF Init, TypeOK, Statuses, Terminal, Results, SubmitInFlight, CancelInFlight, Owning

LEMMA TypeSubmit ==
  ASSUME TypeOK, NEW j \in Jobs, SubmitStamp(j) \/ SubmitStep(j) \/ SubmitFail(j)
  PROVE  TypeOK'
<1> USE DEF TypeOK, Statuses, SubmitInFlight, CancelInFlight, Owning, Terminal, Results,
            rows, submits, cancels, workers, lock, process, Commit, Rollback
<1>1. CASE SubmitStamp(j)
  BY <1>1 DEF SubmitStamp
<1>2. CASE SubmitLock(j)
  BY <1>2 DEF SubmitLock
<1>3. CASE SubmitCommit(j)
  BY <1>3 DEF SubmitCommit
<1>4. CASE SubmitFail(j)
  BY <1>4 DEF SubmitFail
<1>5. CASE SubmitAnswer(j)
  BY <1>5, PositionType DEF SubmitAnswer
<1> QED
  BY <1>1, <1>2, <1>3, <1>4, <1>5 DEF SubmitStep

LEMMA TypeCancelBegin ==
  ASSUME TypeOK, NEW c \in Cancels, NEW j \in Jobs,
         CancelMissing(c, j) \/ CancelRefused(c, j) \/ CancelRead(c, j)
  PROVE  TypeOK'
<1> USE DEF TypeOK, Statuses, SubmitInFlight, CancelInFlight, Owning, Terminal, Results,
            rows, submits, cancels, workers, lock, process
<1>1. CASE CancelMissing(c, j)
  BY <1>1 DEF CancelMissing
<1>2. CASE CancelRefused(c, j)
  BY <1>2 DEF CancelRefused
<1>3. CASE CancelRead(c, j)
  BY <1>3 DEF CancelRead
<1> QED
  BY <1>1, <1>2, <1>3

LEMMA TypeCancelStep ==
  ASSUME TypeOK, NEW c \in Cancels, CancelStep(c)
  PROVE  TypeOK'
<1> USE DEF TypeOK, Statuses, SubmitInFlight, CancelInFlight, Owning, Terminal, Results,
            rows, submits, cancels, workers, lock, process, Commit, Rollback
<1>1. CASE CancelLock(c)
  BY <1>1 DEF CancelLock
<1>2. CASE CancelFail(c)
  BY <1>2 DEF CancelFail
<1>3. CASE CancelCommit(c)
  BY <1>3 DEF CancelCommit
<1> QED
  BY <1>1, <1>2, <1>3 DEF CancelStep

LEMMA TypeWorker ==
  ASSUME TypeOK, NEW w \in Workers,
         PollEmpty(w) \/ WorkerStep(w) \/ CompleteFails(w) \/ WorkerExit(w)
  PROVE  TypeOK'
<1> USE DEF TypeOK, Statuses, SubmitInFlight, CancelInFlight, Owning, Terminal, Results,
            rows, submits, cancels, workers, lock, process, Commit, Rollback, Done
<1>1. CASE PollEmpty(w)
  BY <1>1 DEF PollEmpty, vars
<1>2. ASSUME NEW j \in Jobs, ClaimSelect(w, j)
      PROVE  TypeOK'
  BY <1>2 DEF ClaimSelect
<1>3. CASE ClaimLock(w)
  BY <1>3 DEF ClaimLock
<1>4. CASE ClaimFails(w)
  BY <1>4 DEF ClaimFails
<1>5. CASE ClaimCommit(w)
  BY <1>5 DEF ClaimCommit
<1>6. CASE ExecuteStart(w)
  <2>1. CASE job[w] \in Jobs
    BY <1>6, <2>1 DEF ExecuteStart
  <2>2. CASE job[w] \notin Jobs
    <3>1. ran' = ran
      BY <1>6, <2>2 DEF ExecuteStart
    <3> QED BY <1>6, <3>1 DEF ExecuteStart
  <2> QED BY <2>1, <2>2
<1>7. CASE ExecuteUnreachable(w)
  BY <1>7 DEF ExecuteUnreachable
<1>8. CASE ExecuteReturn(w)
  BY <1>8 DEF ExecuteReturn
<1>9. CASE CompleteLock(w)
  BY <1>9 DEF CompleteLock
<1>10. CASE CompleteCommit(w)
  BY <1>10 DEF CompleteCommit
<1>11. CASE CompleteFails(w)
  BY <1>11 DEF CompleteFails
<1>12. CASE WorkerExit(w)
  BY <1>12 DEF WorkerExit
<1> QED
  BY <1>1, <1>2, <1>3, <1>4, <1>5, <1>6, <1>7, <1>8, <1>9, <1>10, <1>11, <1>12
     DEF WorkerStep, ClaimStep, RunStep, RecordStep

LEMMA TypeProcess ==
  ASSUME TypeOK, Shutdown \/ ServerError \/ StopWorkers \/ Exit \/ Crash \/ Restart
  PROVE  TypeOK'
<1> USE DEF TypeOK, Statuses, SubmitInFlight, CancelInFlight, Owning, Terminal, Results,
            rows, submits, cancels, workers, lock, process
<1>1. CASE Shutdown
  BY <1>1 DEF Shutdown
<1>2. CASE ServerError
  BY <1>2 DEF ServerError
<1>3. CASE StopWorkers
  BY <1>3 DEF StopWorkers
<1>4. CASE Exit
  BY <1>4 DEF Exit, Die
<1>5. CASE Crash
  BY <1>5 DEF Crash, Die
<1>6. CASE Restart
  BY <1>6 DEF Restart
<1> QED
  BY <1>1, <1>2, <1>3, <1>4, <1>5, <1>6

LEMMA TypeNext == TypeOK /\ [Next]_vars => TypeOK'
<1> SUFFICES ASSUME TypeOK, [Next]_vars PROVE TypeOK'
  OBVIOUS
<1>1. CASE UNCHANGED vars
  BY <1>1 DEF TypeOK, vars, rows, submits, cancels, workers, lock, process
<1> QED
  BY <1>1, TypeSubmit, TypeCancelBegin, TypeCancelStep, TypeWorker, TypeProcess DEF Next

\* The state of the queue has its types in every reachable state.
THEOREM TypeCorrect == Spec => []TypeOK
  BY TypeInit, TypeNext, PTL DEF Spec

-----------------------------------------------------------------------------
(* The inductive invariant *)

\* Whoever is about to commit holds the write lock.
LockInv ==
  /\ \A j \in Jobs : sub[j] = "writing" => writer = j
  /\ \A c \in Cancels : can[c] = "writing" => writer = c
  /\ \A w \in Workers : wk[w] \in {"claiming", "writing"} => writer = w

\* A job has its rows from the commit of its submit on.
SubmitInv == \A j \in Jobs :
  /\ sub[j] \in {"new", "stamped", "writing"} => status[j] = "absent"
  /\ sub[j] \in {"committed", "answered"} => status[j] # "absent"

\* The columns of a job agree, and its code ran at most once, after it started.
RowInv == \A j \in Jobs :
  /\ exec[j] = status[j]
  /\ status[j] \in {"absent", "pending"} => ~started[j]
  /\ status[j] \in {"running"} \cup Results => started[j]
  /\ ran[j] <= 1
  /\ ~started[j] => ran[j] = 0

\* What a cancel read is still so while its snapshot is the latest.
CancelInv == \A c \in Cancels :
  /\ can[c] = "writing" \/ (can[c] = "read" /\ c \in fresh) =>
       target[c] \in Jobs /\ status[target[c]] \in {"pending", "running"}
  /\ can[c] \in {"ok", "conflict"} =>
       target[c] \in Jobs /\ status[target[c]] \in Terminal

\* And so is what a claim selected.
ClaimInv == \A w \in Workers :
  wk[w] = "claiming" \/ (wk[w] = "selected" /\ w \in fresh) =>
    job[w] \in Jobs /\ Oldest(job[w])

\* A claimed job has one owner and has started; nothing but a cancel overtakes it.
OwnInv ==
  /\ \A w \in Workers : wk[w] \in Owning =>
       job[w] \in Jobs /\ started[job[w]] /\ status[job[w]] \in {"running", "cancelled"}
  /\ \A w \in Workers : wk[w] = "claimed" => ran[job[w]] = 0
  /\ \A v, w \in Workers :
       wk[v] \in Owning /\ wk[w] \in Owning /\ job[v] = job[w] => v = w

IInv == /\ TypeOK
        /\ LockInv /\ SubmitInv /\ RowInv /\ CancelInv /\ ClaimInv /\ OwnInv

LEMMA InductionInit == Init => IInv
<1> SUFFICES ASSUME Init PROVE IInv
  OBVIOUS
<1>1. TypeOK
  BY TypeInit
<1>2. LockInv /\ SubmitInv /\ RowInv /\ CancelInv /\ ClaimInv /\ OwnInv
  BY DEF Init, LockInv, SubmitInv, RowInv, CancelInv, ClaimInv, OwnInv, Owning, Results
<1> QED
  BY <1>1, <1>2 DEF IInv

LEMMA InductionSubmit ==
  ASSUME IInv, NEW j \in Jobs, SubmitStamp(j) \/ SubmitStep(j) \/ SubmitFail(j)
  PROVE  IInv'
<1>1. TypeOK'
  BY TypeSubmit DEF IInv
<1> USE ProcessesAssumption DEF IInv, TypeOK, rows, submits, cancels, workers, lock, process,
        Commit, Rollback
<1>2. LockInv'
  BY DEF LockInv, SubmitStamp, SubmitStep, SubmitLock, SubmitCommit, SubmitAnswer, SubmitFail
<1>3. SubmitInv'
  BY DEF SubmitInv, SubmitStamp, SubmitStep, SubmitLock, SubmitCommit, SubmitAnswer, SubmitFail
<1>4. RowInv'
  BY DEF RowInv, SubmitInv, SubmitStamp, SubmitStep, SubmitLock, SubmitCommit, SubmitAnswer,
         SubmitFail, Results
<1>5. CancelInv'
  BY DEF CancelInv, LockInv, SubmitInv, SubmitStamp, SubmitStep, SubmitLock, SubmitCommit,
         SubmitAnswer, SubmitFail, Terminal, Results
<1>6. ClaimInv'
  BY DEF ClaimInv, Oldest, LockInv, SubmitInv, SubmitStamp, SubmitStep, SubmitLock, SubmitCommit,
         SubmitAnswer, SubmitFail
<1>7. OwnInv'
  BY DEF OwnInv, SubmitInv, SubmitStamp, SubmitStep, SubmitLock, SubmitCommit, SubmitAnswer,
         SubmitFail
<1> QED
  BY <1>1, <1>2, <1>3, <1>4, <1>5, <1>6, <1>7

LEMMA InductionCancelBegin ==
  ASSUME IInv, NEW c \in Cancels, NEW j \in Jobs,
         CancelMissing(c, j) \/ CancelRefused(c, j) \/ CancelRead(c, j)
  PROVE  IInv'
<1>1. TypeOK'
  BY TypeCancelBegin DEF IInv
<1> USE ProcessesAssumption DEF IInv, TypeOK, rows, submits, cancels, workers, lock, process,
        CancelMissing, CancelRefused, CancelRead, Cancellable
<1>2. LockInv'
  BY DEF LockInv
<1>3. SubmitInv' /\ RowInv'
  BY DEF SubmitInv, RowInv
<1>4. CancelInv'
  BY DEF CancelInv, Statuses, Terminal, Results
<1>5. ClaimInv'
  BY DEF ClaimInv, Oldest
<1>6. OwnInv'
  BY DEF OwnInv
<1> QED
  BY <1>1, <1>2, <1>3, <1>4, <1>5, <1>6

LEMMA InductionCancelStep ==
  ASSUME IInv, NEW c \in Cancels, CancelStep(c)
  PROVE  IInv'
<1>1. TypeOK'
  BY TypeCancelStep DEF IInv
<1> USE ProcessesAssumption DEF IInv, TypeOK, rows, submits, cancels, workers, lock, process,
        CancelStep, CancelLock, CancelFail, CancelCommit, Commit, Rollback, Upgradable
<1>2. LockInv'
  BY DEF LockInv
<1>3. SubmitInv'
  BY DEF SubmitInv, CancelInv
<1>4. RowInv'
  BY DEF RowInv, CancelInv, Results
<1>5. CancelInv'
  BY DEF CancelInv, LockInv, Terminal, Results, CancelInFlight
<1>6. ClaimInv'
  BY DEF ClaimInv, Oldest, LockInv
<1>7. OwnInv'
  BY DEF OwnInv, CancelInv
<1> QED
  BY <1>1, <1>2, <1>3, <1>4, <1>5, <1>6, <1>7

LEMMA InductionClaim ==
  ASSUME IInv, NEW w \in Workers, ClaimStep(w)
  PROVE  IInv'
<1>1. TypeOK'
  BY TypeWorker DEF IInv, WorkerStep
<1> USE ProcessesAssumption DEF IInv, TypeOK, rows, submits, cancels, workers, lock, process
<1>2. ASSUME NEW j \in Jobs, ClaimSelect(w, j)
      PROVE  IInv'
  <2> USE <1>2 DEF ClaimSelect
  <2>1. LockInv' /\ SubmitInv' /\ RowInv'
    BY DEF LockInv, SubmitInv, RowInv
  <2>2. CancelInv'
    BY DEF CancelInv
  <2>3. ClaimInv'
    BY DEF ClaimInv, Oldest
  <2>4. OwnInv'
    BY DEF OwnInv, Owning
  <2> QED BY <1>1, <2>1, <2>2, <2>3, <2>4
<1>3. CASE ClaimLock(w)
  <2> USE <1>3 DEF ClaimLock, Upgradable
  <2>1. LockInv' /\ SubmitInv' /\ RowInv' /\ CancelInv'
    BY DEF LockInv, SubmitInv, RowInv, CancelInv
  <2>2. ClaimInv'
    BY DEF ClaimInv, Oldest
  <2>3. OwnInv'
    BY DEF OwnInv, Owning
  <2> QED BY <1>1, <2>1, <2>2, <2>3
<1>4. CASE ClaimFails(w)
  <2> USE <1>4 DEF ClaimFails, Rollback, Done
  <2>1. LockInv' /\ SubmitInv' /\ RowInv' /\ CancelInv'
    BY DEF LockInv, SubmitInv, RowInv, CancelInv
  <2>2. ClaimInv'
    BY DEF ClaimInv, Oldest
  <2>3. OwnInv'
    BY DEF OwnInv, Owning
  <2> QED BY <1>1, <2>1, <2>2, <2>3
<1>5. CASE ClaimCommit(w)
  \* The row is still pending, so the guard of the update holds.
  <2>1. job[w] \in Jobs /\ status[job[w]] = "pending"
    BY <1>5 DEF ClaimInv, ClaimCommit, Oldest
  <2>2. /\ status' = [status EXCEPT ![job[w]] = "running"]
        /\ exec' = [exec EXCEPT ![job[w]] = "running"]
        /\ started' = [started EXCEPT ![job[w]] = TRUE]
        /\ writer' = Nobody /\ fresh' = {}
        /\ wk' = [wk EXCEPT ![w] = "claimed"]
        /\ UNCHANGED <<submits, cancels, job, outcome, ran, process>>
    BY <1>5, <2>1 DEF ClaimCommit, Commit
  <2>3. writer = w
    BY <1>5 DEF LockInv, ClaimCommit
  <2>4. LockInv'
    BY <2>2, <2>3 DEF LockInv
  <2>5. SubmitInv'
    BY <2>1, <2>2 DEF SubmitInv
  <2>6. RowInv'
    BY <2>1, <2>2 DEF RowInv, Results
  <2>7. CancelInv'
    BY <2>1, <2>2, <2>3 DEF CancelInv, LockInv, Terminal, Results
  <2>8. ClaimInv'
    BY <2>2, <2>3 DEF ClaimInv, LockInv
  <2>9. OwnInv'
    BY <2>1, <2>2 DEF OwnInv, RowInv, Owning
  <2> QED BY <1>1, <2>4, <2>5, <2>6, <2>7, <2>8, <2>9
<1> QED
  BY <1>2, <1>3, <1>4, <1>5 DEF ClaimStep

LEMMA InductionRun ==
  ASSUME IInv, NEW w \in Workers, RunStep(w)
  PROVE  IInv'
<1>1. TypeOK'
  BY TypeWorker DEF IInv, WorkerStep
<1> USE ProcessesAssumption DEF IInv, TypeOK, rows, submits, cancels, workers, lock, process,
        RunStep, ExecuteStart, ExecuteUnreachable, ExecuteReturn
<1>2. LockInv' /\ SubmitInv' /\ CancelInv'
  BY DEF LockInv, SubmitInv, CancelInv
<1>3. RowInv'
  <2>1. CASE ExecuteStart(w)
    \* The worker claimed the job, so its code has not run yet.
    <3>1. job[w] \in Jobs /\ started[job[w]] /\ ran[job[w]] = 0
      BY <2>1 DEF OwnInv, Owning
    <3> QED BY <2>1, <3>1 DEF RowInv
  <2>2. CASE ~ExecuteStart(w)
    BY <2>2 DEF RowInv
  <2> QED BY <2>1, <2>2
<1>4. ClaimInv'
  BY DEF ClaimInv, Oldest
<1>5. OwnInv'
  BY DEF OwnInv, Owning
<1> QED
  BY <1>1, <1>2, <1>3, <1>4, <1>5

LEMMA InductionRecord ==
  ASSUME IInv, NEW w \in Workers, RecordStep(w) \/ CompleteFails(w) \/ WorkerExit(w)
  PROVE  IInv'
<1>1. TypeOK'
  BY TypeWorker DEF IInv, WorkerStep
<1> USE ProcessesAssumption DEF IInv, TypeOK, rows, submits, cancels, workers, lock, process,
        Rollback, Done
<1>2. CASE CompleteLock(w)
  <2> USE <1>2 DEF CompleteLock
  <2>1. LockInv' /\ SubmitInv' /\ RowInv' /\ CancelInv'
    BY DEF LockInv, SubmitInv, RowInv, CancelInv
  <2>2. ClaimInv' /\ OwnInv'
    BY DEF ClaimInv, Oldest, OwnInv, Owning
  <2> QED BY <1>1, <2>1, <2>2
<1>3. CASE CompleteFails(w) \/ WorkerExit(w)
  <2> USE <1>3 DEF CompleteFails, WorkerExit
  <2>1. LockInv' /\ SubmitInv' /\ RowInv' /\ CancelInv'
    BY DEF LockInv, SubmitInv, RowInv, CancelInv
  <2>2. ClaimInv' /\ OwnInv'
    BY DEF ClaimInv, Oldest, OwnInv, Owning
  <2> QED BY <1>1, <2>1, <2>2
<1>4. CASE CompleteCommit(w)
  <2> USE <1>4 DEF CompleteCommit, Commit
  \* Nobody else has the job, and no result was recorded for it before.
  <2>1. /\ job[w] \in Jobs /\ started[job[w]]
        /\ status[job[w]] \in {"running", "cancelled"}
        /\ \A v \in Workers \ {w} : wk[v] \in Owning => job[v] # job[w]
    BY DEF OwnInv, Owning
  <2>2. outcome[w] \in Results
    OBVIOUS
  <2>3. LockInv'
    BY DEF LockInv
  <2>4. SubmitInv' /\ RowInv'
    BY <2>1, <2>2 DEF SubmitInv, RowInv, Results
  <2>5. CancelInv'
    BY <2>1, <2>2 DEF CancelInv, LockInv, Terminal
  <2>6. ClaimInv'
    BY DEF ClaimInv, LockInv
  <2>7. OwnInv'
    BY <2>1 DEF OwnInv, Owning
  <2> QED BY <1>1, <2>3, <2>4, <2>5, <2>6, <2>7
<1> QED
  BY <1>2, <1>3, <1>4 DEF RecordStep

LEMMA InductionProcess ==
  ASSUME IInv, Shutdown \/ ServerError \/ StopWorkers \/ Exit \/ Crash \/ Restart
  PROVE  IInv'
<1>1. TypeOK'
  BY TypeProcess DEF IInv
<1> USE DEF IInv, TypeOK, rows, submits, cancels, workers, lock, process
<1>2. CASE Shutdown \/ ServerError \/ StopWorkers
  BY <1>1, <1>2 DEF Shutdown, ServerError, StopWorkers, LockInv, SubmitInv, RowInv, CancelInv,
                    ClaimInv, Oldest, OwnInv
<1>3. CASE Die
  BY <1>1, <1>3 DEF Die, LockInv, SubmitInv, RowInv, CancelInv, ClaimInv, OwnInv,
                    SubmitInFlight, CancelInFlight, Owning
<1>4. CASE Restart
  BY <1>1, <1>4 DEF Restart, LockInv, SubmitInv, RowInv, CancelInv, ClaimInv, OwnInv, Owning
<1> QED
  BY <1>2, <1>3, <1>4 DEF Exit, Crash

LEMMA InductionNext == IInv /\ [Next]_vars => IInv'
<1> SUFFICES ASSUME IInv, [Next]_vars PROVE IInv'
  OBVIOUS
<1>1. CASE UNCHANGED vars
  BY <1>1, TypeNext DEF IInv, LockInv, SubmitInv, RowInv, CancelInv, ClaimInv, Oldest, OwnInv,
     vars, rows, submits, cancels, workers, lock, process
<1>2. ASSUME NEW w \in Workers, PollEmpty(w)
      PROVE  IInv'
  BY <1>1, <1>2 DEF PollEmpty
<1> QED
  BY <1>1, <1>2, InductionSubmit, InductionCancelBegin, InductionCancelStep, InductionClaim,
     InductionRun, InductionRecord, InductionProcess DEF Next, WorkerStep

THEOREM Induction == Spec => []IInv
  BY InductionInit, InductionNext, PTL DEF Spec

-----------------------------------------------------------------------------
(* What follows from it *)

\* In every reachable state, whatever crashed: submitted code ran at most once.
THEOREM RunsAtMostOnce == Spec => []AtMostOnce
<1>1. IInv => AtMostOnce
  BY DEF IInv, RowInv, AtMostOnce
<1> QED
  BY <1>1, Induction, PTL

\* The two rows of a job agree.
THEOREM RowsAlwaysAgree == Spec => []RowsAgree
<1>1. IInv => RowsAgree
  BY DEF IInv, RowInv, RowsAgree
<1> QED
  BY <1>1, Induction, PTL

\* A claimed job has one owner, and only a cancel overtakes it.
THEOREM OwnershipIsExclusive == Spec => []ExclusiveOwner
<1>1. IInv => ExclusiveOwner
  BY DEF IInv, OwnInv, ExclusiveOwner, Owned
<1> QED
  BY <1>1, Induction, PTL

\* What POST and DELETE answered stays true.
THEOREM AnswersAlwaysHold == Spec => []AnswersHold
<1>1. IInv => AnswersHold
  BY DEF IInv, SubmitInv, CancelInv, AnswersHold
<1> QED
  BY <1>1, Induction, PTL

\* The job a worker starts is the oldest one pending when the claim commits,
\* although it was selected by an earlier statement.
OldestFirst ==
  [][\A j \in Jobs : status[j] = "pending" /\ status'[j] = "running" =>
       \A k \in Jobs : status[k] = "pending" => created[j] <= created[k]]_vars

LEMMA NextOldestFirst ==
  ASSUME IInv, Next
  PROVE  \A j \in Jobs : status[j] = "pending" /\ status'[j] = "running" =>
           \A k \in Jobs : status[k] = "pending" => created[j] <= created[k]
<1> SUFFICES ASSUME NEW j \in Jobs, status[j] = "pending", status'[j] = "running"
             PROVE  \A k \in Jobs : status[k] = "pending" => created[j] <= created[k]
  OBVIOUS
<1> USE DEF IInv, TypeOK, rows, Terminal, Results
<1>1. PICK w \in Workers : ClaimCommit(w)
  BY DEF Next, SubmitStamp, SubmitStep, SubmitLock, SubmitCommit, SubmitAnswer, SubmitFail,
         CancelMissing, CancelRefused, CancelRead, CancelStep, CancelLock, CancelFail,
         CancelCommit, PollEmpty, vars, WorkerStep, ClaimStep, ClaimSelect, ClaimLock, ClaimFails,
         RunStep, ExecuteStart, ExecuteUnreachable, ExecuteReturn, RecordStep, CompleteLock,
         CompleteFails, CompleteCommit, WorkerExit, Shutdown, ServerError, StopWorkers, Exit,
         Crash, Die, Restart
<1>2. job[w] = j
  BY <1>1 DEF ClaimCommit
<1> QED
  BY <1>1, <1>2 DEF ClaimCommit, ClaimInv, Oldest

\* ClaimNext: every job a worker starts is the oldest one pending at that moment.
THEOREM StartsOldestFirst == Spec => OldestFirst
<1>1. IInv /\ [Next]_vars =>
        [\A j \in Jobs : status[j] = "pending" /\ status'[j] = "running" =>
           \A k \in Jobs : status[k] = "pending" => created[j] <= created[k]]_vars
  BY NextOldestFirst
<1> QED
  BY <1>1, Induction, PTL DEF Spec, OldestFirst

LEMMA NextKeepsResults ==
  ASSUME IInv, Next
  PROVE  \A j \in Jobs : status[j] \in Results => status'[j] = status[j]
<1> SUFFICES ASSUME NEW j \in Jobs, status[j] \in Results
             PROVE  status'[j] = status[j]
  OBVIOUS
<1> USE DEF IInv, TypeOK, rows, Results
<1>1. ASSUME NEW k \in Jobs, SubmitCommit(k) PROVE status'[j] = status[j]
  BY <1>1 DEF SubmitCommit, SubmitInv
<1>2. ASSUME NEW c \in Cancels, CancelCommit(c) PROVE status'[j] = status[j]
  BY <1>2 DEF CancelCommit, CancelInv
<1>3. ASSUME NEW w \in Workers, ClaimCommit(w) PROVE status'[j] = status[j]
  BY <1>3 DEF ClaimCommit, ClaimInv, Oldest
<1>4. ASSUME NEW w \in Workers, CompleteCommit(w) PROVE status'[j] = status[j]
  BY <1>4 DEF CompleteCommit, OwnInv, Owning
<1> QED
  BY <1>1, <1>2, <1>3, <1>4
     DEF Next, SubmitStamp, SubmitStep, SubmitLock, SubmitAnswer, SubmitFail,
         CancelMissing, CancelRefused, CancelRead, CancelStep, CancelLock, CancelFail,
         PollEmpty, vars, WorkerStep, ClaimStep, ClaimSelect, ClaimLock, ClaimFails,
         RunStep, ExecuteStart, ExecuteUnreachable, ExecuteReturn, RecordStep, CompleteLock,
         CompleteFails, WorkerExit, Shutdown, ServerError, StopWorkers, Exit,
         Crash, Die, Restart

\* A recorded result is never overwritten.
THEOREM ResultsAreFinal == Spec => FinishedIsFinal
<1>1. IInv /\ [Next]_vars =>
        [\A j \in Jobs : status[j] \in Results => status'[j] = status[j]]_vars
  BY NextKeepsResults
<1> QED
  BY <1>1, Induction, PTL DEF Spec, FinishedIsFinal

LEMMA NextCancelledBeforeStart ==
  ASSUME IInv, Next
  PROVE  \A j \in Jobs : status[j] = "cancelled" /\ ~started[j] =>
           status'[j] = "cancelled" /\ ran'[j] = 0
<1> SUFFICES ASSUME NEW j \in Jobs, status[j] = "cancelled", ~started[j]
             PROVE  status'[j] = "cancelled" /\ ran'[j] = 0
  OBVIOUS
<1> USE DEF IInv, TypeOK, rows, workers
<1>1. ran[j] = 0
  BY DEF RowInv
<1>2. ASSUME NEW k \in Jobs, SubmitCommit(k) PROVE status'[j] = "cancelled" /\ ran'[j] = 0
  BY <1>1, <1>2 DEF SubmitCommit, SubmitInv
<1>3. ASSUME NEW c \in Cancels, CancelCommit(c) PROVE status'[j] = "cancelled" /\ ran'[j] = 0
  BY <1>1, <1>3 DEF CancelCommit, CancelInv
<1>4. ASSUME NEW w \in Workers, ClaimCommit(w) PROVE status'[j] = "cancelled" /\ ran'[j] = 0
  BY <1>1, <1>4 DEF ClaimCommit, ClaimInv, Oldest
<1>5. ASSUME NEW w \in Workers, ExecuteStart(w) PROVE status'[j] = "cancelled" /\ ran'[j] = 0
  <2>1. job[w] # j
    BY <1>5 DEF ExecuteStart, OwnInv, Owning
  <2> QED BY <1>1, <1>5, <2>1 DEF ExecuteStart
<1>6. ASSUME NEW w \in Workers, CompleteCommit(w) PROVE status'[j] = "cancelled" /\ ran'[j] = 0
  <2>1. job[w] # j
    BY <1>6 DEF CompleteCommit, OwnInv, Owning
  <2> QED BY <1>1, <1>6, <2>1 DEF CompleteCommit
<1> QED
  BY <1>1, <1>2, <1>3, <1>4, <1>5, <1>6
     DEF Next, SubmitStamp, SubmitStep, SubmitLock, SubmitAnswer, SubmitFail,
         CancelMissing, CancelRefused, CancelRead, CancelStep, CancelLock, CancelFail,
         PollEmpty, vars, WorkerStep, ClaimStep, ClaimSelect, ClaimLock, ClaimFails,
         RunStep, ExecuteUnreachable, ExecuteReturn, RecordStep, CompleteLock,
         CompleteFails, WorkerExit, Shutdown, ServerError, StopWorkers, Exit,
         Crash, Die, Restart

\* A cancel that commits before the claim does wins: the code never runs.
THEOREM EarlyCancelWins == Spec => CancelledBeforeStart
<1>1. IInv /\ [Next]_vars =>
        [\A j \in Jobs : status[j] = "cancelled" /\ ~started[j] =>
           status'[j] = "cancelled" /\ ran'[j] = 0]_vars
  BY NextCancelledBeforeStart
<1> QED
  BY <1>1, Induction, PTL DEF Spec, CancelledBeforeStart

-----------------------------------------------------------------------------
(* How many jobs can be left running by nobody: a stop counts before the   *)
(* workers leave, so that until they have left, each of them may still add *)
(* one.                                                                    *)

Orphans == {j \in Jobs : status[j] = "running"} \ Owned
Unstopped == {w \in Workers : wk[w] # "stopped"}
Budget == Cardinality(Workers) * (crashes + shutdowns) + lostWrites
OrphanInv ==
  IF gw \in {"draining", "stopping"} THEN Cardinality(Orphans) + Cardinality(Unstopped) <= Budget
  ELSE Cardinality(Orphans) <= Budget
\* A dead process has no workers.
DownInv == gw = "down" => \A w \in Workers : wk[w] = "stopped"

LEMMA DownInit == Init => DownInv
BY DEF Init, DownInv

LEMMA DownNext ==
  ASSUME IInv, DownInv, [Next]_vars
  PROVE  DownInv'
<1>1. CASE UNCHANGED vars
  BY <1>1 DEF vars, workers, process, DownInv
<1>2. CASE Exit \/ Crash
  BY <1>2 DEF Exit, Crash, Die, DownInv
<1>3. CASE Next /\ gw = "down" /\ ~(Exit \/ Crash)
  <2>1. wk' = wk \/ gw' = "up"
    BY <1>3 DEF Next, DownInv, vars, workers, SubmitStamp, SubmitStep, SubmitLock, SubmitCommit, SubmitAnswer,
       SubmitFail, CancelMissing, CancelRefused, CancelRead, CancelStep, CancelLock, CancelFail, CancelCommit,
       PollEmpty, WorkerStep, ClaimStep, ClaimSelect, ClaimLock, ClaimFails, ClaimCommit, RunStep, ExecuteStart,
       ExecuteUnreachable, ExecuteReturn, RecordStep, CompleteLock, CompleteCommit, CompleteFails, WorkerExit,
       Live, Alive, Shutdown, ServerError, StopWorkers, Restart
  <2> QED
    BY <1>3, <2>1 DEF DownInv
<1>4. CASE Next /\ gw # "down" /\ ~(Exit \/ Crash)
  <2>1. gw' # "down"
    BY <1>4 DEF Next, vars, process, SubmitStamp, SubmitStep, SubmitLock, SubmitCommit, SubmitAnswer,
       SubmitFail, CancelMissing, CancelRefused, CancelRead, CancelStep, CancelLock, CancelFail, CancelCommit,
       PollEmpty, WorkerStep, ClaimStep, ClaimSelect, ClaimLock, ClaimFails, ClaimCommit, RunStep, ExecuteStart,
       ExecuteUnreachable, ExecuteReturn, RecordStep, CompleteLock, CompleteCommit, CompleteFails, WorkerExit,
       Shutdown, ServerError, StopWorkers, Restart
  <2> QED
    BY <2>1 DEF DownInv
<1> QED
  BY <1>1, <1>2, <1>3, <1>4

\* Counting.
LEMMA CountSubset ==
  ASSUME NEW T, IsFiniteSet(T), NEW S, S \subseteq T
  PROVE  IsFiniteSet(S) /\ Cardinality(S) \in Nat /\ Cardinality(T) \in Nat /\ Cardinality(S) <= Cardinality(T)
BY FS_Subset, FS_CardinalityType

LEMMA CountOneMore ==
  ASSUME NEW T, IsFiniteSet(T), NEW x, NEW S, S \subseteq T \cup {x}
  PROVE  Cardinality(S) <= Cardinality(T) + 1
<1>1. /\ IsFiniteSet(T \cup {x}) /\ Cardinality(T) \in Nat
      /\ Cardinality(T \cup {x}) = IF x \in T THEN Cardinality(T) ELSE Cardinality(T) + 1
  BY FS_AddElement, FS_CardinalityType
<1>2. Cardinality(S) \in Nat /\ Cardinality(S) <= Cardinality(T \cup {x})
  BY <1>1, CountSubset
<1> QED
  BY <1>1, <1>2

LEMMA CountJoined ==
  ASSUME NEW T, IsFiniteSet(T), NEW V, IsFiniteSet(V), NEW S, NEW f,
         f \in [V -> {f[v] : v \in V}], S \subseteq T \cup {f[v] : v \in V}
  PROVE  Cardinality(S) <= Cardinality(T) + Cardinality(V)
<1> DEFINE R == {f[v] : v \in V}
<1>1. f \in Surjection(V, R)
  BY DEF Surjection
<1>2. IsFiniteSet(R) /\ Cardinality(R) <= Cardinality(V)
  BY <1>1, FS_Surjection
<1>3. /\ IsFiniteSet(T \cup R) /\ IsFiniteSet(T \cap R)
      /\ Cardinality(T \cup R) = Cardinality(T) + Cardinality(R) - Cardinality(T \cap R)
  BY <1>2, FS_Union, FS_Intersection
<1>4. /\ Cardinality(T) \in Nat /\ Cardinality(R) \in Nat /\ Cardinality(V) \in Nat
      /\ Cardinality(T \cap R) \in Nat
  BY <1>2, <1>3, FS_CardinalityType
<1>5. Cardinality(S) \in Nat /\ Cardinality(S) <= Cardinality(T \cup R)
  BY <1>3, CountSubset
<1> QED
  BY <1>2, <1>3, <1>4, <1>5

LEMMA OrphansFinite ==
  /\ IsFiniteSet(Orphans) /\ IsFiniteSet(Unstopped)
  /\ Cardinality(Orphans) \in Nat /\ Cardinality(Unstopped) \in Nat /\ Cardinality(Workers) \in Nat
  /\ Cardinality(Unstopped) <= Cardinality(Workers)
<1>1. Orphans \subseteq Jobs /\ Unstopped \subseteq Workers
  BY DEF Orphans, Unstopped
<1> QED
  BY <1>1, CountSubset, ProcessesAssumption

LEMMA OrphanMember ==
  ASSUME NEW j
  PROVE  j \in Orphans <=> j \in Jobs /\ status[j] = "running" /\ \A w \in Workers : ~(wk[w] \in Owning /\ job[w] = j)
BY DEF Orphans, Owned

\* Rows and owners that stay, or owners that come with their row, make no orphan.
LEMMA OrphansStay ==
  ASSUME \A j \in Jobs : status'[j] = "running" => status[j] = "running",
         \A w \in Workers : wk[w] \in Owning => wk'[w] \in Owning /\ job'[w] = job[w]
  PROVE  Orphans' \subseteq Orphans
BY DEF Orphans, Owned

LEMMA OrphansShrink ==
  ASSUME IInv,
         \/ \E j \in Jobs : SubmitStamp(j) \/ SubmitStep(j) \/ SubmitFail(j)
         \/ \E c \in Cancels, j \in Jobs : CancelMissing(c, j) \/ CancelRefused(c, j) \/ CancelRead(c, j)
         \/ \E c \in Cancels : CancelStep(c)
         \/ \E w \in Workers : PollEmpty(w) \/ WorkerStep(w)
  PROVE  Orphans' \subseteq Orphans /\ Unstopped' \subseteq Unstopped /\ UNCHANGED process
<1> USE DEF rows, workers, process
<1>1. ASSUME NEW j \in Jobs, SubmitStamp(j) \/ SubmitStep(j) \/ SubmitFail(j)
      PROVE  Orphans' \subseteq Orphans /\ Unstopped' \subseteq Unstopped /\ UNCHANGED process
  <2>1. UNCHANGED <<wk, job, process>>
    BY <1>1 DEF SubmitStamp, SubmitStep, SubmitLock, SubmitCommit, SubmitAnswer, SubmitFail
  <2>2. \A k \in Jobs : status'[k] = "running" => status[k] = "running"
    BY <1>1 DEF SubmitStamp, SubmitStep, SubmitLock, SubmitCommit, SubmitAnswer, SubmitFail, IInv, TypeOK
  <2> QED
    BY <2>1, <2>2 DEF Orphans, Owned, Unstopped
<1>2. ASSUME NEW c \in Cancels,
             (\E j \in Jobs : CancelMissing(c, j) \/ CancelRefused(c, j) \/ CancelRead(c, j)) \/ CancelStep(c)
      PROVE  Orphans' \subseteq Orphans /\ Unstopped' \subseteq Unstopped /\ UNCHANGED process
  <2>1. UNCHANGED <<wk, job, process>>
    BY <1>2 DEF CancelMissing, CancelRefused, CancelRead, CancelStep, CancelLock, CancelFail, CancelCommit
  <2>2. \A k \in Jobs : status'[k] = "running" => status[k] = "running"
    BY <1>2 DEF CancelMissing, CancelRefused, CancelRead, CancelStep, CancelLock, CancelFail, CancelCommit, IInv, TypeOK
  <2> QED
    BY <2>1, <2>2 DEF Orphans, Owned, Unstopped
<1>3. ASSUME NEW w \in Workers, PollEmpty(w) \/ WorkerStep(w)
      PROVE  Orphans' \subseteq Orphans /\ Unstopped' \subseteq Unstopped /\ UNCHANGED process
  <2> USE DEF IInv, TypeOK, Done
  <2>1. CASE PollEmpty(w)
    BY <2>1 DEF PollEmpty, vars, Orphans, Owned, Unstopped
  <2>2. CASE ClaimStep(w) /\ ~ClaimCommit(w)
    <3>1. UNCHANGED <<status, process>> /\ \A v \in Workers : v # w => wk'[v] = wk[v] /\ job'[v] = job[v]
      BY <2>2 DEF ClaimStep, ClaimSelect, ClaimLock, ClaimFails
    <3>2. wk[w] \notin Owning \cup {"stopped"}
      BY <2>2 DEF ClaimStep, ClaimSelect, ClaimLock, ClaimFails, Owning
    <3> QED
      BY <3>1, <3>2, OrphansStay DEF Unstopped
  <2>3. CASE ClaimCommit(w)
    <3>1. /\ wk[w] = "claiming" /\ wk'[w] = "claimed" /\ job' = job /\ UNCHANGED process
          /\ \A v \in Workers : v # w => wk'[v] = wk[v]
      BY <2>3 DEF ClaimCommit
    <3>2. \A k \in Jobs : status'[k] = "running" => status[k] = "running" \/ k = job[w]
      BY <2>3 DEF ClaimCommit
    <3> QED
      BY <3>1, <3>2 DEF Orphans, Owned, Owning, Unstopped
  <2>4. CASE RunStep(w) \/ CompleteLock(w)
    <3>1. UNCHANGED <<status, job, process>> /\ \A v \in Workers : v # w => wk'[v] = wk[v]
      BY <2>4 DEF RunStep, ExecuteStart, ExecuteUnreachable, ExecuteReturn, CompleteLock
    <3>2. wk[w] \in Owning /\ wk'[w] \in Owning
      BY <2>4 DEF RunStep, ExecuteStart, ExecuteUnreachable, ExecuteReturn, CompleteLock, Owning
    <3> QED
      BY <3>1, <3>2, OrphansStay DEF Unstopped, Owning
  <2>5. CASE CompleteCommit(w)
    <3>1. /\ wk[w] = "writing" /\ UNCHANGED process
          /\ \A v \in Workers : v # w => wk'[v] = wk[v] /\ job'[v] = job[v]
      BY <2>5 DEF CompleteCommit
    <3>2. job[w] \in Jobs
      BY <3>1 DEF OwnInv, Owning
    <3>3. /\ status'[job[w]] # "running"
          /\ \A k \in Jobs : k # job[w] => status'[k] = status[k]
      BY <2>5, <3>2 DEF CompleteCommit, Results
    <3> QED
      BY <3>1, <3>3 DEF Orphans, Owned, Unstopped
  <2> QED
    BY <1>3, <2>1, <2>2, <2>3, <2>4, <2>5 DEF WorkerStep, RecordStep
<1> QED
  BY <1>1, <1>2, <1>3

LEMMA OrphanInit == Init => OrphanInv
<1> SUFFICES ASSUME Init
             PROVE  OrphanInv
  OBVIOUS
<1>1. Orphans = {}
  BY DEF Init, Orphans
<1>2. Cardinality(Orphans) = 0 /\ Cardinality(Workers) \in Nat
  BY <1>1, FS_EmptySet, OrphansFinite
<1>3. Budget = 0 /\ gw = "up"
  BY <1>2 DEF Init, Budget
<1> QED
  BY <1>2, <1>3 DEF OrphanInv

LEMMA OrphanNext ==
  ASSUME IInv, DownInv, OrphanInv, [Next]_vars
  PROVE  OrphanInv'
<1> DEFINE o == Cardinality(Orphans)
           u == Cardinality(Unstopped)
           n == Cardinality(Workers)
<1>1. /\ IsFiniteSet(Orphans) /\ IsFiniteSet(Unstopped) /\ o \in Nat /\ u \in Nat /\ n \in Nat /\ u <= n
  BY OrphansFinite
<1>2. crashes \in Nat /\ shutdowns \in Nat /\ lostWrites \in Nat
  BY DEF IInv, TypeOK
<1>3. \A m \in Nat : n * (m + 1) = n * m + n /\ n * m \in Nat
  BY <1>1
<1>4. Budget \in Nat
  <2>1. crashes + shutdowns \in Nat
    BY <1>2
  <2>2. n * (crashes + shutdowns) \in Nat
    BY <1>3, <2>1
  <2> QED
    BY <1>2, <2>2 DEF Budget
<1>5. o <= Budget
  BY <1>1, <1>4 DEF OrphanInv
<1>6. ASSUME Orphans' \subseteq Orphans, Unstopped' \subseteq Unstopped, UNCHANGED process
      PROVE  OrphanInv'
  <2>1. /\ Cardinality(Orphans') \in Nat /\ Cardinality(Orphans') <= o
        /\ Cardinality(Unstopped') \in Nat /\ Cardinality(Unstopped') <= u
    BY <1>1, <1>6, CountSubset
  <2>2. gw' = gw /\ Budget' = Budget
    BY <1>6 DEF process, Budget
  <2> QED
    BY <1>1, <1>4, <2>1, <2>2 DEF OrphanInv
<1>7. CASE \/ \E j \in Jobs : SubmitStamp(j) \/ SubmitStep(j) \/ SubmitFail(j)
           \/ \E c \in Cancels, j \in Jobs : CancelMissing(c, j) \/ CancelRefused(c, j) \/ CancelRead(c, j)
           \/ \E c \in Cancels : CancelStep(c)
           \/ \E w \in Workers : PollEmpty(w) \/ WorkerStep(w)
  BY <1>6, <1>7, OrphansShrink
<1>8. CASE UNCHANGED vars
  <2>1. Orphans' = Orphans /\ Unstopped' = Unstopped /\ UNCHANGED process
    BY <1>8 DEF vars, rows, workers, Orphans, Owned, Unstopped
  <2> QED
    BY <1>6, <2>1
<1>9. ASSUME NEW w \in Workers, CompleteFails(w)
      PROVE  OrphanInv'
  <2>1. /\ UNCHANGED <<status, gw, crashes, shutdowns>> /\ lostWrites' = lostWrites + 1
        /\ wk[w] \in {"recording", "writing"} /\ wk'[w] = "idle"
        /\ \A v \in Workers : v # w => wk'[v] = wk[v] /\ job'[v] = job[v]
    BY <1>9 DEF CompleteFails, Done, rows, IInv, TypeOK
  <2>2. Orphans' \subseteq Orphans \cup {job[w]} /\ Unstopped' = Unstopped
    BY <2>1 DEF Orphans, Owned, Unstopped
  <2>3. Cardinality(Orphans') <= o + 1 /\ Cardinality(Unstopped') = u
    BY <1>1, <2>2, CountOneMore
  <2>4. Cardinality(Orphans') \in Nat
    BY <1>1, <2>2, FS_AddElement, CountSubset
  <2>5. Budget' = Budget + 1 /\ gw' = gw
    BY <1>2, <1>3, <2>1 DEF Budget
  <2> QED
    BY <1>1, <1>4, <2>3, <2>4, <2>5 DEF OrphanInv
<1>10. ASSUME NEW w \in Workers, WorkerExit(w)
       PROVE  OrphanInv'
  <2>1. /\ UNCHANGED <<status, process>> /\ gw = "stopping"
        /\ wk[w] # "stopped" /\ wk'[w] = "stopped"
        /\ \A v \in Workers : v # w => wk'[v] = wk[v] /\ job'[v] = job[v]
    BY <1>10 DEF WorkerExit, Done, rows, IInv, TypeOK
  <2>2. Orphans' \subseteq Orphans \cup {job[w]}
    BY <2>1 DEF Orphans, Owned
  <2>3. Unstopped' = Unstopped \ {w} /\ w \in Unstopped
    BY <2>1 DEF Unstopped
  <2>4. Cardinality(Orphans') <= o + 1 /\ Cardinality(Unstopped') = u - 1
    BY <1>1, <2>2, <2>3, CountOneMore, FS_RemoveElement
  <2>5. Cardinality(Orphans') \in Nat
    BY <1>1, <2>2, FS_AddElement, CountSubset
  <2>6. Budget' = Budget /\ gw' = gw
    BY <2>1 DEF Budget, process
  <2> QED
    BY <1>1, <1>4, <2>1, <2>4, <2>5, <2>6 DEF OrphanInv
<1>11. CASE Shutdown \/ ServerError
  <2>1. /\ UNCHANGED <<status, wk, job, crashes, lostWrites>> /\ shutdowns' = shutdowns + 1
        /\ gw = "up" /\ gw' \in {"draining", "stopping"}
    BY <1>11 DEF Shutdown, ServerError, rows, workers
  <2>2. Orphans' = Orphans /\ Unstopped' = Unstopped
    BY <2>1 DEF Orphans, Owned, Unstopped
  <2>3. Budget' = Budget + n
    <3>1. n * (crashes + shutdowns + 1) = n * (crashes + shutdowns) + n /\ n * (crashes + shutdowns) \in Nat
      BY <1>2, <1>3
    <3> QED
      BY <1>1, <1>2, <2>1, <3>1 DEF Budget
  <2> QED
    BY <1>1, <1>4, <1>5, <2>1, <2>2, <2>3 DEF OrphanInv
<1>12. CASE StopWorkers \/ Restart
  <2>1. /\ UNCHANGED <<status, job, crashes, shutdowns, lostWrites>>
        /\ \/ gw = "draining" /\ gw' = "stopping" /\ wk' = wk
           \/ gw' = "up" /\ gw = "down" /\ wk' = [w \in Workers |-> "idle"]
    BY <1>12 DEF StopWorkers, Restart, rows, workers
  <2>2. Budget' = Budget
    BY <2>1 DEF Budget
  <2>3. CASE wk' = wk /\ gw = "draining" /\ gw' = "stopping"
    <3>1. Orphans' = Orphans /\ Unstopped' = Unstopped
      BY <2>1, <2>3 DEF Orphans, Owned, Unstopped
    <3> QED
      BY <2>2, <2>3, <3>1 DEF OrphanInv
  <2>4. CASE gw' = "up"
    <3>1. \A w \in Workers : wk[w] \notin Owning
      BY <2>1, <2>4 DEF DownInv, Owning
    <3>2. Orphans' \subseteq Orphans
      BY <2>1, <3>1, OrphansStay
    <3>3. Cardinality(Orphans') \in Nat /\ Cardinality(Orphans') <= o
      BY <1>1, <3>2, CountSubset
    <3> QED
      BY <1>1, <1>4, <1>5, <2>2, <2>4, <3>3 DEF OrphanInv
  <2> QED
    BY <2>1, <2>3, <2>4
<1>13. CASE Exit
  <2>1. /\ status' = status /\ gw' = "down" /\ UNCHANGED <<crashes, shutdowns, lostWrites>>
        /\ \A w \in Workers : wk[w] = "stopped"
    BY <1>13 DEF Exit, Die, rows
  <2>2. Orphans' \subseteq Orphans
    BY <2>1, OrphansStay DEF Owning
  <2>3. Cardinality(Orphans') \in Nat /\ Cardinality(Orphans') <= o
    BY <1>1, <2>2, CountSubset
  <2>4. Budget' = Budget
    BY <2>1 DEF Budget
  <2> QED
    BY <1>1, <1>4, <1>5, <2>1, <2>3, <2>4 DEF OrphanInv
<1>14. CASE Crash
  <2>1. /\ status' = status /\ gw' = "down" /\ crashes' = crashes + 1 /\ UNCHANGED <<shutdowns, lostWrites>>
    BY <1>14 DEF Crash, Die, rows
  <2> DEFINE f == [w \in Unstopped |-> job[w]]
  <2>2. f \in [Unstopped -> {f[w] : w \in Unstopped}]
    OBVIOUS
  <2>3. Orphans' \subseteq Orphans \cup {f[w] : w \in Unstopped}
    BY <2>1 DEF Orphans, Owned, Unstopped, Owning
  <2>4. Cardinality(Orphans') <= o + u
    <3> HIDE DEF f
    <3> QED
      BY <1>1, <2>2, <2>3, CountJoined
  <2>5. Cardinality(Orphans') \in Nat
    <3>1. Orphans' \subseteq Jobs
      BY DEF Orphans
    <3> QED
      BY <3>1, CountSubset, ProcessesAssumption
  <2>6. Budget' = Budget + n
    <3>1. n * (crashes + shutdowns + 1) = n * (crashes + shutdowns) + n /\ n * (crashes + shutdowns) \in Nat
      BY <1>2, <1>3
    <3> QED
      BY <1>1, <1>2, <2>1, <3>1 DEF Budget
  <2> QED
    BY <1>1, <1>4, <1>5, <2>1, <2>4, <2>5, <2>6 DEF OrphanInv
<1> QED
  BY <1>7, <1>8, <1>9, <1>10, <1>11, <1>12, <1>13, <1>14 DEF Next

\* Jobs that nobody will finish are at most one per worker and end of the
\* process, and one per result that could not be written.
THEOREM OrphansAreBounded == Spec => []BoundedOrphans
<1>1. Init => DownInv /\ OrphanInv
  BY DownInit, OrphanInit
<1>2. IInv /\ DownInv /\ OrphanInv /\ [Next]_vars => DownInv' /\ OrphanInv'
  BY DownNext, OrphanNext
<1>3. IInv /\ OrphanInv => BoundedOrphans
  <2> SUFFICES ASSUME IInv, OrphanInv
               PROVE  BoundedOrphans
    OBVIOUS
  <2>1. Cardinality(Orphans) \in Nat /\ Cardinality(Unstopped) \in Nat /\ Cardinality(Workers) \in Nat
    BY OrphansFinite
  <2>2. Budget \in Nat
    BY <2>1 DEF IInv, TypeOK, Budget
  <2>3. Cardinality(Orphans) <= Budget
    BY <2>1, <2>2 DEF OrphanInv
  <2> QED
    BY <2>3 DEF BoundedOrphans, Orphans, Budget
<1> QED
  BY <1>1, <1>2, <1>3, Induction, PTL DEF Spec

-----------------------------------------------------------------------------
(* JobQueue implements JobLifecycle: each commit is the step of the same    *)
(* name, a stop, a crash or a lost result abandons what was in hand, and    *)
(* every other action is a stutter.                                         *)

\* The submission times as JobLifecycle sees them.
Stamp == [j \in Jobs |-> IF status[j] = "absent" THEN 0 ELSE created[j]]

\* A step of JobLifecycle, or none, on the mapped state.
AbstractStep == [Lifecycle!Next]_<<status, Stamp, Owned>>

LEMMA OwnedMember ==
  ASSUME NEW j
  PROVE  j \in Owned <=> \E w \in Workers : wk[w] \in Owning /\ job[w] = j
  BY DEF Owned

\* What a worker has in hand depends on its own two variables only.
LEMMA OwnedStays ==
  ASSUME \A w \in Workers : /\ wk'[w] \in Owning <=> wk[w] \in Owning
                            /\ wk[w] \in Owning => job'[w] = job[w]
  PROVE  Owned' = Owned
  BY DEF Owned

LEMMA OwnedShrinks ==
  ASSUME \A w \in Workers : wk'[w] \in Owning => wk[w] \in Owning /\ job'[w] = job[w]
  PROVE  Owned' \subseteq Owned
  BY DEF Owned

LEMMA StampStays ==
  ASSUME \A j \in Jobs : /\ status'[j] = "absent" <=> status[j] = "absent"
                         /\ status[j] # "absent" => created'[j] = created[j]
  PROVE  Stamp' = Stamp
  BY DEF Stamp

LEMMA RefineInit == Init => Lifecycle!Init
<1> SUFFICES ASSUME Init PROVE Lifecycle!Init
  OBVIOUS
<1>1. Owned = {}
  BY DEF Init, Owned, Owning
<1> QED
  BY <1>1 DEF Init, Lifecycle!Init

\* The commit of a submit is the abstract Submit; the rest of it is invisible.
LEMMA RefineSubmit ==
  ASSUME IInv, NEW j \in Jobs, SubmitStamp(j) \/ SubmitStep(j) \/ SubmitFail(j)
  PROVE  AbstractStep
<1> USE DEF IInv, TypeOK, rows, workers
<1>1. wk' = wk /\ job' = job
  BY DEF SubmitStamp, SubmitStep, SubmitLock, SubmitCommit, SubmitAnswer, SubmitFail
<1>2. Owned' = Owned
  BY <1>1, OwnedStays
<1>3. CASE SubmitCommit(j)
  <2>1. status[j] = "absent" /\ status' = [status EXCEPT ![j] = "pending"] /\ created' = created
    BY <1>3 DEF SubmitCommit, SubmitInv
  <2>2. Stamp' = [Stamp EXCEPT ![j] = created[j]]
    BY <2>1 DEF Stamp
  <2>3. Stamp'[j] \in Nat /\ Stamp' = [Stamp EXCEPT ![j] = Stamp'[j]]
    BY <2>2 DEF Stamp
  <2>4. Lifecycle!Submit(j)
    BY <1>2, <2>1, <2>3 DEF Lifecycle!Submit, Stamp
  <2> QED BY <2>4 DEF AbstractStep, Lifecycle!Next
<1>4. CASE ~SubmitCommit(j)
  <2>1. status' = status /\ (created' = created \/ SubmitStamp(j))
    BY <1>4 DEF SubmitStamp, SubmitStep, SubmitLock, SubmitAnswer, SubmitFail
  <2>2. Stamp' = Stamp
    BY <2>1, StampStays DEF SubmitStamp, SubmitInv
  <2> QED BY <1>2, <2>1, <2>2 DEF AbstractStep
<1> QED
  BY <1>3, <1>4

LEMMA RefineCancelBegin ==
  ASSUME IInv, NEW c \in Cancels, NEW j \in Jobs,
         CancelMissing(c, j) \/ CancelRefused(c, j) \/ CancelRead(c, j)
  PROVE  AbstractStep
<1>1. UNCHANGED <<status, created, wk, job>>
  BY DEF CancelMissing, CancelRefused, CancelRead, rows, submits, workers
<1> QED
  BY <1>1, OwnedStays, StampStays DEF AbstractStep

\* The commit of a cancel is the abstract Cancel.
LEMMA RefineCancel ==
  ASSUME IInv, NEW c \in Cancels, CancelStep(c)
  PROVE  AbstractStep
<1>1. UNCHANGED <<created, wk, job>>
  BY DEF CancelStep, CancelLock, CancelFail, CancelCommit, submits, workers
<1>2. Owned' = Owned
  BY <1>1, OwnedStays
<1>3. CASE CancelCommit(c)
  <2>1. /\ target[c] \in Jobs /\ status[target[c]] \in {"pending", "running"}
        /\ status' = [status EXCEPT ![target[c]] = "cancelled"]
    BY <1>3 DEF CancelCommit, IInv, CancelInv
  <2>2. Stamp' = Stamp
    BY <1>1, <2>1, StampStays DEF IInv, TypeOK
  <2>3. Lifecycle!Cancel(target[c])
    BY <1>2, <2>1, <2>2 DEF Lifecycle!Cancel, Stamp
  <2> QED BY <2>1, <2>3 DEF AbstractStep, Lifecycle!Next
<1>4. CASE ~CancelCommit(c)
  <2>1. status' = status
    BY <1>4 DEF CancelStep, CancelLock, CancelFail, rows
  <2> QED BY <1>1, <1>2, <2>1, StampStays DEF AbstractStep
<1> QED
  BY <1>3, <1>4

\* The commit of a claim is the abstract Claim: its row is the oldest pending.
LEMMA RefineClaim ==
  ASSUME IInv, NEW w \in Workers, ClaimStep(w)
  PROVE  AbstractStep
<1> USE DEF IInv, TypeOK
<1>1. created' = created
  BY DEF ClaimStep, ClaimSelect, ClaimLock, ClaimFails, ClaimCommit, submits
<1>2. CASE ClaimCommit(w)
  <2>1. job[w] \in Jobs /\ Oldest(job[w])
    BY <1>2 DEF ClaimCommit, ClaimInv
  <2>2. /\ status' = [status EXCEPT ![job[w]] = "running"]
        /\ wk' = [wk EXCEPT ![w] = "claimed"] /\ job' = job
    BY <1>2, <2>1 DEF ClaimCommit, Oldest
  <2>3. Stamp' = Stamp
    BY <1>1, <2>1, <2>2, StampStays DEF Oldest
  <2>4. Owned' = Owned \cup {job[w]}
    <3>1. wk[w] \notin Owning
      BY <1>2 DEF ClaimCommit, Owning
    <3> QED BY <2>2, <3>1 DEF Owned, Owning
  <2>5. \A k \in Jobs : status[k] = "pending" => Stamp[job[w]] <= Stamp[k]
    BY <2>1 DEF Oldest, Stamp
  <2>6. Lifecycle!Claim(job[w])
    BY <2>1, <2>2, <2>3, <2>4, <2>5 DEF Lifecycle!Claim, Stamp, Oldest
  <2> QED BY <2>1, <2>6 DEF AbstractStep, Lifecycle!Next
<1>3. CASE ~ClaimCommit(w)
  <2>1. status' = status
    BY <1>3 DEF ClaimStep, ClaimSelect, ClaimLock, ClaimFails, rows
  <2>2. Stamp' = Stamp
    BY <1>1, <2>1, StampStays
  <2>3. Owned' = Owned
    BY <1>3, OwnedStays DEF ClaimStep, ClaimSelect, ClaimLock, ClaimFails, Done, Owning
  <2> QED BY <2>1, <2>2, <2>3 DEF AbstractStep
<1> QED
  BY <1>2, <1>3

LEMMA RefineRun ==
  ASSUME IInv, NEW w \in Workers, RunStep(w) \/ CompleteLock(w)
  PROVE  AbstractStep
<1> USE DEF IInv, TypeOK
<1>1. status' = status /\ created' = created /\ job' = job
  BY DEF RunStep, ExecuteStart, ExecuteUnreachable, ExecuteReturn, CompleteLock, rows, submits
<1>2. Owned' = Owned
  BY <1>1, OwnedStays
     DEF RunStep, ExecuteStart, ExecuteUnreachable, ExecuteReturn, CompleteLock, Owning
<1> QED
  BY <1>1, <1>2, StampStays DEF AbstractStep

\* The commit of a result is the abstract Finish: no other worker has the job.
LEMMA RefineRecord ==
  ASSUME IInv, NEW w \in Workers, CompleteCommit(w)
  PROVE  AbstractStep
<1> USE DEF IInv, TypeOK
<1>1. /\ job[w] \in Jobs /\ status[job[w]] \in {"running", "cancelled"}
      /\ \A v \in Workers \ {w} : wk[v] \in Owning => job[v] # job[w]
      /\ wk[w] \in Owning
  BY DEF CompleteCommit, OwnInv, Owning
<1>2. /\ status' = [status EXCEPT ![job[w]] = outcome[w]] /\ created' = created
      /\ wk' = [wk EXCEPT ![w] = "idle"] /\ job' = [job EXCEPT ![w] = Nobody]
  BY DEF CompleteCommit, Done, submits
<1>3. Stamp' = Stamp
  BY <1>1, <1>2, StampStays DEF Results
<1>4. Owned' = Owned \ {job[w]}
  BY <1>1, <1>2 DEF Owned, Owning
<1>5. job[w] \in Owned
  BY <1>1, OwnedMember
<1>6. Lifecycle!Finish(job[w])
  BY <1>1, <1>2, <1>3, <1>4, <1>5 DEF Lifecycle!Finish, Stamp, Results, Lifecycle!Results
<1> QED
  BY <1>1, <1>6 DEF AbstractStep, Lifecycle!Next

\* What interrupts workers abandons what they had in hand.
LEMMA RefineAbandon ==
  ASSUME status' = status, created' = created, Owned' \subseteq Owned
  PROVE  AbstractStep
<1>1. Stamp' = Stamp
  BY StampStays
<1>2. Lifecycle!Abandon
  BY <1>1 DEF Lifecycle!Abandon, Stamp
<1> QED
  BY <1>2 DEF AbstractStep, Lifecycle!Next

LEMMA RefineInterrupt ==
  ASSUME IInv, NEW w \in Workers, CompleteFails(w) \/ WorkerExit(w)
  PROVE  AbstractStep
<1>1. status' = status /\ created' = created
  BY DEF CompleteFails, WorkerExit, rows, submits
<1>2. Owned' \subseteq Owned
  BY OwnedShrinks DEF CompleteFails, WorkerExit, Done, Owning, IInv, TypeOK
<1> QED
  BY <1>1, <1>2, RefineAbandon

LEMMA RefineProcess ==
  ASSUME IInv, Shutdown \/ ServerError \/ StopWorkers \/ Exit \/ Crash \/ Restart
  PROVE  AbstractStep
<1>1. status' = status /\ created' = created
  BY DEF Shutdown, ServerError, StopWorkers, Exit, Crash, Die, Restart, rows, submits
<1>2. Owned' \subseteq Owned
  BY OwnedShrinks
     DEF Shutdown, ServerError, StopWorkers, Exit, Crash, Die, Restart, Owning, workers
<1> QED
  BY <1>1, <1>2, RefineAbandon

LEMMA RefineNext == IInv /\ [Next]_vars => AbstractStep
<1> SUFFICES ASSUME IInv, [Next]_vars PROVE AbstractStep
  OBVIOUS
<1>1. CASE UNCHANGED vars
  <2>1. UNCHANGED <<status, created, wk, job>>
    BY <1>1 DEF vars, rows, submits, workers
  <2> QED BY <2>1, OwnedStays, StampStays DEF AbstractStep
<1>2. ASSUME NEW w \in Workers, PollEmpty(w)
      PROVE  AbstractStep
  BY <1>1, <1>2 DEF PollEmpty
<1> QED
  BY <1>1, <1>2, RefineSubmit, RefineCancelBegin, RefineCancel, RefineClaim, RefineRun,
     RefineRecord, RefineInterrupt, RefineProcess DEF Next, WorkerStep, RecordStep

\* No interleaving of transactions, stop or crash takes a job along a path
\* JobLifecycle does not have.
THEOREM Refinement == Spec => ImplementsLifecycle
<1>1. IInv /\ [Next]_vars => [Lifecycle!Next]_Lifecycle!vars
  BY RefineNext DEF AbstractStep, Lifecycle!vars, Stamp
<1> QED
  BY <1>1, RefineInit, Induction, PTL DEF Spec, ImplementsLifecycle, Lifecycle!Spec

=============================================================================
