---------------------------- MODULE RetryProofs -----------------------------
(***************************************************************************)
(* Proofs about JobQueue and about Idempotency: what is tried again is     *)
(* done once.  First the queue, for any number of jobs, workers and        *)
(* operators, any limit on attempts and any faults: the inductive          *)
(* invariant IInv is preserved action by action, the safety properties are *)
(* conjuncts of it, and the refinement of JobLedger follows from it.  Then *)
(* the idempotency keys, for any requests, keys and hashes.                *)
(***************************************************************************)
EXTENDS JobQueue, Idempotency, TLAPS

(* A row inserted in the place of an absent one disturbs nothing.          *)
LEMMA EnqueueJobStep ==
  ASSUME IInv, NEW j \in Jobs, EnqueueJob(j) PROVE IInv'
  BY JobsAssumption
  DEF EnqueueJob, workerVars, IInv, TypeOK, RowState, JobStatus, Holds, PendingCancelHasJob,
      BusyHoldsJob,
      ClaimIsFresh, LockExclusive, CopyNotAhead, RunnerOwnsRow, SingleRunner,
      UniqueAttempt, AttemptsBounded, DeadIsExhausted, FailedHasRetry,
      CompletedIsSettled, AnnouncedIsSettled

(* The row selected is not locked by another claim, and on an untouched    *)
(* job its status rules out a runner.                                      *)
LEMMA ClaimSelectStep ==
  ASSUME IInv, NEW w \in Workers, NEW j \in Jobs, ClaimSelect(w, j) PROVE IInv'
<1> USE DEF IInv, ClaimSelect, Claimable, Locked, rowVars, TypeOK, Holds
<1>1. TypeOK' /\ PendingCancelHasJob' /\ BusyHoldsJob' /\ LockExclusive' /\ ClaimIsFresh'
  BY DEF PendingCancelHasJob, BusyHoldsJob, LockExclusive, ClaimIsFresh
<1>2. SingleRunner'
  BY DEF SingleRunner, RunnerOwnsRow
<1>3. RunnerOwnsRow' /\ CopyNotAhead' /\ UniqueAttempt'
  BY DEF RunnerOwnsRow, CopyNotAhead, UniqueAttempt
<1>4. AttemptsBounded' /\ DeadIsExhausted' /\ FailedHasRetry'
  BY DEF AttemptsBounded, DeadIsExhausted, FailedHasRetry
<1>5. CompletedIsSettled' /\ AnnouncedIsSettled'
  BY DEF CompletedIsSettled, AnnouncedIsSettled
<1> QED
  BY <1>1, <1>2, <1>3, <1>4, <1>5

(* The new attempt is one more than any copy of the row, so that it is     *)
(* nobody else's; the row was frozen since the SELECT.                     *)
LEMMA ClaimCommitStep ==
  ASSUME IInv, NEW w \in Workers, ClaimCommit(w) PROVE IInv'
<1> DEFINE j == held[w]
<1>1. /\ j \in Jobs /\ pc[w] = "claiming"
      /\ status[j] \in {"queued", "failed"}
      /\ attempts[j] < MaxAttempts /\ attempt[w] = attempts[j]
  BY DEF IInv, TypeOK, BusyHoldsJob, ClaimIsFresh, ClaimCommit
<1>2. /\ status' = [status EXCEPT ![j] = "running"]
      /\ attempts' = [attempts EXCEPT ![j] = @ + 1]
      /\ attempt' = [attempt EXCEPT ![w] = @ + 1]
      /\ pc' = [pc EXCEPT ![w] = "running"]
      /\ UNCHANGED <<due, held, cancelling, outbox, touched>>
  BY DEF ClaimCommit
<1> HIDE DEF j
<1>3. j = held[w]
  BY DEF j
<1>4. TypeOK' /\ BusyHoldsJob' /\ PendingCancelHasJob'
  BY <1>1, <1>2, <1>3 DEF IInv, TypeOK, RowState, JobStatus, BusyHoldsJob,
      PendingCancelHasJob
<1>5. \A v \in Workers \ {w} : ~ (pc[v] = "claiming" /\ held[v] = j)
  BY <1>1, <1>3 DEF IInv, LockExclusive
<1>6. \A v \in Workers : pc[v] = "running" /\ held[v] = j => j \in touched
  BY <1>1 DEF IInv, TypeOK, RunnerOwnsRow
<1>7. ClaimIsFresh' /\ LockExclusive' /\ SingleRunner'
  BY <1>1, <1>2, <1>3, <1>5, <1>6
  DEF IInv, TypeOK, ClaimIsFresh, LockExclusive, BusyHoldsJob, SingleRunner, Holds
<1>8. CopyNotAhead' /\ UniqueAttempt' /\ RunnerOwnsRow'
  BY <1>1, <1>2, <1>3, <1>6
  DEF IInv, TypeOK, BusyHoldsJob, CopyNotAhead, UniqueAttempt, RunnerOwnsRow
<1>9. AttemptsBounded' /\ DeadIsExhausted' /\ FailedHasRetry'
  BY <1>1, <1>2, MaxAttemptsAssumption
  DEF IInv, TypeOK, AttemptsBounded, DeadIsExhausted, FailedHasRetry
<1>10. CompletedIsSettled' /\ AnnouncedIsSettled'
  BY <1>1, <1>2, <1>3
  DEF IInv, TypeOK, BusyHoldsJob, CompletedIsSettled, AnnouncedIsSettled, Holds
<1> QED
  BY <1>4, <1>7, <1>8, <1>9, <1>10 DEF IInv

(* On an untouched job the worker that completes it is its only runner.    *)
LEMMA CompleteJobStep ==
  ASSUME IInv, NEW w \in Workers, CompleteJob(w) PROVE IInv'
  BY JobsAssumption
  DEF CompleteJob, SetStatus, Exists, Locked, IInv, TypeOK, RowState, JobStatus,
      Holds, PendingCancelHasJob,
      BusyHoldsJob, ClaimIsFresh, LockExclusive, CopyNotAhead, RunnerOwnsRow,
      SingleRunner, UniqueAttempt, AttemptsBounded, DeadIsExhausted,
      FailedHasRetry, CompletedIsSettled, AnnouncedIsSettled

(* FailJob decides on the worker's copy, which on an untouched job is the  *)
(* row's number of attempts and otherwise is at most that.                 *)
LEMMA FailJobStep ==
  ASSUME IInv, NEW w \in Workers, FailJob(w) PROVE IInv'
<1> DEFINE j == held[w]
<1>1. /\ j \in Jobs /\ pc[w] = "running"
      /\ attempt[w] <= attempts[j] /\ attempts[j] <= MaxAttempts
      /\ attempts[j] \in Nat /\ attempt[w] \in Nat
      /\ j \notin touched => attempt[w] = attempts[j]
  BY DEF IInv, TypeOK, BusyHoldsJob, CopyNotAhead, AttemptsBounded, RunnerOwnsRow,
         FailJob
<1>2. /\ ~ Locked(j)
      /\ status' = IF Exists(j) THEN [status EXCEPT ![j] = FailedStatus(w)] ELSE status
      /\ pc' = [pc EXCEPT ![w] = "failed"]
      /\ UNCHANGED <<attempts, held, attempt, cancelling, outbox, touched>>
  BY DEF FailJob, SetStatus
<1>3. /\ FailedStatus(w) \in {"failed", "dead"}
      /\ FailedStatus(w) = "dead" => attempts[j] = MaxAttempts
      /\ FailedStatus(w) = "failed" /\ j \notin touched => attempts[j] < MaxAttempts
  BY <1>1, MaxAttemptsAssumption DEF FailedStatus
<1> HIDE DEF j
<1>4. j = held[w]
  BY DEF j
<1>5. TypeOK' /\ BusyHoldsJob' /\ PendingCancelHasJob'
  BY <1>1, <1>2, <1>3
  DEF IInv, TypeOK, RowState, JobStatus, BusyHoldsJob,
      PendingCancelHasJob, FailJob
<1>6. ClaimIsFresh' /\ LockExclusive'
  BY <1>1, <1>2
  DEF IInv, TypeOK, Locked, ClaimIsFresh, LockExclusive, BusyHoldsJob
<1>7. \A v \in Workers \ {w} : pc[v] = "running" /\ held[v] = j => j \in touched
  BY <1>1, <1>4 DEF IInv, SingleRunner, Holds
<1>8. RunnerOwnsRow' /\ SingleRunner'
  BY <1>1, <1>2, <1>4, <1>7
  DEF IInv, TypeOK, RunnerOwnsRow, SingleRunner, BusyHoldsJob, Holds
<1>9. CopyNotAhead' /\ UniqueAttempt' /\ AttemptsBounded'
  BY <1>1, <1>2 DEF IInv, TypeOK, CopyNotAhead, UniqueAttempt, AttemptsBounded
<1>10. DeadIsExhausted' /\ FailedHasRetry'
  BY <1>1, <1>2, <1>3 DEF IInv, TypeOK, DeadIsExhausted, FailedHasRetry
<1>11. CompletedIsSettled' /\ AnnouncedIsSettled'
  BY <1>1, <1>2, <1>4
  DEF IInv, TypeOK, CompletedIsSettled, AnnouncedIsSettled, BusyHoldsJob, Holds
<1> QED
  BY <1>5, <1>6, <1>8, <1>9, <1>10, <1>11 DEF IInv

(* What was settled between the write and the report stays so after it.    *)
LEMMA ReportStep ==
  ASSUME IInv, NEW w \in Workers, Report(w) PROVE IInv'
  BY JobsAssumption
  DEF Report, BackToIdle, rowVars, IInv, TypeOK, Holds, PendingCancelHasJob,
      BusyHoldsJob, ClaimIsFresh,
      LockExclusive, CopyNotAhead, RunnerOwnsRow, SingleRunner, UniqueAttempt,
      AttemptsBounded, DeadIsExhausted, FailedHasRetry, CompletedIsSettled,
      AnnouncedIsSettled

(* A worker that drops what it has in hand, rows unchanged, breaks nothing.*)
LEMMA BackToIdleStep ==
  ASSUME IInv, NEW w \in Workers, BackToIdle(w),
         UNCHANGED <<rowVars, cancelling, outbox, touched>>
  PROVE  IInv'
<1> USE DEF IInv, BackToIdle, rowVars, TypeOK, Holds
<1>1. TypeOK' /\ PendingCancelHasJob' /\ BusyHoldsJob' /\ LockExclusive' /\ ClaimIsFresh'
  BY DEF PendingCancelHasJob, BusyHoldsJob, LockExclusive, ClaimIsFresh
<1>2. CopyNotAhead' /\ RunnerOwnsRow' /\ SingleRunner' /\ UniqueAttempt'
  BY DEF CopyNotAhead, RunnerOwnsRow, SingleRunner, UniqueAttempt
<1>3. AttemptsBounded' /\ DeadIsExhausted' /\ FailedHasRetry'
  BY DEF AttemptsBounded, DeadIsExhausted, FailedHasRetry
<1>4. CompletedIsSettled' /\ AnnouncedIsSettled'
  BY DEF CompletedIsSettled, AnnouncedIsSettled
<1> QED
  BY <1>1, <1>2, <1>3, <1>4

(* A crash is such a step.                                                 *)
LEMMA CrashStep ==
  ASSUME IInv, NEW w \in Workers, Crash(w) PROVE IInv'
  BY BackToIdleStep DEF Crash

(* A lost write too, or it leaves the row and goes on to report a failure. *)
LEMMA LostWriteStep ==
  ASSUME IInv, NEW w \in Workers, LostWrite(w) PROVE IInv'
<1>1. CASE BackToIdle(w)
  BY <1>1, BackToIdleStep DEF LostWrite
<1>2. CASE /\ pc[w] = "running"
           /\ pc' = [pc EXCEPT ![w] = "failed"]
           /\ UNCHANGED <<held, attempt>>
  BY <1>2
  DEF LostWrite, rowVars, IInv, TypeOK, Holds, PendingCancelHasJob,
      BusyHoldsJob, ClaimIsFresh,
      LockExclusive, CopyNotAhead, RunnerOwnsRow, SingleRunner, UniqueAttempt,
      AttemptsBounded, DeadIsExhausted, FailedHasRetry, CompletedIsSettled,
      AnnouncedIsSettled
<1> QED
  BY <1>1, <1>2 DEF LostWrite

(* The passing of time leaves statuses, attempts, workers and history.     *)
LEMMA BackoffElapsesStep ==
  ASSUME IInv, NEW j \in Jobs, BackoffElapses(j) PROVE IInv'
  BY DEF BackoffElapses, workerVars, IInv, TypeOK, Holds, PendingCancelHasJob,
      BusyHoldsJob, ClaimIsFresh,
      LockExclusive, CopyNotAhead, RunnerOwnsRow, SingleRunner, UniqueAttempt,
      AttemptsBounded, DeadIsExhausted, FailedHasRetry, CompletedIsSettled,
      AnnouncedIsSettled

(* CancelRead only remembers a job and its status.                         *)
LEMMA CancelReadStep ==
  ASSUME IInv, NEW o \in Operators, NEW j \in Jobs, CancelRead(o, j) PROVE IInv'
  BY DEF CancelRead, rowVars, workerVars, IInv, TypeOK, Holds, PendingCancelHasJob,
      BusyHoldsJob,
      ClaimIsFresh, LockExclusive, CopyNotAhead, RunnerOwnsRow, SingleRunner,
      UniqueAttempt, AttemptsBounded, DeadIsExhausted, FailedHasRetry,
      CompletedIsSettled, AnnouncedIsSettled

(* The cancelled job joins touched, where fewer conjuncts speak of it.     *)
LEMMA CancelWriteStep ==
  ASSUME IInv, NEW o \in Operators, CancelWrite(o) PROVE IInv'
<1> DEFINE j == cancelling[o].job
           s == CancelTarget(cancelling[o].read)
<1>1. j \in Jobs
  BY DEF IInv, PendingCancelHasJob, CancelWrite
<1>2. s \in {"cancelled", "cancel_requested"} /\ NoCancel.job = NoJob
  BY DEF CancelTarget, NoCancel
<1>3. /\ ~ Locked(j)
      /\ status' = IF Exists(j) THEN [status EXCEPT ![j] = s] ELSE status
      /\ touched' = touched \cup {j}
      /\ cancelling' = [cancelling EXCEPT ![o] = NoCancel]
      /\ UNCHANGED <<attempts, due, pc, held, attempt, outbox>>
  BY DEF CancelWrite, SetStatus, workerVars
<1> HIDE DEF j, s
<1>4. TypeOK' /\ BusyHoldsJob' /\ PendingCancelHasJob'
  BY <1>1, <1>2, <1>3
  DEF IInv, TypeOK, RowState, JobStatus, NoCancel, BusyHoldsJob, PendingCancelHasJob
<1>5. ClaimIsFresh' /\ LockExclusive'
  BY <1>1, <1>3 DEF IInv, TypeOK, Locked, ClaimIsFresh, LockExclusive, BusyHoldsJob
<1>6. CopyNotAhead' /\ UniqueAttempt' /\ AttemptsBounded'
  BY <1>3 DEF IInv, CopyNotAhead, UniqueAttempt, AttemptsBounded
<1>7. RunnerOwnsRow' /\ SingleRunner'
  BY <1>1, <1>3 DEF IInv, TypeOK, RunnerOwnsRow, SingleRunner, BusyHoldsJob, Holds
<1>8. DeadIsExhausted' /\ FailedHasRetry'
  BY <1>1, <1>2, <1>3 DEF IInv, TypeOK, DeadIsExhausted, FailedHasRetry
<1>9. CompletedIsSettled' /\ AnnouncedIsSettled'
  BY <1>1, <1>3
  DEF IInv, TypeOK, CompletedIsSettled, AnnouncedIsSettled, BusyHoldsJob, Holds
<1> QED
  BY <1>4, <1>5, <1>6, <1>7, <1>8, <1>9 DEF IInv

(* A retried row was failed, dead or cancelled: no untouched runner has it.*)
LEMMA RetryJobStep ==
  ASSUME IInv, NEW o \in Operators, NEW j \in Jobs, RetryJob(o, j) PROVE IInv'
<1>1. /\ ~ Locked(j)
      /\ status[j] \in {"failed", "dead", "cancelled"}
      /\ status' = [status EXCEPT ![j] = "queued"]
      /\ due' = [due EXCEPT ![j] = TRUE]
      /\ UNCHANGED <<attempts, pc, held, attempt, cancelling, outbox, touched>>
  BY DEF RetryJob, SetStatus, Exists, JobStatus, workerVars
<1>2. TypeOK' /\ BusyHoldsJob' /\ PendingCancelHasJob'
  BY <1>1 DEF IInv, TypeOK, RowState, JobStatus, BusyHoldsJob, PendingCancelHasJob
<1>3. ClaimIsFresh' /\ LockExclusive'
  BY <1>1 DEF IInv, TypeOK, Locked, ClaimIsFresh, LockExclusive, BusyHoldsJob
<1>4. CopyNotAhead' /\ UniqueAttempt' /\ AttemptsBounded'
  BY <1>1 DEF IInv, CopyNotAhead, UniqueAttempt, AttemptsBounded
<1>5. RunnerOwnsRow' /\ SingleRunner'
  BY <1>1 DEF IInv, TypeOK, RunnerOwnsRow, SingleRunner, BusyHoldsJob, Holds
<1>6. DeadIsExhausted' /\ FailedHasRetry'
  BY <1>1 DEF IInv, TypeOK, DeadIsExhausted, FailedHasRetry
<1>7. CompletedIsSettled' /\ AnnouncedIsSettled'
  BY <1>1
  DEF IInv, TypeOK, CompletedIsSettled, AnnouncedIsSettled, BusyHoldsJob, Holds
<1> QED
  BY <1>2, <1>3, <1>4, <1>5, <1>6, <1>7 DEF IInv

(* A reset deletes rows under the workers' feet, but none that is locked.  *)
LEMMA ResetDemoStep ==
  ASSUME IInv, NEW o \in Operators, ResetDemo(o) PROVE IInv'
<1>1. /\ \A j \in Jobs : ~ Locked(j)
      /\ status' = [j \in Jobs |-> IF Exists(j) THEN "deleted" ELSE status[j]]
      /\ UNCHANGED <<attempts, due, pc, held, attempt, cancelling, outbox, touched>>
  BY DEF ResetDemo, workerVars
<1>2. \A j \in Jobs : status'[j] = status[j] \/ status'[j] = "deleted"
  BY <1>1
<1>3. TypeOK' /\ BusyHoldsJob' /\ PendingCancelHasJob'
  BY <1>1 DEF IInv, TypeOK, RowState, BusyHoldsJob, PendingCancelHasJob
<1>4. ClaimIsFresh' /\ LockExclusive'
  BY <1>1 DEF IInv, Locked, ClaimIsFresh, LockExclusive, BusyHoldsJob
<1>5. CopyNotAhead' /\ UniqueAttempt' /\ AttemptsBounded'
  BY <1>1 DEF IInv, CopyNotAhead, UniqueAttempt, AttemptsBounded
<1>6. SingleRunner'
  BY <1>1 DEF IInv, SingleRunner, Holds
<1>7. RunnerOwnsRow' /\ DeadIsExhausted' /\ FailedHasRetry'
  BY <1>1, <1>2
  DEF IInv, RunnerOwnsRow, DeadIsExhausted, FailedHasRetry, BusyHoldsJob
<1>8. CompletedIsSettled' /\ AnnouncedIsSettled'
  BY <1>1, <1>2 DEF IInv, CompletedIsSettled, AnnouncedIsSettled, BusyHoldsJob, Holds
<1> QED
  BY <1>3, <1>4, <1>5, <1>6, <1>7, <1>8 DEF IInv

-----------------------------------------------------------------------------
(* The invariant holds when the table is empty.                            *)
LEMMA InitIInv == Init => IInv
  BY MaxAttemptsAssumption
  DEF Init, IInv, TypeOK, RowState, JobStatus, NoCancel, Holds, PendingCancelHasJob,
      BusyHoldsJob, ClaimIsFresh, LockExclusive, CopyNotAhead, RunnerOwnsRow,
      SingleRunner, UniqueAttempt, AttemptsBounded, DeadIsExhausted, FailedHasRetry,
      CompletedIsSettled, AnnouncedIsSettled

(* A stuttering step preserves it.                                         *)
LEMMA StutterStep ==
  ASSUME IInv, UNCHANGED vars PROVE IInv'
  BY DEF vars, rowVars, workerVars, IInv, TypeOK, Holds, PendingCancelHasJob,
      BusyHoldsJob, ClaimIsFresh, LockExclusive, CopyNotAhead, RunnerOwnsRow,
      SingleRunner, UniqueAttempt, AttemptsBounded, DeadIsExhausted, FailedHasRetry,
      CompletedIsSettled, AnnouncedIsSettled

(* Every step of the system preserves it.                                  *)
LEMMA NextIInv == IInv /\ [Next]_vars => IInv'
<1> SUFFICES ASSUME IInv, [Next]_vars PROVE IInv'
  OBVIOUS
<1>1. CASE \E j \in Jobs : EnqueueJob(j) \/ BackoffElapses(j)
  BY <1>1, EnqueueJobStep, BackoffElapsesStep
<1>2. ASSUME NEW w \in Workers, WorkerStep(w) \/ Crash(w) \/ LostWrite(w)
      PROVE  IInv'
  BY <1>2, ClaimSelectStep, ClaimCommitStep, CompleteJobStep, FailJobStep,
     ReportStep, CrashStep, LostWriteStep DEF WorkerStep
<1>3. ASSUME NEW o \in Operators, OperatorStep(o)
      PROVE  IInv'
  BY <1>3, CancelReadStep, CancelWriteStep, RetryJobStep, ResetDemoStep
  DEF OperatorStep
<1>4. CASE UNCHANGED vars
  BY <1>4, StutterStep
<1> QED
  BY <1>1, <1>2, <1>3, <1>4 DEF Next

(* IInv is an invariant of the queue.                                      *)
THEOREM Invariance == Spec => []IInv
  BY InitIInv, NextIInv, PTL DEF Spec

(* The state of the queue keeps its type: in particular CancelJob and      *)
(* FailJob only write statuses that the table's CHECK allows.              *)
THEOREM TypeCorrect == Spec => []TypeOK
  BY Invariance, PTL DEF IInv

(* No job has two workers as long as no cancel has touched it.             *)
THEOREM MutualExclusion == Spec => []SingleRunner
  BY Invariance, PTL DEF IInv

(* No attempt of a job has two workers, cancelled or not.                  *)
THEOREM AttemptsAreUnique == Spec => []UniqueAttempt
  BY Invariance, PTL DEF IInv

(* No job is run more often than max_attempts, retries by operators,       *)
(* crashes and lost writes included.                                       *)
THEOREM BoundedExecution == Spec => []AttemptsBounded
  BY Invariance, PTL DEF IInv

(* Dead means exhausted, and failed means that an attempt is left.         *)
THEOREM RetryPolicy == Spec => []RetryDecided
  BY Invariance, PTL DEF IInv, RetryDecided

(* A job announced as completed is over, unless a cancel touched it.       *)
THEOREM CompletionIsFinal == Spec => []AnnouncedIsSettled
  BY Invariance, PTL DEF IInv

-----------------------------------------------------------------------------
(* The queue implements the ledger.                                        *)

(* A step that changes neither attempts nor a running worker stutters.     *)
LEMMA SameWorkersStutter ==
  ASSUME UNCHANGED <<attempts, pc, held, attempt>>
  PROVE  UNCHANGED Ledger!ledgerVars
  BY DEF Ledger!ledgerVars, LiveAttempts

(* A claim that commits begins the job's next attempt.                     *)
LEMMA CommitBegins ==
  ASSUME IInv, NEW w \in Workers, ClaimCommit(w)
  PROVE  Ledger!Begin(w, held[w])
<1>1. /\ held[w] \in Jobs /\ pc[w] = "claiming"
      /\ attempts[held[w]] < MaxAttempts /\ attempt[w] = attempts[held[w]]
  BY DEF IInv, BusyHoldsJob, ClaimIsFresh, ClaimCommit
<1>2. /\ attempts' = [attempts EXCEPT ![held[w]] = @ + 1]
      /\ attempt' = [attempt EXCEPT ![w] = @ + 1]
      /\ pc' = [pc EXCEPT ![w] = "running"]
      /\ held' = held
  BY DEF ClaimCommit
<1>3. ~ Ledger!Busy(w)
  BY <1>1 DEF Ledger!Busy, LiveAttempts
<1>4. LiveAttempts' = LiveAttempts \cup {<<w, held[w], attempts[held[w]] + 1>>}
  <2>1. {v \in Workers : pc'[v] = "running"}
          = {v \in Workers : pc[v] = "running"} \cup {w}
    BY <1>2 DEF IInv, TypeOK
  <2>2. attempt'[w] = attempts[held[w]] + 1
    BY <1>1, <1>2 DEF IInv, TypeOK
  <2>3. \A v \in Workers : pc[v] = "running" => attempt'[v] = attempt[v]
    BY <1>1, <1>2 DEF IInv, TypeOK
  <2> QED
    BY <1>2, <2>1, <2>2, <2>3 DEF LiveAttempts
<1> QED
  BY <1>1, <1>2, <1>3, <1>4 DEF Ledger!Begin

(* A running worker that stops running, however that comes, ends its       *)
(* attempt and no other.                                                   *)
LEMMA StopEnds ==
  ASSUME IInv, NEW w \in Workers, pc[w] = "running",
         NEW q \in {"idle", "completed", "failed"},
         pc' = [pc EXCEPT ![w] = q],
         \A v \in Workers \ {w} : held'[v] = held[v] /\ attempt'[v] = attempt[v],
         attempts' = attempts
  PROVE  Ledger!End(w)
<1>1. Ledger!Busy(w)
  <2>1. <<w, held[w], attempt[w]>> \in LiveAttempts
    BY DEF LiveAttempts
  <2>2. <<w, held[w], attempt[w]>>[1] = w
    OBVIOUS
  <2> QED
    BY <2>1, <2>2 DEF Ledger!Busy
<1>2. {v \in Workers : pc'[v] = "running"}
        = {v \in Workers : pc[v] = "running"} \ {w}
  BY DEF IInv, TypeOK
<1>3. LiveAttempts' = {e \in LiveAttempts : e[1] # w}
  BY <1>2 DEF LiveAttempts
<1> QED
  BY <1>1, <1>3 DEF Ledger!End

(* A worker that was not running drops what it had, and nobody notices.    *)
LEMMA DropStutters ==
  ASSUME IInv, NEW w \in Workers, pc[w] # "running", BackToIdle(w),
         attempts' = attempts
  PROVE  UNCHANGED Ledger!ledgerVars
<1>1. {v \in Workers : pc'[v] = "running"} = {v \in Workers : pc[v] = "running"}
  BY DEF IInv, TypeOK, BackToIdle
<1>2. \A v \in Workers : pc[v] = "running" =>
        held'[v] = held[v] /\ attempt'[v] = attempt[v]
  BY DEF IInv, TypeOK, BackToIdle
<1> QED
  BY <1>1, <1>2 DEF Ledger!ledgerVars, LiveAttempts

(* Dropping the job in hand is a step of the ledger in either case.        *)
LEMMA DropMaps ==
  ASSUME IInv, NEW w \in Workers, BackToIdle(w), attempts' = attempts
  PROVE  [Ledger!Next]_(Ledger!ledgerVars)
<1>1. CASE pc[w] = "running"
  <2>1. Ledger!End(w)
    BY <1>1, StopEnds DEF BackToIdle, IInv, TypeOK
  <2> QED
    BY <2>1 DEF Ledger!Next
<1>2. CASE pc[w] # "running"
  BY <1>2, DropStutters
<1> QED
  BY <1>1, <1>2

(* A selection takes the lock only: the attempt has not begun.             *)
LEMMA SelectStutters ==
  ASSUME IInv, NEW w \in Workers, NEW j \in Jobs, ClaimSelect(w, j)
  PROVE  UNCHANGED Ledger!ledgerVars
<1>1. {v \in Workers : pc'[v] = "running"} = {v \in Workers : pc[v] = "running"}
  BY DEF IInv, TypeOK, ClaimSelect
<1>2. \A v \in Workers : pc[v] = "running" =>
        held'[v] = held[v] /\ attempt'[v] = attempt[v]
  BY DEF IInv, TypeOK, ClaimSelect
<1> QED
  BY <1>1, <1>2 DEF Ledger!ledgerVars, LiveAttempts, ClaimSelect, rowVars

(* Every step of a worker maps to a step of the ledger or to a stutter.    *)
LEMMA WorkerMaps ==
  ASSUME IInv, NEW w \in Workers, WorkerStep(w) \/ Crash(w) \/ LostWrite(w)
  PROVE  [Ledger!Next]_(Ledger!ledgerVars)
<1>1. CASE \E j \in Jobs : ClaimSelect(w, j)
  BY <1>1, SelectStutters
<1>2. CASE ClaimCommit(w)
  <2>1. Ledger!Begin(w, held[w]) /\ held[w] \in Jobs
    BY <1>2, CommitBegins DEF IInv, BusyHoldsJob, ClaimCommit
  <2> QED
    BY <2>1 DEF Ledger!Next
<1>3. CASE CompleteJob(w) \/ FailJob(w)
  <2>1. Ledger!End(w)
    BY <1>3, StopEnds DEF CompleteJob, FailJob
  <2> QED
    BY <2>1 DEF Ledger!Next
<1>4. CASE Report(w) \/ Crash(w)
  BY <1>4, DropMaps DEF Report, Crash, rowVars
<1>5. CASE LostWrite(w)
  <2>1. CASE BackToIdle(w)
    BY <1>5, <2>1, DropMaps DEF LostWrite, rowVars
  <2>2. CASE /\ pc[w] = "running"
             /\ pc' = [pc EXCEPT ![w] = "failed"]
             /\ UNCHANGED <<held, attempt>>
    <3>1. Ledger!End(w)
      BY <1>5, <2>2, StopEnds DEF LostWrite, rowVars
    <3> QED
      BY <3>1 DEF Ledger!Next
  <2> QED
    BY <1>5, <2>1, <2>2 DEF LostWrite
<1> QED
  BY <1>1, <1>2, <1>3, <1>4, <1>5 DEF WorkerStep

(* The executions of the queue are those the ledger allows: attempts are   *)
(* numbered one by one, never beyond the limit, and each is one worker's.  *)
THEOREM Refinement == Spec => RefinesLedger
<1>1. Init => Ledger!Init
  BY DEF Init, Ledger!Init, LiveAttempts
<1>2. IInv /\ [Next]_vars => [Ledger!Next]_(Ledger!ledgerVars)
  <2> SUFFICES ASSUME IInv, [Next]_vars PROVE [Ledger!Next]_(Ledger!ledgerVars)
    OBVIOUS
  <2>1. CASE \E j \in Jobs : EnqueueJob(j) \/ BackoffElapses(j)
    BY <2>1, SameWorkersStutter DEF EnqueueJob, BackoffElapses, workerVars
  <2>2. CASE \E w \in Workers : WorkerStep(w) \/ Crash(w) \/ LostWrite(w)
    BY <2>2, WorkerMaps
  <2>3. CASE \E o \in Operators : OperatorStep(o)
    BY <2>3, SameWorkersStutter
    DEF OperatorStep, CancelRead, CancelWrite, RetryJob, ResetDemo, workerVars, rowVars
  <2>4. CASE UNCHANGED vars
    BY <2>4, SameWorkersStutter DEF vars, rowVars, workerVars
  <2> QED
    BY <2>1, <2>2, <2>3, <2>4 DEF Next
<1> QED
  BY <1>1, <1>2, Invariance, PTL DEF Spec, RefinesLedger, Ledger!Spec

-----------------------------------------------------------------------------
-----------------------------------------------------------------------------
(***************************************************************************)
(* Idempotency.  What holds under every fault comes first; the theorems    *)
(* after it name the faults they exclude.                                  *)
(***************************************************************************)

(* A deployment stays what it is.                                          *)
LEMMA SameDeployment ==
  [IdempotencyNext]_idempotencyVars =>
    /\ deployment' = deployment
    /\ FirstStays' = FirstStays /\ SavesAreMade' = SavesAreMade
    /\ LocksHold' = LocksHold
<1>1. [IdempotencyNext]_idempotencyVars => deployment' = deployment
  BY DEF IdempotencyNext, RequestStep, Unkeyed, ReadMiss, Replay, Conflict, Acquire, InFlight,
     SkipLock, Enqueue, Save, Release, DatabaseError, ApiCrash, LockExpires, ResetKeys, RestartInMemory, idempotencyVars
<1> QED
  BY <1>1 DEF FirstStays, SavesAreMade, LocksHold, Locking, Storage, DeploymentFaults

(* The invariant that needs no assumption holds at the start ...           *)
LEMMA InitBase == IdempotencyInit => BaseInv
  BY DEF IdempotencyInit, BaseInv, IdempotencyTypeOK, KeyedOnly, JobsAreLater, AnswersAreLate,
         OneRecordPerKey, ReplayIsOfSameRequest

(* ... the save keeps one record for a key ...                             *)
LEMMA SaveBase ==
  ASSUME BaseInv, NEW r \in Requests, Save(r) PROVE BaseInv'
<1> USE DEF BaseInv, Save, Goto, SaveIdempotency, Recorded, SameKey
<1>1. IdempotencyTypeOK' /\ KeyedOnly'
  BY DEF IdempotencyTypeOK, KeyedOnly
<1>2. JobsAreLater' /\ AnswersAreLate' /\ ReplayIsOfSameRequest'
  BY DEF IdempotencyTypeOK, JobsAreLater, AnswersAreLate, ReplayIsOfSameRequest
<1>3. OneRecordPerKey'
  BY DEF IdempotencyTypeOK, OneRecordPerKey
<1> QED
  BY <1>1, <1>2, <1>3

(* ... a replay answers with a record of the same key and hash ...         *)
LEMMA ReplayBase ==
  ASSUME BaseInv, NEW r \in Requests, Replay(r) PROVE BaseInv'
  BY DEF BaseInv, Replay, Arrive, Finish, Goto, Recorded, SameKey, IdempotencyTypeOK, Accepted,
         KeyedOnly, JobsAreLater, AnswersAreLate, OneRecordPerKey,
         ReplayIsOfSameRequest

(* ... and no other step disturbs any of it.                               *)
LEMMA OtherBase ==
  ASSUME BaseInv, NEW r \in Requests,
         \/ Unkeyed(r) \/ ReadMiss(r) \/ Conflict(r)
         \/ Acquire(r) \/ InFlight(r) \/ SkipLock(r)
         \/ Enqueue(r) \/ Release(r)
         \/ DatabaseError(r) \/ ApiCrash(r) \/ LockExpires(r)
  PROVE  BaseInv'
<1> USE DEF BaseInv, Arrive, Accepted, Finish, Goto
<1>1. CASE Unkeyed(r) \/ ReadMiss(r) \/ Conflict(r)
  BY <1>1 DEF Unkeyed, ReadMiss, Conflict, IdempotencyTypeOK, KeyedOnly, JobsAreLater,
     AnswersAreLate, OneRecordPerKey, ReplayIsOfSameRequest, SameKey
<1>2. CASE Acquire(r) \/ InFlight(r) \/ SkipLock(r)
  BY <1>2 DEF Acquire, InFlight, SkipLock, IdempotencyTypeOK, KeyedOnly, JobsAreLater,
     AnswersAreLate, OneRecordPerKey, ReplayIsOfSameRequest, SameKey
<1>3. CASE Enqueue(r) \/ Release(r)
  BY <1>3 DEF Enqueue, Release, IdempotencyTypeOK, KeyedOnly, JobsAreLater, AnswersAreLate,
     OneRecordPerKey, ReplayIsOfSameRequest, SameKey
<1>4. CASE DatabaseError(r)
  BY <1>4 DEF DatabaseError, IdempotencyTypeOK, KeyedOnly, JobsAreLater, AnswersAreLate,
     OneRecordPerKey, ReplayIsOfSameRequest, SameKey
<1>5. CASE ApiCrash(r) \/ LockExpires(r)
  BY <1>5 DEF ApiCrash, LockExpires, IdempotencyTypeOK, KeyedOnly, JobsAreLater, AnswersAreLate,
     OneRecordPerKey, ReplayIsOfSameRequest, SameKey
<1> QED
  BY <1>1, <1>2, <1>3, <1>4, <1>5

(* A reset empties the tables, a restart in memory the store.              *)
LEMMA ResetBase ==
  ASSUME BaseInv, ResetKeys \/ RestartInMemory PROVE BaseInv'
  BY DEF BaseInv, ResetKeys, RestartInMemory, IdempotencyTypeOK, KeyedOnly, JobsAreLater,
         AnswersAreLate, OneRecordPerKey, ReplayIsOfSameRequest, SameKey

(* Every step of the system preserves the base invariant.                  *)
LEMMA NextBase == BaseInv /\ [IdempotencyNext]_idempotencyVars => BaseInv'
<1> SUFFICES ASSUME BaseInv, [IdempotencyNext]_idempotencyVars PROVE BaseInv'
  OBVIOUS
<1>1. ASSUME NEW r \in Requests,
             RequestStep(r) \/ DatabaseError(r) \/ ApiCrash(r) \/ LockExpires(r)
      PROVE  BaseInv'
  BY <1>1, SaveBase, ReplayBase, OtherBase DEF RequestStep
<1>2. CASE UNCHANGED idempotencyVars
  BY <1>2 DEF idempotencyVars, BaseInv, IdempotencyTypeOK, KeyedOnly, JobsAreLater, AnswersAreLate,
     OneRecordPerKey, ReplayIsOfSameRequest, SameKey
<1> QED
  BY <1>1, <1>2, ResetBase DEF IdempotencyNext

(* Whatever fails: a key has one record, and nobody is answered with the   *)
(* outcome of another request.                                             *)
THEOREM BaseInvariance == IdempotencySpec => []BaseInv
  BY InitBase, NextBase, PTL DEF IdempotencySpec

(* A key has one record, whatever requests raced to save theirs.           *)
THEOREM UniqueRecord == IdempotencySpec => []OneRecordPerKey
  BY BaseInvariance, PTL DEF BaseInv

(* A replay was produced for the same key and the same body.               *)
THEOREM FaithfulReplay == IdempotencySpec => []ReplayIsOfSameRequest
  BY BaseInvariance, PTL DEF BaseInv

-----------------------------------------------------------------------------
(* In Postgres the first record stays, so that all replays agree.          *)
THEOREM ReplayAgreement == IdempotencySpec => []ReplaysAgree
<1> DEFINE Inv == FirstStays => ReplayedIsStored
<1>1. IdempotencyInit => Inv
  BY DEF IdempotencyInit, ReplayedIsStored
<1>2. BaseInv /\ Inv /\ [IdempotencyNext]_idempotencyVars => Inv'
  <2> SUFFICES ASSUME BaseInv, ReplayedIsStored, [IdempotencyNext]_idempotencyVars, FirstStays
               PROVE  ReplayedIsStored'
    BY SameDeployment
  <2> USE DEF BaseInv, ReplayedIsStored
  <2>1. stored \subseteq stored'
    BY DEF FirstStays, IdempotencyNext, RequestStep, Unkeyed, ReadMiss, Replay, Conflict, Acquire, InFlight,
       SkipLock, Enqueue, Save, SaveIdempotency, Release, DatabaseError, ApiCrash,
       LockExpires, ResetKeys, RestartInMemory, idempotencyVars
  <2>2. \A r \in Requests : reply'[r] = "replayed" => answer'[r] \in stored'
    <3> SUFFICES ASSUME NEW r \in Requests, reply'[r] = "replayed"
                 PROVE  answer'[r] \in stored'
      OBVIOUS
    <3>1. CASE reply'[r] = reply[r] /\ answer'[r] = answer[r]
      BY <2>1, <3>1
    <3>2. CASE Replay(r)
      BY <3>2 DEF Replay, Recorded, IdempotencyTypeOK
    <3>3. CASE ~ Replay(r) /\ ~ (reply'[r] = reply[r] /\ answer'[r] = answer[r])
      BY <3>3 DEF IdempotencyNext, RequestStep, Unkeyed, ReadMiss, Replay, Conflict, Acquire,
         InFlight, SkipLock, Enqueue, Save, Release, DatabaseError, ApiCrash,
         LockExpires, ResetKeys, RestartInMemory, idempotencyVars, Finish, IdempotencyTypeOK
    <3> QED
      BY <3>1, <3>2, <3>3
  <2> QED
    BY <2>2
<1>3. BaseInv /\ Inv => ReplaysAgree
  <2> SUFFICES ASSUME BaseInv, ReplayedIsStored, NEW r \in Requests, reply[r] = "replayed"
               PROVE  Recorded(r) = {answer[r]}
    BY DEF ReplaysAgree
  <2>1. answer[r] \in Recorded(r)
    BY DEF BaseInv, ReplayedIsStored, ReplayIsOfSameRequest, Recorded
  <2>2. \A s, t \in Recorded(r) : s = t
    BY DEF BaseInv, OneRecordPerKey, Recorded, SameKey
  <2> QED
    BY <2>1, <2>2
<1> QED
  BY <1>1, <1>2, <1>3, BaseInvariance, PTL DEF IdempotencySpec

-----------------------------------------------------------------------------
(* Unless the database loses writes, an accepted job has a record beside   *)
(* it: later requests stop at the read.                                    *)
RetryInv == SavesAreMade => SavedIsRecorded /\ LateIsStopped

(* A save leaves a record of the key, in either storage.                   *)
LEMMA SaveRecords ==
  ASSUME BaseInv, NEW r \in Requests, Save(r), Key[r] # NoKey
  PROVE  Recorded(r)' # {}
<1>1. CASE r \in stored'
  BY <1>1 DEF Recorded, SameKey
<1>2. CASE r \notin stored'
  BY <1>2, DeploymentsAssumption DEF Save, SaveIdempotency, Recorded, BaseInv, IdempotencyTypeOK, Storage
<1> QED
  BY <1>1, <1>2

(* A record of a key is never without a successor, but with all the jobs.  *)
LEMMA RecordsPersist ==
  ASSUME BaseInv, [IdempotencyNext]_idempotencyVars, jobs' # {},
         NEW q \in Requests, Recorded(q) # {}
  PROVE  Recorded(q)' # {}
<1>1. CASE stored \subseteq stored'
  BY <1>1 DEF Recorded
<1>2. CASE \E r \in Requests : Save(r) /\ SameKey(r, q)
  <2>1. PICK r \in Requests : Save(r) /\ SameKey(r, q)
    BY <1>2
  <2>2. Recorded(r)' # {}
    BY <2>1, SaveRecords DEF SameKey
  <2> QED
    BY <2>1, <2>2 DEF Recorded, SameKey
<1>3. CASE \E r \in Requests : Save(r) /\ ~ SameKey(r, q)
  BY <1>3 DEF Save, SaveIdempotency, Recorded, SameKey
<1>4. stored \subseteq stored' \/ \E r \in Requests : Save(r)
  BY DEF IdempotencyNext, RequestStep, Unkeyed, ReadMiss, Replay, Conflict, Acquire, InFlight,
     SkipLock, Enqueue, Release, DatabaseError, ApiCrash, LockExpires, ResetKeys,
     RestartInMemory, idempotencyVars
<1> QED
  BY <1>1, <1>2, <1>3, <1>4

(* Only a save brings a request to "saved", and only from there is it      *)
(* accepted.                                                               *)
LEMMA WhoIsSaved ==
  ASSUME BaseInv, [IdempotencyNext]_idempotencyVars, "database" \notin DeploymentFaults, NEW q \in Requests
  PROVE  /\ place'[q] = "saved" => place[q] = "saved" \/ Save(q)
         /\ reply'[q] = "accepted" => reply[q] = "accepted" \/ place[q] = "saved"
  BY DEF BaseInv, IdempotencyTypeOK, IdempotencyNext, RequestStep, Unkeyed, ReadMiss, Replay, Conflict,
     Acquire, InFlight, SkipLock, Enqueue, Save, Release, DatabaseError, ApiCrash,
     LockExpires, ResetKeys, RestartInMemory, idempotencyVars, Finish, Goto, Arrive

(* A request changes seen only on arrival, where it takes in those that    *)
(* have been accepted, and a request that is done stays done.              *)
LEMMA WhoHasSeen ==
  ASSUME BaseInv, [IdempotencyNext]_idempotencyVars, NEW q \in Requests
  PROVE  /\ seen'[q] = seen[q] \/ (place[q] = "new" /\ seen'[q] \subseteq Accepted)
         /\ place[q] = "done" => place'[q] = "done"
         /\ q \in jobs' => q \in jobs \/ place[q] = "cleared"
<1> DEFINE Read(r) == Unkeyed(r) \/ ReadMiss(r) \/ Replay(r) \/ Conflict(r)
           Work(r) == Acquire(r) \/ InFlight(r) \/ SkipLock(r) \/ Enqueue(r)
           Rest(r) == Save(r) \/ Release(r) \/ ApiCrash(r) \/ LockExpires(r)
<1> USE DEF BaseInv, IdempotencyTypeOK, Finish, Goto, Arrive
<1>1. ASSUME NEW r \in Requests, Read(r)
      PROVE  /\ seen'[q] = seen[q] \/ (place[q] = "new" /\ seen'[q] \subseteq Accepted)
             /\ place[q] = "done" => place'[q] = "done"
             /\ jobs' = jobs
  BY <1>1 DEF Unkeyed, ReadMiss, Replay, Conflict
<1>2. ASSUME NEW r \in Requests, Work(r) \/ Rest(r)
      PROVE  /\ seen' = seen
             /\ place[q] = "done" => place'[q] = "done"
             /\ q \in jobs' => q \in jobs \/ place[q] = "cleared"
  BY <1>2 DEF Acquire, InFlight, SkipLock, Enqueue, Save, Release, ApiCrash, LockExpires
<1>3. ASSUME NEW r \in Requests, DatabaseError(r)
      PROVE  /\ seen'[q] = seen[q] \/ (place[q] = "new" /\ seen'[q] \subseteq Accepted)
             /\ place[q] = "done" => place'[q] = "done"
             /\ jobs' = jobs
  BY <1>3 DEF DatabaseError
<1>4. CASE ResetKeys \/ RestartInMemory \/ UNCHANGED idempotencyVars
  BY <1>4 DEF ResetKeys, RestartInMemory, idempotencyVars
<1> QED
  BY <1>1, <1>2, <1>3, <1>4 DEF IdempotencyNext, RequestStep

(* Those a request found accepted are done, and stay so.                   *)
LEMMA SeenStep == BaseInv /\ SeenAreDone /\ [IdempotencyNext]_idempotencyVars => SeenAreDone'
<1> SUFFICES ASSUME BaseInv, SeenAreDone, [IdempotencyNext]_idempotencyVars,
                    NEW q \in Requests, NEW s \in seen'[q]
             PROVE  place'[s] = "done"
  BY DEF SeenAreDone
<1>1. s \in Requests /\ place[s] = "done"
  BY WhoHasSeen DEF SeenAreDone, Accepted, BaseInv, IdempotencyTypeOK, AnswersAreLate
<1> QED
  BY <1>1, WhoHasSeen

(* The job of a request that is done was there before.                     *)
LEMMA OldJob ==
  ASSUME BaseInv, [IdempotencyNext]_idempotencyVars, NEW s \in Requests,
         place[s] = "done", s \in jobs'
  PROVE  s \in jobs
  BY WhoHasSeen

(* A retry sent after the first try was accepted has no job beside it.     *)
THEOREM RetrySafety == IdempotencySpec => []RetryAddsNoSecondJob
<1> DEFINE Inv == SeenAreDone /\ RetryInv
<1>1. IdempotencyInit => Inv
  BY DEF IdempotencyInit, RetryInv, SavedIsRecorded, LateIsStopped, SeenAreDone
<1>2. BaseInv /\ SeenAreDone /\ RetryInv /\ [IdempotencyNext]_idempotencyVars => RetryInv'
  <2> SUFFICES ASSUME BaseInv, SeenAreDone, RetryInv, [IdempotencyNext]_idempotencyVars,
                      SavesAreMade
               PROVE  (SavedIsRecorded /\ LateIsStopped)'
    BY SameDeployment DEF RetryInv
  <2>0. "database" \notin DeploymentFaults
    BY DEF SavesAreMade
  <2>1. SavedIsRecorded'
    <3> SUFFICES ASSUME NEW q \in jobs', Key[q] # NoKey,
                        place'[q] = "saved" \/ reply'[q] = "accepted"
                 PROVE  Recorded(q)' # {}
      BY DEF SavedIsRecorded
    <3>0. q \in Requests /\ jobs' # {}
      BY NextBase DEF BaseInv, IdempotencyTypeOK
    <3>1. CASE Save(q)
      BY <3>0, <3>1, SaveRecords
    <3>2. CASE place[q] = "saved" \/ reply[q] = "accepted"
      <4>1. q \in jobs
        BY <3>0, <3>2, WhoHasSeen DEF BaseInv, AnswersAreLate
      <4>2. Recorded(q) # {}
        BY <3>2, <4>1 DEF RetryInv, SavedIsRecorded
      <4> QED
        BY <3>0, <4>2, RecordsPersist
    <3> QED
      BY <2>0, <3>0, <3>1, <3>2, WhoIsSaved
  <2>2. LateIsStopped'
    <3> SUFFICES ASSUME NEW q \in Requests, NEW s \in seen'[q], s \in jobs', SameKey(q, s)
                 PROVE  place'[q] = "done" /\ q \notin jobs'
      BY DEF LateIsStopped, SameKey
    <3>0. s \in Requests /\ place[s] = "done"
      BY WhoHasSeen DEF SeenAreDone, Accepted, BaseInv, IdempotencyTypeOK, AnswersAreLate
    <3>00. s \in jobs
      BY <3>0, OldJob
    <3>1. CASE s \in seen[q]
      <4>1. place[q] = "done" /\ q \notin jobs
        BY <3>1, <3>00 DEF RetryInv, LateIsStopped
      <4> QED
        BY <4>1, WhoHasSeen
    <3>2. CASE s \notin seen[q]
      <4>1. place[q] = "new" /\ seen'[q] # seen[q] /\ s \in Accepted
        BY <3>2, WhoHasSeen
      <4>2. Recorded(s) # {} /\ q \notin jobs
        BY <3>00, <4>1 DEF RetryInv, SavedIsRecorded, Accepted, SameKey, BaseInv, JobsAreLater
      <4>3. Recorded(q) # {} /\ Key[q] # NoKey
        BY <4>2 DEF Recorded, SameKey
      <4>4. Replay(q) \/ Conflict(q)
        BY <2>0, <4>1, <4>3 DEF BaseInv, IdempotencyTypeOK, IdempotencyNext, RequestStep, Unkeyed, ReadMiss,
           Replay, Conflict, Acquire, InFlight, SkipLock, Enqueue, Save, Release,
           DatabaseError, ApiCrash, LockExpires, ResetKeys, RestartInMemory, idempotencyVars, Arrive
      <4> QED
        BY <4>1, <4>2, <4>4 DEF Replay, Conflict, Finish, Goto, BaseInv, IdempotencyTypeOK
    <3> QED
      BY <3>1, <3>2
  <2> QED
    BY <2>1, <2>2
<1>3. RetryInv => RetryAddsNoSecondJob
  BY DEF RetryInv, LateIsStopped, RetryAddsNoSecondJob
<1> QED
  BY <1>1, <1>2, <1>3, SeenStep, BaseInvariance, PTL DEF IdempotencySpec

-----------------------------------------------------------------------------
(* While locks neither expire nor fail, one request per key is at work.    *)
LockInv == LocksHold => WorkerHasLock /\ OneLockPerKey

(* What the lock is for: between the acquisition and the release, other    *)
(* requests of the key are kept out.                                       *)
THEOREM MutualExclusionPerKey == IdempotencySpec => []OneAtWorkPerKey
<1>1. IdempotencyInit => LockInv
  BY DEF IdempotencyInit, LockInv, WorkerHasLock, OneLockPerKey, AtWork
<1>2. BaseInv /\ LockInv /\ [IdempotencyNext]_idempotencyVars => LockInv'
  <2> DEFINE NotShared == WorkerHasLock /\ OneLockPerKey
  <2> SUFFICES ASSUME BaseInv, NotShared, [IdempotencyNext]_idempotencyVars, LocksHold PROVE NotShared'
    BY SameDeployment DEF LockInv
  <2> USE DEF LocksHold, WorkerHasLock, OneLockPerKey, AtWork, SameKey, BaseInv, IdempotencyTypeOK
  <2>1. ASSUME NEW r \in Requests, Acquire(r) PROVE NotShared'
    BY <2>1 DEF Acquire, LockHeld, Goto
  <2>2. ASSUME NEW r \in Requests, Release(r) PROVE NotShared'
    BY <2>2 DEF Release, Finish, Goto
  <2>3. ASSUME NEW r \in Requests, Unkeyed(r) \/ ReadMiss(r) \/ Replay(r) \/ Conflict(r)
        PROVE  NotShared'
    BY <2>3 DEF Unkeyed, ReadMiss, Replay, Conflict, Finish, Goto
  <2>4. ASSUME NEW r \in Requests, InFlight(r) \/ Enqueue(r) \/ Save(r)
        PROVE  NotShared'
    BY <2>4 DEF InFlight, Enqueue, Save, Finish, Goto
  <2>5. ASSUME NEW r \in Requests, DatabaseError(r) \/ ApiCrash(r)
        PROVE  NotShared'
    BY <2>5 DEF DatabaseError, ApiCrash, Finish, Goto
  <2>6. CASE ResetKeys \/ RestartInMemory \/ UNCHANGED idempotencyVars
    BY <2>6 DEF ResetKeys, RestartInMemory, idempotencyVars
  <2> QED
    BY <2>1, <2>2, <2>3, <2>4, <2>5, <2>6
    DEF IdempotencyNext, RequestStep, SkipLock, LockExpires
<1>3. LockInv => OneAtWorkPerKey
  BY DEF LockInv, WorkerHasLock, OneLockPerKey, OneAtWorkPerKey
<1> QED
  BY <1>1, <1>2, <1>3, BaseInvariance, PTL DEF IdempotencySpec
=============================================================================
