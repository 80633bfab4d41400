------------------------------ MODULE JobQueue ------------------------------
(***************************************************************************)
(* The background queue kept in the Postgres table sync_jobs: API handlers *)
(* insert rows, worker processes claim and run them, operators cancel and  *)
(* retry them, and a demo reset deletes them.                              *)
(*                                                                         *)
(* A job is a number; created_at grows with it.  One database statement or *)
(* transaction is one action, except the claim: its SELECT ... FOR UPDATE  *)
(* SKIP LOCKED takes the row's lock in one step and its UPDATE and COMMIT  *)
(* are the next, so that what the lock is for can be seen.  Calls between  *)
(* two database calls of the same handler can interleave with anything.    *)
(***************************************************************************)
EXTENDS Naturals, FiniteSets

CONSTANTS
  Jobs,         \* ids of the rows that may be inserted, in created_at order
  Workers,      \* worker processes
  Operators,    \* API requests of owners and admins that may be in flight
  MaxAttempts,  \* the max_attempts column, 3 in EnqueueJob
  Faults        \* which faults may happen: "crash", "lostWrite"

NoJob == 0

ASSUME JobsAssumption == Jobs \subseteq Nat \ {NoJob}
ASSUME MaxAttemptsAssumption == MaxAttempts \in Nat \ {0}
ASSUME FaultsAssumption == Faults \subseteq {"crash", "lostWrite"}

(* "absent" is a row not inserted yet, "deleted" one that a reset removed. *)
JobStatus == {"queued", "running", "completed", "failed", "dead",
              "cancelled", "cancel_requested"}
RowState == JobStatus \cup {"absent", "deleted"}

VARIABLES
  status,       \* sync_jobs.status
  attempts,     \* sync_jobs.attempts
  due,          \* run_after <= now()
  pc,           \* where each worker is in claimAndRunJob
  held,         \* the job a worker has in hand
  attempt,      \* job.Attempts in that worker's copy of the row
  cancelling,   \* a CancelJob call between its read and its write
  outbox,       \* job.completed and job.failed rows of outbox_events
  touched       \* history: the jobs a CancelJob write has ever landed on

rowVars == <<status, attempts, due>>
workerVars == <<pc, held, attempt>>
vars == <<rowVars, workerVars, cancelling, outbox, touched>>

NoCancel == [job |-> NoJob, read |-> "absent"]

TypeOK ==
  /\ status \in [Jobs -> RowState]
  /\ attempts \in [Jobs -> Nat]
  /\ due \in [Jobs -> BOOLEAN]
  /\ pc \in [Workers -> {"idle", "claiming", "running", "completed", "failed"}]
  /\ held \in [Workers -> Jobs \cup {NoJob}]
  /\ attempt \in [Workers -> Nat]
  /\ cancelling \in [Operators -> [job : Jobs \cup {NoJob}, read : RowState]]
  /\ outbox \subseteq Jobs \X {"job.completed", "job.failed"}
  /\ touched \subseteq Jobs

Init ==
  /\ status = [j \in Jobs |-> "absent"]
  /\ attempts = [j \in Jobs |-> 0]
  /\ due = [j \in Jobs |-> FALSE]
  /\ pc = [w \in Workers |-> "idle"]
  /\ held = [w \in Workers |-> NoJob]
  /\ attempt = [w \in Workers |-> 0]
  /\ cancelling = [o \in Operators |-> NoCancel]
  /\ outbox = {}
  /\ touched = {}

-----------------------------------------------------------------------------
(* The table.                                                              *)

Exists(j) == status[j] \in JobStatus

NeverLocked(j) == FALSE   \* mutant: the claim selects without FOR UPDATE

(* Between its SELECT and its COMMIT a claim holds the row's lock.         *)
Locked(j) == \E w \in Workers : pc[w] = "claiming" /\ held[w] = j

(* Mutants: the claim forgets the limit, or takes only queued rows.        *)
ClaimableWithoutLimit(j) == status[j] \in {"queued", "failed"} /\ due[j]
ClaimableQueuedOnly(j) ==
  status[j] = "queued" /\ due[j] /\ attempts[j] < MaxAttempts

Claimable(j) ==
  /\ status[j] \in {"queued", "failed"}
  /\ due[j]
  /\ attempts[j] < MaxAttempts

(* UPDATE ... SET status WHERE id: waits for the lock and, on a row that   *)
(* is gone, changes nothing.                                               *)
SetStatus(j, s) ==
  /\ ~ Locked(j)
  /\ status' = IF Exists(j) THEN [status EXCEPT ![j] = s] ELSE status

-----------------------------------------------------------------------------
(* The API: EnqueueJob.                                                    *)

EnqueueJob(j) ==
  /\ status[j] = "absent"
  /\ \A k \in Jobs : k < j => status[k] # "absent"
  /\ status' = [status EXCEPT ![j] = "queued"]
  /\ due' = [due EXCEPT ![j] = TRUE]
  /\ UNCHANGED <<attempts, workerVars, cancelling, outbox, touched>>

-----------------------------------------------------------------------------
(* The worker: claimAndRunJob.                                             *)

(* SELECT ... ORDER BY created_at FOR UPDATE SKIP LOCKED LIMIT 1: the      *)
(* oldest claimable row that no other claim has locked.                    *)
ClaimSelect(w, j) ==
  /\ pc[w] = "idle"
  /\ Claimable(j) /\ ~ Locked(j)
  /\ \A k \in Jobs : Claimable(k) /\ ~ Locked(k) => j <= k
  /\ pc' = [pc EXCEPT ![w] = "claiming"]
  /\ held' = [held EXCEPT ![w] = j]
  /\ attempt' = [attempt EXCEPT ![w] = attempts[j]]
  /\ UNCHANGED <<rowVars, cancelling, outbox, touched>>

(* UPDATE ... SET status = 'running', attempts = attempts + 1; COMMIT.     *)
ClaimCommit(w) ==
  /\ pc[w] = "claiming"
  /\ status' = [status EXCEPT ![held[w]] = "running"]
  /\ attempts' = [attempts EXCEPT ![held[w]] = @ + 1]
  /\ attempt' = [attempt EXCEPT ![w] = @ + 1]
  /\ pc' = [pc EXCEPT ![w] = "running"]
  /\ UNCHANGED <<due, held, cancelling, outbox, touched>>

(* runJob returned nil; CompleteJob writes whatever the row's status is.   *)
CompleteJob(w) ==
  /\ pc[w] = "running"
  /\ SetStatus(held[w], "completed")
  /\ pc' = [pc EXCEPT ![w] = "completed"]
  /\ UNCHANGED <<attempts, due, held, attempt, cancelling, outbox, touched>>

(* Mutant: dead one attempt early.                                         *)
FailedStatusEarly(w) == IF attempt[w] + 1 >= MaxAttempts THEN "dead" ELSE "failed"

(* runJob returned an error; FailJob decides on the worker's own copy of   *)
(* attempts, and the next try waits for run_after.                         *)
FailedStatus(w) == IF attempt[w] >= MaxAttempts THEN "dead" ELSE "failed"

FailJob(w) ==
  /\ pc[w] = "running"
  /\ SetStatus(held[w], FailedStatus(w))
  /\ due' = IF Exists(held[w]) THEN [due EXCEPT ![held[w]] = FALSE] ELSE due
  /\ pc' = [pc EXCEPT ![w] = "failed"]
  /\ UNCHANGED <<attempts, held, attempt, cancelling, outbox, touched>>

BackToIdle(w) ==
  /\ pc' = [pc EXCEPT ![w] = "idle"]
  /\ held' = [held EXCEPT ![w] = NoJob]
  /\ attempt' = [attempt EXCEPT ![w] = 0]

(* The audit row and the outbox row that follow the write.                 *)
Report(w) ==
  /\ \/ pc[w] = "completed" /\ outbox' = outbox \cup {<<held[w], "job.completed">>}
     \/ pc[w] = "failed" /\ outbox' = outbox \cup {<<held[w], "job.failed">>}
  /\ BackToIdle(w)
  /\ UNCHANGED <<rowVars, cancelling, touched>>

(* A worker process dies or is stopped, and starts again with no job: an   *)
(* open claim rolls back, a claimed row stays as it is.                    *)
Crash(w) ==
  /\ "crash" \in Faults
  /\ pc[w] # "idle"
  /\ BackToIdle(w)
  /\ UNCHANGED <<rowVars, cancelling, outbox, touched>>

(* The database refuses a write.  The error of CompleteJob is returned,    *)
(* those of FailJob and of the report are ignored.                         *)
LostWrite(w) ==
  /\ "lostWrite" \in Faults
  /\ \/ pc[w] # "idle" /\ BackToIdle(w)
     \/ /\ pc[w] = "running"
        /\ pc' = [pc EXCEPT ![w] = "failed"]
        /\ UNCHANGED <<held, attempt>>
  /\ UNCHANGED <<rowVars, cancelling, outbox, touched>>

(* run_after, 30 seconds after the failure, is reached.                    *)
BackoffElapses(j) ==
  /\ Exists(j) /\ ~ due[j]
  /\ due' = [due EXCEPT ![j] = TRUE]
  /\ UNCHANGED <<status, attempts, workerVars, cancelling, outbox, touched>>

-----------------------------------------------------------------------------
(* Owners and admins: operateJob and the demo reset.                       *)

(* CancelJob reads the row; a completed one is refused with a conflict.    *)
CancelRead(o, j) ==
  /\ cancelling[o] = NoCancel
  /\ Exists(j) /\ status[j] # "completed"
  /\ cancelling' = [cancelling EXCEPT ![o] = [job |-> j, read |-> status[j]]]
  /\ UNCHANGED <<rowVars, workerVars, outbox, touched>>

CancelTarget(s) == IF s = "running" THEN "cancel_requested" ELSE "cancelled"

(* ... and then writes what the status it read calls for.                  *)
CancelWrite(o) ==
  /\ cancelling[o] # NoCancel
  /\ SetStatus(cancelling[o].job, CancelTarget(cancelling[o].read))
  /\ touched' = touched \cup {cancelling[o].job}
  /\ cancelling' = [cancelling EXCEPT ![o] = NoCancel]
  /\ UNCHANGED <<attempts, due, workerVars, outbox>>

(* Mutant: retry does not look at the status.                              *)
RetryJobAny(o, j) ==
  /\ cancelling[o] = NoCancel
  /\ Exists(j)
  /\ SetStatus(j, "queued")
  /\ due' = [due EXCEPT ![j] = TRUE]
  /\ UNCHANGED <<attempts, workerVars, cancelling, outbox, touched>>

(* RetryJob puts the row back in the queue; attempts stays what it was.    *)
RetryJob(o, j) ==
  /\ cancelling[o] = NoCancel
  /\ status[j] \in {"failed", "dead", "cancelled"}
  /\ SetStatus(j, "queued")
  /\ due' = [due EXCEPT ![j] = TRUE]
  /\ UNCHANGED <<attempts, workerVars, cancelling, outbox, touched>>

(* ResetDemo deletes every row of the organization.                        *)
ResetDemo(o) ==
  /\ cancelling[o] = NoCancel
  /\ \E j \in Jobs : Exists(j)
  /\ \A j \in Jobs : ~ Locked(j)
  /\ status' = [j \in Jobs |-> IF Exists(j) THEN "deleted" ELSE status[j]]
  /\ UNCHANGED <<attempts, due, workerVars, cancelling, outbox, touched>>

-----------------------------------------------------------------------------
WorkerStep(w) ==
  \/ \E j \in Jobs : ClaimSelect(w, j)
  \/ ClaimCommit(w)
  \/ CompleteJob(w)
  \/ FailJob(w)
  \/ Report(w)

OperatorStep(o) ==
  \/ \E j \in Jobs : CancelRead(o, j) \/ RetryJob(o, j)
  \/ CancelWrite(o)
  \/ ResetDemo(o)

Next ==
  \/ \E j \in Jobs : EnqueueJob(j) \/ BackoffElapses(j)
  \/ \E w \in Workers : WorkerStep(w) \/ Crash(w) \/ LostWrite(w)
  \/ \E o \in Operators : OperatorStep(o)

Spec == Init /\ [][Next]_vars

(* The worker loop polls for ever and time passes; nobody has to enqueue,  *)
(* operate or crash.  A cancel whose read was done is carried through.     *)
Fairness ==
  /\ \A w \in Workers : WF_vars(WorkerStep(w))
  /\ \A j \in Jobs : WF_vars(BackoffElapses(j))
  /\ \A o \in Operators : WF_vars(CancelWrite(o))

FairSpec == Spec /\ Fairness

-----------------------------------------------------------------------------
(* Properties.                                                             *)

(* A worker has job j in hand while it claims or runs it.                  *)
Holds(w, j) == pc[w] \in {"claiming", "running"} /\ held[w] = j

(* FOR UPDATE SKIP LOCKED: while no cancel has touched a job, at most one  *)
(* worker claims or runs it, through failures, retries, crashes and resets.*)
SingleRunner ==
  \A j \in Jobs \ touched : \A w1, w2 \in Workers :
    Holds(w1, j) /\ Holds(w2, j) => w1 = w2

(* Even a job that was cancelled, retried and claimed again never has two  *)
(* workers on the same attempt: ClaimJob numbers each claim anew.          *)
UniqueAttempt ==
  \A w1, w2 \in Workers :
    (/\ pc[w1] = "running" /\ pc[w2] = "running"
     /\ held[w1] = held[w2] /\ attempt[w1] = attempt[w2]) => w1 = w2

(* The claim's attempts < max_attempts bounds the executions of a job, two *)
(* claims at the limit included.                                           *)
AttemptsBounded == \A j \in Jobs : attempts[j] <= MaxAttempts

(* FailJob decides "dead" on the worker's copy of attempts; the row agrees:*)
(* a job is dead only when its attempts are used up.                       *)
DeadIsExhausted == \A j \in Jobs : status[j] = "dead" => attempts[j] = MaxAttempts

(* A failed job that no cancel has touched still has an attempt left, so   *)
(* that "failed" always means that the queue will try again.               *)
FailedHasRetry ==
  \A j \in Jobs \ touched : status[j] = "failed" => attempts[j] < MaxAttempts

(* What FailJob decides on the worker's copy is right for the row, although*)
(* operators, crashes and other claims may have been at it since the claim.*)
RetryDecided == DeadIsExhausted /\ FailedHasRetry

(* Once job.completed is in the outbox the job is over: its row stays      *)
(* completed (or is reset away) and no worker takes it up again, unless a  *)
(* cancel touched it.                                                      *)
AnnouncedIsSettled ==
  \A j \in Jobs \ touched : <<j, "job.completed">> \in outbox =>
    /\ status[j] \in {"completed", "deleted"}
    /\ \A w \in Workers : ~ Holds(w, j)

(* The executions of the queue are those the ledger allows.                *)
LiveAttempts ==
  {<<w, held[w], attempt[w]>> : w \in {v \in Workers : pc[v] = "running"}}

Ledger == INSTANCE JobLedger WITH started <- attempts, live <- LiveAttempts

RefinesLedger == Ledger!Spec

(* With workers that neither crash nor lose writes and no operator, every  *)
(* job with an attempt left is completed or dead in the end, failures and  *)
(* backoffs included.                                                      *)
EveryJobSettles ==
  \A j \in Jobs :
    (status[j] \in {"queued", "failed"} /\ attempts[j] < MaxAttempts)
      ~> status[j] \in {"completed", "dead"}

-----------------------------------------------------------------------------
(* The inductive invariant behind the safety properties.                   *)

(* A worker that is not idle has one of the jobs in hand.                  *)
BusyHoldsJob == \A w \in Workers : pc[w] # "idle" => held[w] \in Jobs

(* The lock freezes the row between SELECT and COMMIT: it is as selected.  *)
ClaimIsFresh ==
  \A w \in Workers : pc[w] = "claiming" =>
    /\ status[held[w]] \in {"queued", "failed"}
    /\ attempts[held[w]] < MaxAttempts
    /\ attempt[w] = attempts[held[w]]

(* One claim at a time has a row's lock.                                   *)
LockExclusive ==
  \A w1, w2 \in Workers :
    pc[w1] = "claiming" /\ pc[w2] = "claiming" /\ held[w1] = held[w2] => w1 = w2

(* A worker's copy of attempts never runs ahead of the row.                *)
CopyNotAhead ==
  \A w \in Workers : pc[w] = "running" => attempt[w] <= attempts[held[w]]

(* While no cancel touches it, the row of a job that is being run is       *)
(* "running" (or deleted) and counts the attempt the worker has in hand.   *)
RunnerOwnsRow ==
  \A w \in Workers : pc[w] = "running" /\ held[w] \notin touched =>
    /\ status[held[w]] \in {"running", "deleted"}
    /\ attempt[w] = attempts[held[w]]

(* From the write of "completed" to the report the same holds as after it. *)
CompletedIsSettled ==
  \A w \in Workers : pc[w] = "completed" /\ held[w] \notin touched =>
    /\ status[held[w]] \in {"completed", "deleted"}
    /\ \A v \in Workers : ~ Holds(v, held[w])

(* A cancel in flight names a job.                                         *)
PendingCancelHasJob ==
  \A o \in Operators : cancelling[o] # NoCancel => cancelling[o].job \in Jobs

IInv ==
  /\ TypeOK
  /\ PendingCancelHasJob
  /\ BusyHoldsJob
  /\ ClaimIsFresh
  /\ LockExclusive
  /\ CopyNotAhead
  /\ RunnerOwnsRow
  /\ SingleRunner
  /\ UniqueAttempt
  /\ AttemptsBounded
  /\ DeadIsExhausted
  /\ FailedHasRetry
  /\ CompletedIsSettled
  /\ AnnouncedIsSettled
=============================================================================
