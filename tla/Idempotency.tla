---------------------------- MODULE Idempotency ----------------------------
(***************************************************************************)
(* Idempotency keys on the routes that write financial data: the record in *)
(* idempotency_keys that a retry replays, and the short-lived lock in      *)
(* Redis that should keep two first tries apart.                           *)
(*                                                                         *)
(* One element of Requests is one HTTP request of enqueueFinancialJob; a   *)
(* client's retry is another request with the same key and hash.  Without  *)
(* Locking the same steps are those of replayIdempotentResponse and        *)
(* writeIdempotentJSON, where the work is done in place of the enqueue.    *)
(* Each call to Postgres or Redis is one step.  A record, a lock entry and *)
(* a job are each named by the request that wrote them.                    *)
(***************************************************************************)
EXTENDS Naturals, FiniteSets

CONSTANTS
  Requests,
  Keys,         \* Idempotency-Key values, in the scope of one user and org
  Key,          \* Key[r]: the key of a request
  Hash,         \* Hash[r]: its requestBodyHash
  Deployments   \* the storages and faults considered, with Redis or without

NoKey == "none"

ASSUME KeyAssumption == Key \in [Requests -> Keys \cup {NoKey}] /\ NoKey \notin Keys
ASSUME DeploymentsAssumption ==
  Deployments \subseteq
    [locking: BOOLEAN, storage: {"postgres", "memory"},
     faults: SUBSET {"crash", "database", "redis", "expiry", "reset"}]

VARIABLES
  deployment,
  stored,   \* the requests whose response is in idempotency_keys
  locks,    \* the requests whose lock entry is in Redis
  place,    \* where each request is
  reply,    \* how it was answered
  answer,   \* the job its answer names
  jobs,     \* the requests that inserted a job
  seen      \* history: the requests already accepted when this one came

idempotencyVars == <<deployment, stored, locks, place, reply, answer, jobs, seen>>

Locking == deployment.locking   \* REDIS_ENABLED
Storage == deployment.storage   \* DATABASE_URL is set and reachable, or not
DeploymentFaults == deployment.faults

IdempotencyTypeOK ==
  /\ deployment \in Deployments
  /\ stored \subseteq Requests
  /\ locks \subseteq Requests
  /\ place \in [Requests -> {"new", "unrecorded", "cleared", "queued", "saved", "done"}]
  /\ reply \in [Requests -> {"none", "accepted", "replayed", "conflict",
                             "inFlight", "error"}]
  /\ answer \in [Requests -> Requests]
  /\ jobs \subseteq Requests
  /\ seen \in [Requests -> SUBSET Requests]

IdempotencyInit ==
  /\ deployment \in Deployments
  /\ stored = {}
  /\ locks = {}
  /\ place = [r \in Requests |-> "new"]
  /\ reply = [r \in Requests |-> "none"]
  /\ answer = [r \in Requests |-> r]
  /\ jobs = {}
  /\ seen = [r \in Requests |-> {}]

-----------------------------------------------------------------------------
Accepted == {s \in Requests : reply[s] = "accepted"}

SameKey(r, s) == Key[r] # NoKey /\ Key[r] = Key[s]

Recorded(r) == {s \in stored : SameKey(r, s)}

Goto(r, label) == place' = [place EXCEPT ![r] = label]

Finish(r, kind) ==
  /\ Goto(r, "done")
  /\ reply' = [reply EXCEPT ![r] = kind]

Arrive(r) ==
  /\ place[r] = "new"
  /\ seen' = [seen EXCEPT ![r] = Accepted]

(* A request without a key is neither replayed nor locked.                 *)
Unkeyed(r) ==
  /\ Arrive(r)
  /\ Key[r] = NoKey
  /\ Goto(r, "cleared")
  /\ UNCHANGED <<deployment, stored, locks, reply, answer, jobs>>

(* ReadIdempotency finds no record of the key.                             *)
ReadMiss(r) ==
  /\ Arrive(r)
  /\ Key[r] # NoKey /\ Recorded(r) = {}
  /\ Goto(r, "unrecorded")
  /\ UNCHANGED <<deployment, stored, locks, reply, answer, jobs>>

(* A record with the same hash: its response is the answer.                *)
Replay(r) ==
  /\ Arrive(r)
  /\ \E s \in Recorded(r) :
       Hash[s] = Hash[r] /\ answer' = [answer EXCEPT ![r] = s]
  /\ Finish(r, "replayed")
  /\ UNCHANGED <<deployment, stored, locks, jobs>>

(* A record with another hash: 409.                                        *)
Conflict(r) ==
  /\ Arrive(r)
  /\ \E s \in Recorded(r) : Hash[s] # Hash[r]
  /\ Finish(r, "conflict")
  /\ UNCHANGED <<deployment, stored, locks, answer, jobs>>

LockHeld(r) == \E s \in locks : SameKey(r, s)

(* Mutant: SET without NX.                                                 *)
AcquireAlways(r) ==
  /\ place[r] = "unrecorded" /\ Locking
  /\ locks' = locks \cup {r}
  /\ Goto(r, "cleared")
  /\ UNCHANGED <<deployment, stored, reply, answer, jobs, seen>>

(* SET NX with one minute to live.                                         *)
Acquire(r) ==
  /\ place[r] = "unrecorded" /\ Locking
  /\ ~ LockHeld(r)
  /\ locks' = locks \cup {r}
  /\ Goto(r, "cleared")
  /\ UNCHANGED <<deployment, stored, reply, answer, jobs, seen>>

(* Somebody has the lock: 409, "already in flight".                        *)
InFlight(r) ==
  /\ place[r] = "unrecorded" /\ Locking
  /\ LockHeld(r)
  /\ Finish(r, "inFlight")
  /\ UNCHANGED <<deployment, stored, locks, answer, jobs, seen>>

(* No Redis, or Redis fails: the request goes on without a lock.           *)
SkipLock(r) ==
  /\ place[r] = "unrecorded"
  /\ ~ Locking \/ "redis" \in DeploymentFaults
  /\ Goto(r, "cleared")
  /\ UNCHANGED <<deployment, stored, locks, reply, answer, jobs, seen>>

Enqueue(r) ==
  /\ place[r] = "cleared"
  /\ jobs' = jobs \cup {r}
  /\ Goto(r, "queued")
  /\ UNCHANGED <<deployment, stored, locks, reply, answer, seen>>

(* Mutants: the record is replaced, or not inserted.                       *)
SaveOverwrites(r) == stored' = {s \in stored : ~ SameKey(r, s)} \cup {r}
SaveForgets(r) == stored' = stored

(* INSERT ... ON CONFLICT DO NOTHING in Postgres, map assignment in memory.*)
SaveIdempotency(r) ==
  \/ Key[r] = NoKey /\ UNCHANGED stored
  \/ /\ Key[r] # NoKey /\ Storage = "postgres"
     /\ stored' = IF Recorded(r) = {} THEN stored \cup {r} ELSE stored
  \/ /\ Key[r] # NoKey /\ Storage = "memory"
     /\ stored' = {s \in stored : ~ SameKey(r, s)} \cup {r}

Save(r) ==
  /\ place[r] = "queued"
  /\ SaveIdempotency(r)
  /\ Goto(r, "saved")
  /\ UNCHANGED <<deployment, locks, reply, answer, jobs, seen>>

(* Release deletes the key's lock, whoever holds it; an error is ignored,  *)
(* and an unkeyed request never gets that far.  Then the 202 is written.   *)
Release(r) ==
  /\ place[r] = "saved"
  /\ \/ locks' = {s \in locks : ~ SameKey(r, s)}
     \/ "redis" \in DeploymentFaults /\ UNCHANGED locks
  /\ Finish(r, "accepted")
  /\ UNCHANGED <<deployment, stored, answer, jobs, seen>>

-----------------------------------------------------------------------------
(* Faults.                                                                 *)

(* The database refuses: reading or enqueueing ends in a 500, with the     *)
(* lock left behind; the error of the save is ignored.                     *)
DatabaseError(r) ==
  /\ "database" \in DeploymentFaults
  /\ \/ Arrive(r) /\ Key[r] # NoKey /\ Finish(r, "error")
     \/ place[r] = "cleared" /\ Finish(r, "error") /\ UNCHANGED seen
     \/ place[r] = "queued" /\ Goto(r, "saved") /\ UNCHANGED <<reply, seen>>
  /\ UNCHANGED <<deployment, stored, locks, answer, jobs>>

(* Over Postgres an API process stops in the middle of a request: what was *)
(* written stays, and so does the lock.                                    *)
ApiCrash(r) ==
  /\ "crash" \in DeploymentFaults /\ Storage = "postgres"
  /\ place[r] \notin {"new", "done"}
  /\ Goto(r, "done")
  /\ UNCHANGED <<deployment, stored, locks, reply, answer, jobs, seen>>

(* In memory the stop ends every request at work, and the records and jobs *)
(* are gone with the process; Redis keeps its locks, a lock store in the   *)
(* process none.                                                           *)
RestartInMemory ==
  /\ "crash" \in DeploymentFaults /\ Storage = "memory"
  /\ place' = [r \in Requests |-> IF place[r] = "new" THEN "new" ELSE "done"]
  /\ stored' = {} /\ jobs' = {}
  /\ locks' \in {locks, {}}
  /\ UNCHANGED <<deployment, reply, answer, seen>>

LockExpires(s) ==
  /\ "expiry" \in DeploymentFaults
  /\ s \in locks
  /\ locks' = locks \ {s}
  /\ UNCHANGED <<deployment, stored, place, reply, answer, jobs, seen>>

(* The demo reset deletes the organization's keys and jobs.                *)
ResetKeys ==
  /\ "reset" \in DeploymentFaults
  /\ stored # {} \/ jobs # {}
  /\ stored' = {} /\ jobs' = {}
  /\ UNCHANGED <<deployment, locks, place, reply, answer, seen>>

-----------------------------------------------------------------------------
RequestStep(r) ==
  \/ Unkeyed(r) \/ ReadMiss(r) \/ Replay(r) \/ Conflict(r)
  \/ Acquire(r) \/ InFlight(r) \/ SkipLock(r)
  \/ Enqueue(r) \/ Save(r) \/ Release(r)

IdempotencyNext ==
  \/ \E r \in Requests :
       RequestStep(r) \/ DatabaseError(r) \/ ApiCrash(r) \/ LockExpires(r)
  \/ ResetKeys \/ RestartInMemory

IdempotencySpec == IdempotencyInit /\ [][IdempotencyNext]_idempotencyVars

-----------------------------------------------------------------------------
(* Properties.                                                             *)

(* A key has one record, whatever requests raced to save theirs.           *)
OneRecordPerKey == \A r, s \in stored : SameKey(r, s) => r = s

(* A replayed answer was produced for the same key and the same body: no   *)
(* request is ever answered with the outcome of a different one.           *)
ReplayIsOfSameRequest ==
  \A r \in Requests : reply[r] = "replayed" =>
    SameKey(r, answer[r]) /\ Hash[answer[r]] = Hash[r]

FirstStays == Storage = "postgres" /\ "reset" \notin DeploymentFaults

(* What one replay was told is what any later one is told: the record of   *)
(* the key stays, even when first tries raced and inserted several jobs    *)
(* (until a reset; in Postgres).                                           *)
ReplaysAgree == FirstStays =>
  \A r \in Requests : reply[r] = "replayed" => Recorded(r) = {answer[r]}

SavesAreMade == "database" \notin DeploymentFaults

(* Of the requests of a key, one that came after another was accepted has  *)
(* no job beside the other's: a retry is replayed or refused, or, after a  *)
(* reset or a restart in memory, the first job is gone with its record.    *)
(* Only a save whose error was dropped leaves a job without a record.      *)
RetryAddsNoSecondJob == SavesAreMade =>
  \A r \in Requests : \A s \in seen[r] :
    SameKey(r, s) => ~ (r \in jobs /\ s \in jobs)

AtWork(r) == Key[r] # NoKey /\ place[r] \in {"cleared", "queued", "saved"}

LocksHold == Locking /\ DeploymentFaults \cap {"redis", "expiry"} = {}

(* While locks neither expire nor fail, one request per key is at work.    *)
OneAtWorkPerKey == LocksHold =>
  \A r, s \in Requests : AtWork(r) /\ AtWork(s) /\ SameKey(r, s) => r = s

-----------------------------------------------------------------------------
(* The inductive invariants.                                               *)

(* Only keyed requests are recorded or locked; a job is inserted by a      *)
(* request that has passed the read.                                       *)
KeyedOnly ==
  \A r \in Requests :
    r \in stored \/ r \in locks \/ place[r] = "unrecorded" => Key[r] # NoKey

JobsAreLater == \A r \in jobs : place[r] \in {"queued", "saved", "done"}

AnswersAreLate == \A r \in Requests : reply[r] # "none" => place[r] = "done"

BaseInv ==
  /\ IdempotencyTypeOK
  /\ KeyedOnly
  /\ JobsAreLater
  /\ AnswersAreLate
  /\ OneRecordPerKey
  /\ ReplayIsOfSameRequest

(* What was replayed is still the key's record.                            *)
ReplayedIsStored ==
  \A r \in Requests : reply[r] = "replayed" => answer[r] \in stored

(* A job whose record was to be written has it beside it.                  *)
SavedIsRecorded ==
  \A r \in jobs :
    Key[r] # NoKey /\ (place[r] = "saved" \/ reply[r] = "accepted") => Recorded(r) # {}

SeenAreDone == \A r \in Requests : \A s \in seen[r] : place[s] = "done"

(* A request that found an accepted one before it never passes the read,   *)
(* as long as the other's job is there.                                    *)
LateIsStopped ==
  \A r \in Requests : \A s \in seen[r] \cap jobs : SameKey(r, s) =>
    place[r] = "done" /\ r \notin jobs

(* A request at work under a key has the key's lock, of which there is one.*)
WorkerHasLock == \A r \in Requests : AtWork(r) => r \in locks

OneLockPerKey == \A r, s \in locks : SameKey(r, s) => r = s
=============================================================================
