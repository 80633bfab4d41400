------------------------------ MODULE Webhooks ------------------------------
(***************************************************************************)
(* Webhooks of Plaid and of the payment processors.  A provider delivers   *)
(* an event until it gets a 2xx answer, and may deliver it several times   *)
(* at once: one element of Deliveries is one HTTP request, and its event   *)
(* is what its dedupe key names.  handlePlaidWebhook and                   *)
(* handleProcessorWebhook take the same steps: find the organization, save *)
(* the event unless its key is there, tell the outbox, queue a sync.       *)
(* Each call to the store is one step.  A saved event, an outbox row and a *)
(* job are named by the delivery that wrote them.                          *)
(***************************************************************************)
EXTENDS Naturals, FiniteSets

CONSTANTS
  Deliveries,
  Events,       \* dedupe keys
  Event,        \* Event[d]: the event a delivery carries
  PlaidEvents,  \* those of handlePlaidWebhook
  SyncEvents,   \* plaidShouldQueueSync, ShouldSync of the processor's result
  Orgs,
  OrgParam,     \* OrgParam[d]: organizationId in the URL of a processor's hook
  Item,         \* Item[e]: the Plaid item an event is about
  Items,
  Deployments   \* the storages, modes and faults considered

NoOrg == "none"

ASSUME EventAssumption ==
  /\ Event \in [Deliveries -> Events]
  /\ PlaidEvents \subseteq Events /\ SyncEvents \subseteq Events
  /\ Item \in [PlaidEvents -> Items]
ASSUME OrgAssumption == OrgParam \in [Deliveries -> Orgs \cup {NoOrg}] /\ NoOrg \notin Orgs
ASSUME DeploymentsAssumption ==
  Deployments \subseteq [storage: {"postgres", "memory"}, production: BOOLEAN,
                         faults: SUBSET {"database", "crash"}]

(* main ends when Postgres is missing in production.                       *)
ASSUME ProductionAssumption ==
  \A dep \in Deployments : dep.production => dep.storage = "postgres"

VARIABLES
  deployment,
  linked,    \* the rows of plaid_items: pairs of an item and its organization
  saved,     \* the deliveries that inserted their event
  outbox,    \* the deliveries that told the outbox of the receipt
  jobs,      \* the deliveries that inserted a sync job
  org,       \* the organization a delivery found
  pc,
  reply      \* "accepted" and "deduped" are both a 202

vars == <<deployment, linked, saved, outbox, jobs, org, pc, reply>>

Storage == deployment.storage         \* DATABASE_URL is set and reachable, or not
Production == deployment.production   \* APP_ENV
Faults == deployment.faults

TypeOK ==
  /\ deployment \in Deployments
  /\ linked \subseteq Items \X Orgs
  /\ saved \subseteq Deliveries
  /\ outbox \subseteq Deliveries
  /\ jobs \subseteq Deliveries
  /\ org \in [Deliveries -> Orgs \cup {NoOrg}]
  /\ pc \in [Deliveries -> {"new", "found", "created", "told", "queued", "done"}]
  /\ reply \in [Deliveries -> {"none", "accepted", "deduped", "refused", "error"}]

Init ==
  /\ deployment \in Deployments
  /\ linked = {}
  /\ saved = {}
  /\ outbox = {}
  /\ jobs = {}
  /\ org = [d \in Deliveries |-> NoOrg]
  /\ pc = [d \in Deliveries |-> "new"]
  /\ reply = [d \in Deliveries |-> "none"]

-----------------------------------------------------------------------------
SameEvent(c, d) == Event[c] = Event[d]

Plaid(d) == Event[d] \in PlaidEvents

Goto(d, label) == pc' = [pc EXCEPT ![d] = label]

Finish(d, kind) ==
  /\ Goto(d, "done")
  /\ reply' = [reply EXCEPT ![d] = kind]

(* SavePlaidItem at the end of a public-token exchange.  In memory the     *)
(* item's organization is written nowhere.                                 *)
Link(i, o) ==
  /\ Storage = "postgres"
  /\ <<i, o>> \notin linked
  /\ linked' = linked \cup {<<i, o>>}
  /\ UNCHANGED <<deployment, saved, outbox, jobs, org, pc, reply>>

(* A body that is too long or malformed, or a signature that is wrong or   *)
(* no longer fresh.                                                        *)
Refuse(d) ==
  /\ pc[d] = "new"
  /\ Finish(d, "refused")
  /\ UNCHANGED <<deployment, linked, saved, outbox, jobs, org>>

(* organizationForPlaidItem: any organization with the item, or none, also *)
(* when the database fails.                                                *)
FindOrgOfItem(d) ==
  LET found == {o \in Orgs : <<Item[Event[d]], o>> \in linked}
  IN \/ \E o \in found : org' = [org EXCEPT ![d] = o]
     \/ /\ found = {} \/ "database" \in Faults
        /\ UNCHANGED org

FindOrg(d) ==
  /\ pc[d] = "new"
  /\ \/ Plaid(d) /\ FindOrgOfItem(d)
     \/ /\ ~ Plaid(d)
        /\ Production => OrgParam[d] # NoOrg
        /\ org' = [org EXCEPT ![d] = OrgParam[d]]
  /\ Goto(d, "found")
  /\ UNCHANGED <<deployment, linked, saved, outbox, jobs, reply>>

Known(d) == \E c \in saved : SameEvent(c, d)

(* Mutants: the key is not unique; the event is not stored.                *)
SaveAny(d) ==
  /\ pc[d] = "found"
  /\ saved' = saved \cup {d}
  /\ Goto(d, "created")
  /\ UNCHANGED <<deployment, linked, outbox, jobs, org, reply>>

SaveNothing(d) ==
  /\ pc[d] = "found" /\ ~ Known(d)
  /\ Goto(d, "created")
  /\ UNCHANGED <<deployment, linked, saved, outbox, jobs, org, reply>>

(* INSERT ... ON CONFLICT (dedupe_key) DO NOTHING, and a map lookup and    *)
(* assignment under one lock: one row affected.                            *)
SaveNew(d) ==
  /\ pc[d] = "found" /\ ~ Known(d)
  /\ saved' = saved \cup {d}
  /\ Goto(d, "created")
  /\ UNCHANGED <<deployment, linked, outbox, jobs, org, reply>>

(* The key is there: 202 with "deduped".                                   *)
SaveKnown(d) ==
  /\ pc[d] = "found" /\ Known(d)
  /\ Finish(d, "deduped")
  /\ UNCHANGED <<deployment, linked, saved, outbox, jobs, org>>

(* The outbox is told of the receipt; its error is ignored.                *)
EmitReceived(d) ==
  /\ pc[d] = "created"
  /\ \/ outbox' = outbox \cup {d}
     \/ "database" \in Faults /\ UNCHANGED outbox
  /\ Goto(d, "told")
  /\ UNCHANGED <<deployment, linked, saved, jobs, org, reply>>

ShouldSync(d) == Event[d] \in SyncEvents /\ org[d] # NoOrg

(* Mutant: the sync that an event calls for is forgotten.                  *)
EnqueueNothing(d) ==
  /\ pc[d] = "told" /\ ShouldSync(d)
  /\ Goto(d, "queued")
  /\ UNCHANGED <<deployment, linked, saved, outbox, jobs, org, reply>>

(* enqueueJob is called with an empty user id.  The map takes it; Postgres *)
(* refuses '' for the UUID column, and the error is dropped.               *)
EnqueueJob(d) ==
  /\ pc[d] = "told" /\ ShouldSync(d)
  /\ jobs' = IF Storage = "memory" THEN jobs \cup {d} ELSE jobs
  /\ Goto(d, "queued")
  /\ UNCHANGED <<deployment, linked, saved, outbox, org, reply>>

SkipJob(d) ==
  /\ pc[d] = "told" /\ ~ ShouldSync(d)
  /\ Goto(d, "queued")
  /\ UNCHANGED <<deployment, linked, saved, outbox, jobs, org, reply>>

(* The 202.  The outbox would first be told of a queued Plaid job, but     *)
(* there is none: in Postgres the insert fails, in memory no organization  *)
(* is found.                                                               *)
Answer(d) ==
  /\ pc[d] = "queued"
  /\ Finish(d, "accepted")
  /\ UNCHANGED <<deployment, linked, saved, outbox, jobs, org>>

-----------------------------------------------------------------------------
(* Faults.                                                                 *)

(* The event cannot be saved: 500, and the provider delivers it again.     *)
SaveError(d) ==
  /\ "database" \in Faults
  /\ pc[d] = "found"
  /\ Finish(d, "error")
  /\ UNCHANGED <<deployment, linked, saved, outbox, jobs, org>>

(* The API process restarts: its requests end without an answer, and       *)
(* memory is gone.                                                         *)
Restart ==
  /\ "crash" \in Faults
  /\ \E d \in Deliveries : pc[d] \notin {"new", "done"}
  /\ pc' = [d \in Deliveries |-> IF pc[d] = "new" THEN "new" ELSE "done"]
  /\ IF Storage = "memory"
       THEN saved' = {} /\ outbox' = {} /\ jobs' = {}
       ELSE UNCHANGED <<saved, outbox, jobs>>
  /\ UNCHANGED <<deployment, linked, org, reply>>

-----------------------------------------------------------------------------
DeliveryStep(d) ==
  \/ FindOrg(d) \/ SaveNew(d) \/ SaveKnown(d)
  \/ EmitReceived(d) \/ EnqueueJob(d) \/ SkipJob(d) \/ Answer(d)

Next ==
  \/ \E i \in Items, o \in Orgs : Link(i, o)
  \/ \E d \in Deliveries : DeliveryStep(d) \/ Refuse(d) \/ SaveError(d)
  \/ Restart

Spec == Init /\ [][Next]_vars

(* A handler that has found its organization runs to its end.              *)
FairSpec ==
  Spec /\ \A d \in Deliveries : WF_vars(pc[d] # "new" /\ DeliveryStep(d))

-----------------------------------------------------------------------------
(* Properties.                                                             *)

(* "Webhooks are persisted and deduped before queueing work": whatever was *)
(* done for a delivery, its own insert of the event came first.            *)
PersistedBeforeWork == outbox \cup jobs \subseteq saved

(* An event told twice, or twice at once, has one row, one notice in the   *)
(* outbox and one job.                                                     *)
Once(S) == \A c, d \in S : SameEvent(c, d) => c = d

EffectsOnce == Once(saved) /\ Once(outbox) /\ Once(jobs)

Durable == Storage = "postgres"

(* Once the provider has its 202 and stops delivering, the event is in the *)
(* store (unless the store was memory and the process restarted).          *)
AnsweredIsPersisted == Durable =>
  \A d \in Deliveries : reply[d] \in {"accepted", "deduped"} => Known(d)

(* "queues supported sync jobs": when an event that calls for a sync of a  *)
(* known organization has been accepted, it has its job.                   *)
AcceptedIsQueued ==
  \A d \in Deliveries : reply[d] = "accepted" /\ ShouldSync(d) => d \in jobs

Steady == Storage = "memory" /\ Faults = {}

(* The processor's events of which every delivery names an organization.   *)
NamedEvents ==
  {e \in SyncEvents \ PlaidEvents : \A d \in Deliveries : Event[d] = e => OrgParam[d] # NoOrg}

Delivered(e) == Steady /\ \E d \in Deliveries : Event[d] = e /\ pc[d] = "found"

Synced(e) == \E d \in jobs : Event[d] = e

(* In memory, where the enqueue succeeds, and while the process runs, one  *)
(* delivery that goes through is enough for the sync, whichever of several *)
(* at once wins the insert, if all of them name an organization: one that  *)
(* does not would win it for nothing.                                      *)
DeliveredIsSynced == \A e \in NamedEvents : Delivered(e) ~> Synced(e)

-----------------------------------------------------------------------------
(* The inductive invariant.                                                *)

(* The delivery that inserts an event is the one that works for it.        *)
Late(d) == pc[d] \in {"created", "told", "queued"}

SavedIsLate == \A d \in saved : Late(d) \/ pc[d] = "done"

AtWorkIsSaved == \A d \in Deliveries : Late(d) => d \in saved

IInv ==
  /\ TypeOK
  /\ SavedIsLate
  /\ AtWorkIsSaved
  /\ PersistedBeforeWork
  /\ Once(saved)
=============================================================================
