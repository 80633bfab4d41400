# Fynora / Clearflow: a verification project

This directory models the Clearflow API and its worker (`services/api`) in
TLA+: what requests, workers and providers do to the stored state, and what the
reports make of it. TLC checks the models on small instances, and TLAPS proves
what matters most for every instance. It sits beside the
code: each definition that models code is listed with its lines in
`PROJECT.json` under `map`.

Run everything here:

    tlc -config JobQueue_safety.cfg MCJobQueue.tla
    tlapm RetryProofs.tla

## 1. The system

A Go API serves a web client. It keeps its state in Postgres, or, when no
database is configured, in maps of one process under one mutex (`memoryStore`);
most components have both forms, and they differ in what they keep atomic.
Several API processes and several worker processes may share one database.
Redis, when enabled, holds rate-limit counters and short locks. Stripe and
Plaid are outside.

| Part | State | Operations | Met with |
|---|---|---|---|
| Job queue, worker | `sync_jobs` | enqueue, claim, complete, fail and back off, cancel, retry, reset | idempotent requests and webhooks enqueue; the worker runs syncs and reconciliation, and writes the outbox |
| Idempotency | `idempotency_keys`, lock store | read, replay, conflict, lock, save, release | wraps the enqueue; reset deletes its records |
| Webhooks | `webhook_events`, `plaid_webhook_events`, `outbox_events` | receive, dedupe, emit, enqueue | job queue, Plaid items |
| Stripe connection | `oauth_states`, `provider_connections`, grants at Stripe | issue and expire states, callback, disconnect | Stripe |
| Reconciliation | `reconciliation_runs`, `_matches`, `_exceptions` | run, PATCH an exception | rows that syncs and imports write |
| Organizations, members | `organization_members` | add, change, remove | every handler asks for a role first |
| Refresh sessions | `refresh_tokens` | log in, rotate, log out, revoke | web client |
| Plaid connections, sync | a map, `plaid-connections.json`, transactions | link, sync page by page, remove, load at start, edit a transaction | Plaid, webhooks |
| Rate limiting | counters in memory or Redis | allow | wraps login, heavy and webhook routes |
| Demo ingestion, reset | payments, payouts, items, fees, refunds, bank transactions, runs | upsert, replace, delete, seed | reconciliation, jobs, idempotency |
| Scores, explanation, forecast, anomalies, spending, reports | none | computed from the tables on request | what ingestion stores |
| Portfolio | accounts, holdings, portfolio transactions | import, enter, patch, delete | engine |
| Engine, advisor | none | computed from holdings and transactions on request | portfolio, bank statements, Plaid |
| Outbox | `outbox_events` | emit | nothing reads it |
| Web client cache | a map in the page | read, share, store, invalidate | API |

What makes them hard is the same in each: a handler reads, decides and writes
in separate statements, so a second request, a second process, a crash or a
lost answer can come in between. `hazards` in `PROJECT.json` lists each such
place at its line with the properties that watch it, or a note where none does.

What makes each part correct:

- **Queue**: at most one worker runs an attempt, attempts are bounded and
  numbered, a finished job stays finished, a due job is taken up, no job hangs.
- **Idempotency**: a key has one record, a replay is of the same request, two
  tries of one request enqueue one job.
- **Webhooks**: an event has its effects once however often it is delivered,
  and an accepted one is kept and synced.
- **Stripe connection**: an OAuth state is used once and before its code is
  exchanged; what a connection says of itself is what became of its token.
- **Reconciliation**: a finished run accounts for every row it listed, gives no
  deposit twice and leaves no good pair unmatched; its count of open exceptions
  follows their PATCHes.
- **Members**: an organization has an owner; owners alone make and unmake them.
- **Sessions**: a login has one session in use, and ends when it is ended.
- **Plaid**: a transaction has one row; no cursor is ahead of what is stored;
  a synced connection shows what Plaid has; what a user removed or changed stays
  so; a sync ends.
- **Ingestion**: identifiers, links and sums stay whole whatever fails or
  overlaps; repeating a sync loses nothing; a reset repairs.
- **Reports**: parts add up to their wholes, and what several reports say of one
  payout agrees.
- **Portfolio**: an import is whole or not there, and nothing is kept twice.
- **Engine and advisor**: parts add up, and thresholds are reached by what they
  are meant for and by nothing else.

## 2. Modules

Each component has a module with its state as variables and one action per
statement, transaction or hold of the lock; an `MC` module with the constants
of its instances; and a `Proofs` module. Three of these are about two components
each: `RetryProofs` (`JobQueue`, `Idempotency`), `BankProofs` (`PlaidSync`,
`Reconciliation`) and `IntakeProofs` (`Webhooks`, `Finance`); where both have an
initial predicate, a next-state relation and so on, those of the second carry its
name (`IdempotencyInit`, `ReconciliationNext`, `FinanceSpec`). `SumsProofs` has the
lemmas about sums that `IntakeProofs` and `IngestionProofs` rest on. One
refinement joins two components: `JobQueue` implements `JobLedger`.

### JobLedger, JobQueue
`JobLedger` is the promise: the attempts of a job are numbered one by one, each
begun by one worker, up to the allowance. `JobQueue` is the code: `ClaimSelect`
(`SELECT ... FOR UPDATE SKIP LOCKED`) and `ClaimCommit`, the completion and
failure writes, the API's `CancelJob` in its two statements, `RetryJob`, the
reset, worker crashes and lost writes (a failed write whose error is dropped).
Workers are the loop of `cmd/worker/main.go`. What a job does is a success or a
failure. Audit rows and the outbox rows of API handlers are left out; the
outbox rows of the worker are kept, as announcements. The in-memory store
takes the same transitions under the mutex, has no worker, and is not
instantiated on its own.

### Idempotency
One action per step of `handleIdempotencyReplay`, `enqueueFinancialJob` and the
save: read the record, replay or conflict, acquire the lock, insert the job,
save the answer, release. Locks may fail or expire; the database may fail at
any step. Over Postgres a crash drops a request with its lock held; in memory
the records, the jobs and the requests of a process end with it
(`RestartInMemory`), and the locks too unless Redis holds them. The audit row,
the outbox row and the metrics that follow an enqueue are left out.

### Webhooks
`handlePlaidWebhook` and `handleProcessorWebhook` share their steps: find the
organization, store the event unless its dedupe key is there, emit, enqueue,
answer. The signature check is a refusal that may happen. Over Postgres an
enqueue with the empty user id that webhooks pass always fails, because the
column is a UUID; the model has it so. In production `main` ends without
Postgres (`ProductionAssumption`), so that memory is for other environments.

### ProviderConnection
Connect, callback and disconnect, with the grants that exist at Stripe as a
variable, so that what the code believes can be compared with what is. What is
revoked at Stripe is an account's grants, so that two organizations that connect
one account revoke each other's: `Unshared`, a part of `Calm`, excludes it where
a connection is to be honest. Encryption is a fault, `key`: with a key that is
missing or was changed a callback ends with its grant alive, and a disconnect
goes on without asking Stripe and notes nothing (`TokenError`; `unread` has the
grants this happened to). Stripe's answers, failures included, are read off how
the code uses them. A restart in memory loses states and connections.

### Reconciliation
`Reconcile` walks the payouts in their listed order and takes for each the free
deposit with the best score, if it is good; the rest become exceptions. Scores
are kept in thousandths and amounts in cents, which keeps the comparisons of
the code's floats exact; a row's amount, day and name do not change in the
model although an upsert may rewrite them. Postgres lists payouts and deposits
in two statements before its transaction and writes in one; memory holds the
lock but walks maps in any order. A PATCH has its transaction's steps, with the
count subquery reading the snapshot of its own statement. Notes, audit rows and
`matched_count` are left out, and of the statuses an exception can take the
model keeps open and resolved, which is all the count tells apart. A reset that
deletes runs, or rows that runs refer to, is in `Ingestion`.

### Membership
One organization. A request is authorized on its actor's role, an admin's then
looks at its target, and then it adds, changes or removes: in memory under the
lock, over Postgres in up to three statements. The look at the target refuses
only what it has seen to be an owner, so that a read that fails lets the request
go on (`MissTarget`, with `unseen` as history); any other failure ends it. The founder's return in memory
(creating an organization returns the one there is and makes its founder an
owner again) is an action; where requests come one by one it waits its turn.

### Sessions
`Login`, `Present` (the read), `Revoke`, `CreateNext`, the answers, which may be
lost, `RevokeForUser` and `Expire`. A session stands for its token; a client may
present any token it was ever given, as often as it likes. `line`, `ended` and
`known` are history. Access tokens are left out: they are good
for 15 minutes whatever becomes of the session.

### PlaidSync
The connections and transactions in memory, the connections file, and requests
that link, sync and remove. `Fetch` asks Plaid for a page with the cursor the
sync holds, without the lock; `Apply` stores the page, and the sync's own copy of
the connection, under it. The file is a snapshot taken under the lock
(`Snapshot`) and written after it (`Write`, which may be cut off). It holds no
access token, so that a restart finds connections that the next sync drops. The
book of a connection, which says what Plaid has at each cursor, stands for
Plaid. `plaid_items`, which syncs write and webhooks look organizations up in,
is in `Webhooks`; left out here are
transactions entered by hand, which the model assumes carry no Plaid key (a
caller of `createTransaction` could send one).

### Portfolio, PortfolioEngine, Advisor, Finance
`Portfolio` has the accounts, the holdings and the trades. Over Postgres an
import is a transaction of one statement per action: each statement sees what
is committed when it starts, waits for rows that another transaction has
deleted and not committed, and anything may fail before `Commit`. In memory it
is one step. `PortfolioEngine` and `Advisor` are the pure computations, from
`internal/portfolio` and `internal/advisor`. `Finance` puts the user's
transactions beside the portfolio and states what the computations owe to the
stored rows, in every state that is reached. Text is a set of keywords,
amounts are whole numbers, and ratios are compared by cross-multiplication.
All sums over rows are `SumOver` of `Sums`. Quotes, the rules for merchants and
the calendar are constants; of them the modules assume that quotes are numbers,
that the rules are finitely many, and of a file and a statement that they are
sequences of lines whose readable ones have numbers. The rules are a Go map, so a
text that two rules match has either name. A quantity may be below zero, since
nothing in the code refuses one; `math.Round` (`Nearest`) takes a half away from
zero, and a total below zero has no percentages.

### Insights, Ingestion
`Insights` holds the reports as operators on a snapshot of the tables: match
scores and statuses, explanation, anomalies, forecast, spending, cash
recommendations, the run's own matching, and the cash and month reports. Where
the code walks a map, or breaks ties by the order of a map, the operator gives
the set of answers. `Ingestion` has the tables, what the syncs upsert, the reset
with its statements and further transactions, the seed of the memory store, runs
as rows with their matches, and the onboarding answers, the checklist among them.
The worker runs a sync for every organization as if it were a `small_business`
in USD (`cmd/worker/main.go:130`), so that a restaurant gets the student rows
beside its own, and an organization with another currency a deposit in USD:
those are the requests `stripe_job` and `bank_job`. Payouts and deposits have
their currency as it was spelled, since the reports compare it in two ways.
A report reads table
after table over Postgres and at once in memory, and is judged on what it read.
Identifiers are numbers, the least one that is unused; what the code generates is
told apart only by being new.

## 3. Runs

One instance of a module usually covers several ways of deploying it. A module
has a variable `deployment` (in Sessions, `serial`), chosen in `Init` from a
constant set and never changed: the storage, whether requests overlap, and the
faults that may happen. A property that needs more than the code gives in every
deployment says so in its antecedent (`FirstStays => ...`).

Some properties are conjunctions of named parts, which are defined with them:
they are about one thing from several sides.

| Run | Instance | Shows |
|---|---|---|
| `job_safety` | 2 workers, 2 jobs, 1 operator, 2 attempts, crashes, lost writes | one worker per job unless a cancel came between, dead and failed rows as the policy has them, no completion announced that is not stored; the queue implements `JobLedger` |
| `job_settles` | 2 workers, 2 jobs, 3 attempts, no faults, fairness | every job with an attempt left ends |
| `idem_retries` | 3 tries of a request, another under its key, one without a key; Postgres with crashes, expiring and failing locks, with a failing database, with resets; memory with and without locks, with restarts | replays agree, a retry after an answer adds no second job, one request at work per key (where their antecedents hold) |
| `webhook_deliveries` | 1 Plaid and 3 Stripe deliveries; Postgres with errors and restarts, in production and outside; memory outside it, with restarts and without; fairness | effects once, 202 only after the row, the sync queued in memory |
| `webhook_unsynced` | one delivery over Postgres | see below |
| `connect_grants` | 3 callbacks (2 on one state), 2 disconnects; both storages, overlapping with every fault, and one by one with Stripe failing and tokens that cannot be decrypted | a state is burnt before its code is exchanged, and serves once in memory; one by one and without shared accounts, the connection is honest, but for a token that could not be decrypted when it was to be revoked |
| `plaid_sync` | 2 requests, 2 connections one by one or 1 shared, a transaction that is posted, changed and taken back, failing calls and writes, restarts, user edits, fairness | one row per transaction and nothing missing behind a cursor, under any overlap; one by one, a synced connection is current, a removal lasts and a user's edits stay; every request ends |
| `portfolio` | 2 requests, 2 files, 2 bank statements, entries, patches and deletions by hand; both storages, overlapping and one by one | nothing half imported, no orphans over Postgres; one by one, no duplicates; the engine's and the advisor's sums, shares, spikes, fund and plan; a statement imported twice is flagged |
| `ingestion` | 2 requests, fourteen deployments (storage, type and currency of the organization, load, which may have the worker's syncs); failures at any step over Postgres; days that pass | sums, links and matches whole; explanations and month reports add up while the rows are of one sample; scores, anomalies, explanations and runs agree in any mix of currencies; nobody is counted twice; a reset that runs alone to its end leaves fresh books |
| `reconcile_runs` | 3 payouts, 3 deposits and a debit, 2 runs, 2 PATCHes; Postgres with failures and PATCHes one by one, memory with any map order | everything accounted for, nothing missed, no envy; over Postgres the run's count |
| `membership_members` | 3 users, 3 requests; memory and Postgres, overlapping and one by one | only owners make owners (everywhere over Postgres); the last owner stays (memory, one by one); admins spare owners unless their read of the target failed (one by one) |
| `sessions_rotation` | 3 sessions, 3 requests, overlapping and one by one, every failure | revoked before followed; one by one, one session in use per login, and ended stays ended |

`webhook_unsynced` is expected to fail: over Postgres a webhook never enqueues
its sync, because the insert is given an empty user id and its error is dropped,
and a redelivery is deduped. The finding in `PROJECT.json` has the quotation.

What a unit invariant would say (types, unique attempt numbers, one record per
key, a replay of the same request) has no run of its own where it is proved for
every instance: see section 4.

### Further behaviour the models show
These are steps of the models too, though no run is kept for them.

Queue, keys, connections, members, sessions:

- A cancel that read a job early, and a retry after it, let two workers run one
  job (`repository/phase4.go:122`), which `docs/architecture.md:47` excludes.
- `CancelJob` may overwrite a completion it did not see (`repository/phase4.go:114`).
- A dead job that is retried is queued and due, and no worker may claim it, its
  attempts being used up (`phase4.go:122`, `phase3.go:165`).
- A job whose worker crashed stays running for ever (`phase3.go:165`).
- `cancel_requested` is not a status of the API's schema (`openapi.yaml:197`).
- Two tries of one request under one key can both insert a job: the record is
  read before the lock is taken and not again after it (`cmd/api/phase3.go:387`),
  against what `apps/web/app/ops/page.tsx:191` tells its reader.
- A save whose error is dropped leaves an accepted job without its record: a
  retry inserts another (`cmd/api/phase3.go:435`). A reset, or a restart in
  memory, forgets the record with the job.
- A delivery that finds no organization (none in its URL, or an item that is not
  linked yet) can win the insert of an event and queue nothing; those after it,
  with one, are duplicates.
- A token that cannot be decrypted is not revoked, no error is noted, and the row
  says disconnected (`stripe_integrations.go:136`): after a change of the key
  (`runbook.md:139`) grants stay alive at Stripe that nothing points at.
- Over Postgres two callbacks can share one OAuth state
  (`provider_connections.go:39`); `LockedExchange` is what holds in memory.
- `openapi.yaml:1174` says that remote revocation is deferred; it is done at once
  and deferred when it fails.
- In memory two runs over equal rows may match them differently
  (`cmd/api/clearflow.go:1294`).
- Over Postgres two requests can remove both owners of an organization: each
  counts before the other writes (`repository/users.go:179`).
- An admin's request whose read of its target fails goes on: it may change or
  remove an owner (`organizations.go:178`, `216`). So does one whose target
  becomes an owner after the check, when requests overlap.
- Two rotations of one refresh token that overlap each make a next session
  (`cmd/api/phase3.go:172`): `OneSuccessor`, a part of `SerialInv`, is for requests
  one by one.
- A logout whose UPDATE fails is answered 204 (`cmd/api/phase3.go:196`), and one
  that overlaps a rotation may miss the session that the rotation inserts.
- Two PATCHes of exceptions that overlap can leave a run's count too high: each
  counts what the other has not committed.

Plaid:

- A connection that is removed while a sync of it runs comes back with the page
  the sync applies next, and two syncs that overlap can put an older version, or
  a transaction that is gone, back until the next sync (`cmd/api/main.go:1483`).
- After a restart no connection has a token: the next sync drops them all
  (`main.go:1603`). A file cut off while it is written is not read at all.

Ingestion and reports:

- A sync that commits between the DELETE statements of a reset leaves fees and
  refunds without a payout until the next sync, and the month report is negative
  meanwhile. A reset and a run that overlap can leave a run whose matches name
  no row. A reset that stops halfway leaves an empty or partial organization;
  the next one repairs it. A reset and a sync may deadlock, which the model takes
  as a failure of either.
- The bank sync reads the payout's amount before its transaction and may post an
  old one; before any Stripe sync it posts 1665.72, which is two dollars off the
  payout of 1663.72 and inside every tolerance.
- The worker's sync of a restaurant stores the student payments, fees and refunds
  beside the restaurant's and overwrites the payout: its explanation and the
  month report no longer add up (`OneSample` is what `ReportsAddUp` assumes).
- The worker's bank sync rewrites a deposit as USD: in a CAD organization the
  explanation and the anomalies then miss the deposit a run was matched to.
  Scores and runs fold the case of a currency, explanations and anomalies do
  not; the legacy `POST /organizations` stores it as it was spelled.
- An onboarding answer that leaves the checklist out replaces it by `{}`
  (`repository/clearflow.go:730`); scenario and business type are kept.
- A restaurant's payout scores 0.86 and stays unmatched in a run, which asks for
  0.88, although `/matches` may call it matched. Four computations decide what
  has arrived, and `delayed_payout` looks at none of them.
- In memory a repeated Stripe sync adds fees and refunds again, under payments
  that are not stored, and two seeds at once store everything twice. With two
  payouts, a deposit of the same day that names Stripe matches up to 31% off.
- `CashSummary` takes fees and refunds off deposits that are net of them.
- `SeedDemo` of the repository is not reached.

Portfolio, engine, advisor:

- Over Postgres two imports at once can make two default accounts and keep two
  holdings of one symbol: a statement that waited for a lock keeps its
  snapshot (`repository/portfolio.go:121`). A patch is a read and a write.
- An import replaces holdings of its symbols that were entered by hand; in
  memory it replaces nothing, and deleting an account leaves its holdings.
- Two equal trades in one file are one over Postgres. `imported_count` counts
  rows that later rows replaced.
- With high-interest debt the parts of a plan sum to as much as 108% of the net
  cash flow; `PlanFitsNet` is about profiles without such debt.
- A text with "uber eats" has one of two merchants, by the order of a Go map, so
  that a duplicate or a subscription may be missed.
- No charge in a category of fewer than six can be a spike, and fewer than four
  symbols are always called concentrated, however they are spread.
- A row's category is made up before its direction: an income without a
  direction is filed under "Other".

### Bounds
Every bound is a constant of an `MC` module or a cfg. Races in this code are
between two handlers that each read and write once, so two or three requests of
each kind show each of them, and a third stands for what comes after. Two
attempts rather than the three of `EnqueueJob` keep `job_safety` small: the
second shows the retry and the exhaustion; the proof is for any number.
Sessions: three rows are a login and two rotations, or a rotation and a replay,
or two logins. Amounts of Reconciliation are round so that a thousandth is
exact; they are chosen so that a deposit is good for two payouts and a payout
has two good deposits.

In `plaid_sync` a page holds two changes, so that a book of three cursors takes
several pages and ends in the middle of one; one transaction that is posted,
changed and taken back meets each kind of change. In `portfolio` `MaxNumber`
bounds the requests that make rows (statements take the first `MaxRead`),
`MaxEdits` those that change one; a file repeats a symbol, has a line that cannot
be read, and shares a symbol with the other file, and a statement has a
subscription over two months and a bill that stands out of six. In `ingestion`
`MaxIds`, `MaxRuns` and `MaxRefunds` bound the rows that are stored at once; a
deployment's load is what its two requests may ask for; the worker's syncs meet
those of the API in five of them, three of a restaurant, one in CAD and one in
"usd". And the two days lie far
enough apart that a period of 60 days ends between them.

Symmetry is used only on sets whose members nothing orders, and not in runs with
liveness properties.

### Environment assumptions
`Serial` (Membership, ProviderConnection, Reconciliation's PATCHes) and `serial`
(Sessions, PlaidSync, Portfolio) let a request wait for the one before it.
Nothing in the code enforces that: such deployments say what the handlers get
right on their own, and the ones without it say what overlap leaves standing.
`Faults` (in Idempotency, `DeploymentFaults`) is the set of faults a deployment
may meet.

### Fairness
`job_settles` assumes what `cmd/worker/main.go` does: every worker polls for
ever (`WF` of its step), time passes (`WF` of the end of a back-off), and a
cancel that was begun is carried through. `webhook_deliveries` assumes that a
handler that has begun goes on, and `DeliveredIsSynced` is about the
deployment in memory where no restart stops it, and about events whose
deliveries all name an organization. `plaid_sync` assumes the same of a request that is
at work (`WF` of `SyncStep`): the calls to Plaid have a time limit of 20 seconds
and return or fail, and the lock is held for a bounded time; `SyncEnds` then
rests on the cursor moving with every page that says there is more. No run needs
strong fairness, and nobody is assumed to send, cancel or retry.
`CHECK_DEADLOCK FALSE` is set where requests are finitely many: the instance
stops when all are answered.

## 4. Proofs

All are machine-checked to the last leaf, for any sets of jobs, workers,
requests, rows, users or connections. Every property that a passing run checks, but
for the three of liveness, is stated by a theorem.

- **RetryProofs**, of `JobQueue`: `IInv` is inductive. Mutual exclusion alone is
  not, for it needs who holds a row lock (`LockExclusive`, `ClaimIsFresh`), that
  a running job's row says so unless a cancel touched it (`RunnerOwnsRow`), and
  that a worker's copy of the attempt number is never ahead of the row
  (`CopyNotAhead`). From it: type correctness, mutual exclusion, unique and
  bounded attempts, what dead and failed mean (`RetryDecided`), finality of
  completion, and that every step is a step of `JobLedger` or stutters
  (`Refinement`).
- **RetryProofs**, of `Idempotency`: `BaseInv` holds under every fault, and with
  it one record per key and replays of the same request alone. `ReplayAgreement` adds
  that nothing was lost or reset; `RetrySafety` (`RetryAddsNoSecondJob`) only
  that saves are made, for a reset or a restart in memory takes the record and
  the job together; `MutualExclusionPerKey` needs locks that do not fail.
- **IntakeProofs**, about `Webhooks` and `Finance`. Of webhooks, `IInv` ties a
  delivery's stage to the event's row; effects happen once because only the
  delivery that inserted the row goes on. Of a user's files:
  - `StoreStaysWhole` (`StoreOK`), for any overlap. An import over Postgres
    shows nothing until it commits, so `StoreInv` says what its draft owes to
    the committed rows (`TxOK`): it is numbered by its request alone
    (`Numbers`), none of its rows is of another account, and the account is
    there as long as it has stored anything, for a deletion waits for it. A row
    that was read to be patched keeps its account and symbol until it is written
    (`PatchOK`).
  - `NothingComesTwice` (`NoDuplicates`) adds `Turns`, for requests one by one:
    what the import at work would leave if it committed now has one holding of a
    symbol and one of each trade.
  - `SecondImportIsSeen` (`ReimportIsSeen`) from `TransactionsOK`: a stored row
    has one of the names its text allows. A copy is of the same day, so it is
    never the neighbour a subscription is measured by.
  - `ReportsAgreeWithHoldings` (`EngineAgrees`) and `AdviceAgrees`
    (`AdvisorAgrees`) are about sums over any finite set of rows: half a tenth
    of rounding for each name; the largest of n shares is at least an n-th, and
    leaving out the least of them raises the mean; a deviation d of n amounts is
    made up for by the others, so that n * d^2 is at most n - 1 times the sum of
    squares (`Spread`) and a spike takes six; a balance that earns no less each
    month stays ahead.
- **SumsProofs**: `SumOver` folds in an order that is chosen. That it does not
  depend on it (`SumAdds`) is proved with the well-founded order of a finite
  set's parts, and from it that sums split, are linear, follow groups and
  renamings.
- **ProviderConnectionProofs**: a state is marked before its code is exchanged,
  in either store; in memory it serves once. `ConnectionsAreHonest` is for an
  organization's requests one by one (`Calm`), with Stripe failing and keys that
  do not fit; its one exception is a token that was to be revoked and could not
  be decrypted (`unread`). Honesty is not inductive, since a
  disconnect revokes the token in one step and says so in the next: `HonestInv`
  excepts that interval, in which the disconnect `Knows` how its revocation
  ended, and adds that a grant of an organization comes of its own callbacks
  (`GrantsFit`), so that no other disconnect revokes it.
- **BankProofs**, of `PlaidSync`: `RowsAreOK` under every overlap, failure and
  restart. That nothing is missing behind the stored cursors is not inductive,
  for a sync may put back a cursor it read long ago. `IInv` therefore says it of
  every copy of a connection, stored, queued in a request or in flight: what the
  book has both there and at its end has a row, unless the user erased it
  (`Kept`). Old copies stay sound because what a later page takes away is gone
  from the book for good, and a page moves rows from one cursor to the next
  (`Apply`'s lemmas). For requests one by one `SerialInv` adds that the one at
  work holds the cursors that are stored (`CopyIsCurrent`) and nothing of a
  removed connection (`FreeOf`); from it `RowsAreTheBooks`, `RemovalsLast` and
  the action property `EditsAreKept`. Of Plaid it assumes `BookAssumption`: a
  transaction's versions do not go back, and one that was taken back is not
  posted again.
- **BankProofs**, of `Reconciliation`: `ReconciliationInv` is per run (`RunInv`)
  and says what the walked prefix of the payouts has taken, with a frame lemma
  for the runs that do not move; `Accounted`, `Maximality` and `Envyless`
  follow. Nothing is assumed of the scores. `CountsAreOpen` (`CountIsOpen`) adds
  `CountInv`: the count is exact from a run's first draft on, as each exception
  adds one (`OneMore`, `ManyMore`), and what a PATCH has counted stays true
  until it commits, because no other is in its transaction.
- **MembershipProofs**: `OwnerIsKept` (`LastOwnerStays`) under the assumption
  that nothing comes between the count and the write (memory, or serial
  requests), because `CountHolds` is what overlap breaks; `OwnersOnly` without
  it. `OwnersAreSpared` (`AdminsSpareOwners`) for serial requests, from
  `OwnersSpared`: what an admin's request has seen of its target is still so
  when it writes, and in memory it has seen it (`MemorySees`).
- **SessionsProofs**: `RevokedFirst` under every interleaving;
  `OneSessionPerLogin` and `LoggedOutForGood` for serial requests, from `Alone`:
  between its revocation and its insert a rotation's line has nothing in use.
- **IngestionProofs**, about `Ingestion` and `Insights`: `IInv` (theorem
  `Invariance`) holds under every overlap and failure. The books alone are not
  inductive, because a reset shows what it has deleted only when it commits and
  syncs may come in between. `IInv` therefore says what the tables can hold at
  all: over Postgres each of the two samples that may be there (`Lot`: the
  organization's own and the worker's) as a whole or not, but for the fees and
  refunds that outlive their payments, which then name nothing or the payments
  there are (`WholeOf`), nothing beside them (`Covered`), and a payout with its
  items of the sample that came last (`PayoutWhole`); rows of the sample data, stored once where the store sees
  to it (`RowsOK`); matches that are cut or name rows (`RunsOK`); and of the
  requests, that what they hold has the shape of the tables (`JobsOK`), that
  they have the last of their steps left (`PlansOK`), and that one which counts
  as alone is (`AloneOK`).
  - From it `BooksHoldTogether` (`BooksOK`), `RepeatsAreHarmless`
    (`RepeatsLoseNothing`) and `CashIsCountedOnce` (`CashAgrees`). The sums over
    payments, fees and items are those of the sample data, with `SumsProofs`.
    That the books add up is for rows of one sample (`OneSample`), which the
    worker's sync of a restaurant is not.
  - What a request that is alone has read or done is a second invariant,
    `Watched` (`AloneIsUndisturbed`): a report has the tables as they are
    (`ReportOK`), and a reset is at one of its stages, each of which leaves what
    the next needs (`RepairOK`, `Stages`). From both follow `ReportsAreComplete`
    (`ReportsAddUp`), `MatchingNeverDisagrees` (`MatchingAgrees`, whose part
    about torn snapshots needs only `IInv`) and `ResetsRepair` (`ResetRepairs`).
  - The constants of the instances, and nothing of their sizes, are assumed:
    storages, types and loads that the code has, days that grow, bounds that are
    numbers, answers with their fields. The amounts are those of the code, so
    that a theorem about matching is about these samples, in which no other
    deposit comes near the payout's; it holds in any mix of currencies.

Only model-checked: liveness (`EveryJobSettles`, `DeliveredIsSynced`, `SyncEnds`),
which the prover does not reach. What the proofs assume of constants is named in
the modules that declare them, and TLC evaluates it on every run.

## 5. Not modelled

- **Rate limiting.** Counters beside the requests, which share no state with
  what is modelled: any handler may be refused at its start. Worth knowing: over
  Redis each request, a refused one too, sets the expiry anew after its INCR
  (`internal/redisstore/client.go:58`), so that the window ends only after a
  silence as long as itself; outside production the limiter falls back to
  counters in memory when Redis fails.
- **Web client cache.** State of one browser tab, which the API never sees. Worth
  knowing: an answer that is on its way while a write invalidates the cache is
  stored after it and counts as fresh for 30 seconds
  (`apps/web/hooks/useApi.ts:52`).
- **Outbox publisher.** The events are written, which `JobQueue` and `Webhooks`
  have; `ListPendingOutboxEvents`, `MarkOutboxPublished` and `MarkOutboxFailed`
  have no caller.
- **Registration, login, organizations.** Unique emails and default organizations
  are constraints of the tables, which a model would restate. A duplicate email
  is answered 409 over Postgres and 400 in memory.
- **Pagination, validation and counts.** Functions of a request or of one table,
  without state. The onboarding checklist is stored, and is in `Ingestion` as an
  answer; what the code adds to it when it is read is left out.
- **Tracing, logging, configuration; cryptography and token signing; page
  rendering; scripts and deployment.** Left out for good: nothing reads the first
  back, and a model would only assume the rest.
