----------------------------- MODULE Ingestion -----------------------------
(***************************************************************************)
(* The sample data of one organization: synced from Stripe and from the    *)
(* bank, reconciled, reset and seeded, and the reports read from it.       *)
(*                                                                         *)
(* Over Postgres a sync is one transaction, but for the amount of the      *)
(* payout, which the bank sync reads before it.  A reset deletes in one    *)
(* transaction, whose statements each see what is committed by then: the   *)
(* runs, then items, fees and refunds, and last the other rows; and it     *)
(* syncs and reconciles in three more.  A report reads table after table.  *)
(* Over the memory store each critical section is one step, and a reset    *)
(* seeds other data than the syncs bring.                                  *)
(*                                                                         *)
(* A sync that the worker does as a job takes any organization for a small *)
(* business with dollars: a restaurant gets the data of a student          *)
(* organization next to its own, and its payout and that of the other data *)
(* are one row.                                                            *)
(*                                                                         *)
(* A row has a key, which the sample data gives it, and an identifier.     *)
(* Left out: audit rows, the exceptions of a run (they are in module       *)
(* Reconciliation), the jobs and idempotency keys that a reset deletes as  *)
(* well, and the readiness that reading the onboarding status adds to the  *)
(* checklist in memory.                                                    *)
(***************************************************************************)
EXTENDS Insights, Bags

CONSTANTS
  Requests,
  Deployments,  \* storages, types and currencies of organizations, and loads
  Days,         \* the days on which something happens, in turn
  MaxIds,       \* the identifiers in use at once
  MaxRuns,      \* the runs stored at once
  MaxRefunds,   \* the refunds stored at once, one from each sync in memory
  Answers       \* what can be said in the onboarding

ASSUME DeploymentsAssumption ==
  \A d \in Deployments :
    /\ d.storage \in {"postgres", "memory"} /\ d.type \in {"student", "restaurant"}
    /\ d.currency \in DOMAIN Folded
    /\ d.load \subseteq {"stripe", "bank", "stripe_job", "bank_job", "reconcile", "reset", "seed",
                         "explain", "cash", "month", "setup", "days"}
ASSUME DaysAssumption ==
  /\ Days \in Seq(Nat) /\ Days # <<>>
  /\ \A i, j \in DOMAIN Days : i < j => Days[i] < Days[j]
ASSUME BoundAssumption == {MaxIds, MaxRuns, MaxRefunds} \subseteq Nat
ASSUME AnswersAssumption ==
  \A a \in Answers :
    DOMAIN a = {"scenario", "business", "checklist", "done"} /\ a.done \in BOOLEAN

VARIABLES
  deployment,
  date,       \* where in Days today is
  payments, fees, refunds, payouts, items, banks,
  runs,       \* reconciliation_runs, with their matches
  setup,      \* organization_setup
  job         \* what each request is doing

tables == <<payments, fees, refunds, payouts, items, banks>>
vars == <<deployment, date, tables, runs, setup, job>>

Postgres == deployment.storage = "postgres"
today == Days[date]

Ids == 1..MaxIds
NoBooks == [payments |-> {}, payouts |-> {}, banks |-> {}, fees |-> {}, refunds |-> {}]

(* A request: the steps it has left, what it has listed, the amount it     *)
(* gives the deposit, whether no other request ran since it began, and the *)
(* runs, fees and refunds it is deleting.                                  *)
Idle ==
  [kind |-> None, todo |-> <<>>, snap |-> NoBooks, amount |-> 0, alone |-> TRUE,
   doomed |-> [runs |-> {}, fees |-> {}, refunds |-> {}]]

(* Charges of a set of sample data, each with its fee; the one that is     *)
(* refunded; and when the payout arrives.                                  *)
Charges ==
  [student |-> <<<<4800, 169>>, <<4800, 169>>, <<3500, 132>>, <<12000, 378>>, <<150000, 4380>>>>,
   restaurant |-> <<<<842035, 24419>>, <<389020, 11282>>, <<214080, 17270>>, <<166550, 12675>>,
                    <<12675, 365>>>>,
   seed |-> <<<<12000, 378>>, <<150000, 4380>>, <<3500, 132>>>>]
Refunded == [student |-> 3, restaurant |-> 5, seed |-> 3]
Arrived == [student |-> 2, restaurant |-> 2, seed |-> 4]

Payment(d, i, id) ==
  [key |-> <<d, i>>, id |-> id, amount |-> Charges[d][i][1],
   status |-> IF d = "restaurant" /\ i = Refunded[d] THEN "refunded" ELSE "succeeded"]

(* A fee or refund names its payment, or none (0) when that was deleted.   *)
Fee(d, i, id, of) == [key |-> <<d, i>>, id |-> id, amount |-> Charges[d][i][2], of |-> of]
Refund(d, id, of) ==
  [key |-> <<d, Refunded[d]>>, id |-> id, amount |-> Charges[d][Refunded[d]][1], of |-> of]

Paid(d, id) == {Payment(d, i, id) : i \in DOMAIN Charges[d]}
Charged(d, id, of) == {Fee(d, i, id, of) : i \in DOMAIN Charges[d]}

Net == [d \in DOMAIN Charges |->
  Total(Paid(d, 1)) - Total(Charged(d, 1, 1)) - Refund(d, 1, 1).amount]

(* The data of students and of a restaurant bring one and the same payout. *)
PayoutKey == [student |-> "po_demo", restaurant |-> "po_demo", seed |-> "po_demo_seed"]
Payout(d, id, day, currency) ==
  [key |-> PayoutKey[d], id |-> id, amount |-> Net[d], currency |-> currency, status |-> "paid",
   day |-> day - Arrived[d]]

(* Bank transactions; the first is the deposit of the payout.              *)
Deposit ==
  [student |-> "student_deposit", restaurant |-> "restaurant_deposit", seed |-> "seed_deposit"]
Entry(key, amount, direction, words, ago) ==
  [key |-> key, amount |-> amount, direction |-> direction, words |-> words, ago |-> ago]

OfStudents(amount) ==
  {Entry(Deposit["student"], amount, "credit", {"stripe"}, 2),
   Entry("venue", 30000, "debit", {"venue"}, 1), Entry("unmatched", 21245, "credit", {}, 1)}
OfRestaurant(amount) ==
  {Entry(Deposit["restaurant"], amount, "credit", {}, 1), Entry("delivery", 195610, "credit", {}, 1),
   Entry("branch", 141000, "credit", {}, 1), Entry("supplier", 287540, "debit", {"food"}, 0),
   Entry("payroll", 684500, "debit", {}, 0)}
OfSeed(amount) ==
  {Entry(Deposit["seed"], amount, "credit", {"stripe"}, 4),
   Entry("seed_unmatched", 21245, "credit", {}, 2), Entry("seed_venue", 30000, "debit", {"venue"}, 1)}

Entries(d, amount) ==
  CASE d = "student" -> OfStudents(amount)
    [] d = "restaurant" -> OfRestaurant(amount)
    [] OTHER -> OfSeed(amount)

Posted(d, amount, id, day, currency) ==
  {[key |-> e.key, id |-> id, amount |-> e.amount, direction |-> e.direction, words |-> e.words,
    currency |-> currency, day |-> day - e.ago] : e \in Entries(d, amount)}

DefaultPayout == 166572

(* What an answer has where nothing was said.                              *)
Blank == ""

TypeOK ==
  /\ deployment \in Deployments /\ date \in DOMAIN Days
  /\ \A r \in payments \cup fees \cup refunds \cup payouts \cup banks :
       r.id \in Ids /\ r.amount \in Nat
  /\ \A r \in fees \cup refunds : r.of \in Ids \cup {0}
  /\ IsABag(items) /\ \A i \in DOMAIN items : i.payout \in Ids /\ i.amount \in Int
  /\ \A r \in runs : r.id \in Ids /\ \A m \in r.matches : DOMAIN m = {"payout", "deposit"}
  /\ setup.scenario \in {Blank} \cup {a.scenario : a \in Answers}
  /\ setup.business \in {Blank, deployment.type} \cup {a.business : a \in Answers}
  /\ setup.checklist \in {Blank} \cup {a.checklist : a \in Answers}
  /\ setup.done \in BOOLEAN
  /\ \A q \in Requests :
       IF job[q].kind = None THEN job[q] = Idle
       ELSE job[q].kind \in deployment.load /\ job[q].todo # <<>>

Init ==
  /\ deployment \in Deployments /\ date = 1
  /\ payments = {} /\ fees = {} /\ refunds = {} /\ payouts = {} /\ items = EmptyBag /\ banks = {}
  /\ runs = {}
  /\ setup = [scenario |-> Blank, business |-> Blank, checklist |-> Blank, done |-> FALSE]
  /\ job = [q \in Requests |-> Idle]

-----------------------------------------------------------------------------
AtWork == {q \in Requests : job[q] # Idle}
At(q, step) == job[q].todo # <<>> /\ Head(job[q].todo) = step

(* A request does its next step, and holds j.                              *)
Goes(q, j) == job' = [job EXCEPT ![q] = IF Len(j.todo) = 1 THEN Idle ELSE [j EXCEPT !.todo = Tail(@)]]
Does(q) == Goes(q, job[q])
Ends(q) == job' = [job EXCEPT ![q] = Idle]

Matches == UNION {r.matches : r \in runs}
Held(of(_)) == UNION {of(job[q]) : q \in Requests}

(* The identifiers of what is stored and of what is still referred to.     *)
Used ==
  LET ids(rows) == {r.id : r \in rows}
      named(refs) == {ref[2] : ref \in refs \ {<<>>}}
  IN  [payments |-> ids(payments) \cup {r.of : r \in fees \cup refunds},
       fees |-> ids(fees \cup Held(LAMBDA j : j.doomed.fees)),
       refunds |-> ids(refunds \cup Held(LAMBDA j : j.doomed.refunds)),
       payouts |-> ids(payouts \cup Held(LAMBDA j : j.snap.payouts))
                     \cup named({m.payout : m \in Matches}),
       banks |-> ids(banks \cup Held(LAMBDA j : j.snap.banks))
                   \cup named({m.deposit : m \in Matches}),
       runs |-> ids(runs \cup Held(LAMBDA j : j.doomed.runs))]

(* The identifier of what is stored next in a table, one for all rows, if  *)
(* there is one left (a bound).                                            *)
NewIn(table) == Min(Ids \ Used[table])
Room == \A table \in DOMAIN Used : Ids \ Used[table] # {}

Books ==
  [payments |-> payments, payouts |-> payouts, banks |-> banks, fees |-> fees, refunds |-> refunds]
Listed(books) ==
  [payments |-> books.payments, payouts |-> books.payouts, banks |-> books.banks,
   fees |-> books.fees, refunds |-> books.refunds, today |-> today, ordered |-> Postgres]

Reports ==
  [explain |-> <<"payments", "payouts", "banks", "fees", "refunds", "answer">>,
   cash |-> <<"banks", "payouts", "fees", "refunds", "answer">>,
   month |-> <<"payments", "refunds", "fees", "payouts", "answer">>]

Writes ==
  IF Postgres
  THEN [stripe |-> <<"stripe">>, bank |-> <<"amount", "bank">>,
        stripe_job |-> <<"stripe">>, bank_job |-> <<"amount", "bank">>,
        reconcile |-> <<"payouts", "banks", "match">>,
        reset |-> <<"runs", "links", "clear", "stripe", "amount", "bank", "payouts", "banks", "match">>]
  ELSE [stripe |-> <<"stripe">>, bank |-> <<"amount", "bank">>, reconcile |-> <<"match">>,
        reset |-> <<"clear", "check", "seed", "match">>, seed |-> <<"check", "seed", "match">>]

Steps == [kind \in DOMAIN Reports \cup DOMAIN Writes |->
  IF kind \in DOMAIN Writes THEN Writes[kind] ELSE IF Postgres THEN Reports[kind] ELSE <<"answer">>]

(* A request comes in, if there will be room for what it makes.  Over the  *)
(* memory store a report reads all of the tables under the lock.           *)
Begin(q, kind) ==
  /\ job[q] = Idle /\ kind \in deployment.load \cap DOMAIN Steps
  /\ kind \in {"reconcile", "seed"} => Cardinality(runs) + Cardinality(AtWork) < MaxRuns
  /\ kind = "stripe" => Cardinality(refunds) + Cardinality(AtWork) < MaxRefunds
  /\ job' = [r \in Requests |->
       IF r = q
       THEN [Idle EXCEPT !.kind = kind, !.todo = Steps[kind], !.alone = AtWork = {},
                         !.snap = IF ~ Postgres /\ kind \in DOMAIN Reports THEN Books ELSE NoBooks]
       ELSE [job[r] EXCEPT !.alone = r \notin AtWork]]
  /\ UNCHANGED <<deployment, date, tables, runs, setup>>

(* A statement fails, or Postgres breaks a deadlock: the transaction is    *)
(* undone and the request ends.                                            *)
Fail(q) ==
  /\ Postgres /\ q \in AtWork
  /\ Ends(q)
  /\ UNCHANGED <<deployment, date, tables, runs, setup>>

Read(q, table) ==
  /\ At(q, table)
  /\ Goes(q, [job[q] EXCEPT !.snap[table] = Books[table]])
  /\ UNCHANGED <<deployment, date, tables, runs, setup>>

Answer(q) ==
  /\ At(q, "answer") /\ Does(q)
  /\ UNCHANGED <<deployment, date, tables, runs, setup>>

-----------------------------------------------------------------------------
(* Mutant: a row is stored again.                                          *)
StoredAgain(table, rows) == table \cup rows

(* Rows stored over those with their keys, which keep their identifiers.   *)
IdOf(table, r) ==
  IF \E x \in table : x.key = r.key THEN (CHOOSE x \in table : x.key = r.key).id ELSE r.id
Upserted(table, rows) ==
  LET keys == {r.key : r \in rows} IN
  {x \in table : x.key \notin keys} \cup {[r EXCEPT !.id = IdOf(table, r)] : r \in rows}

(* Mutant: fees and refunds name the payments that were not stored.        *)
OfDraft(rows) == rows

(* Fees and refunds name the payments as they are stored.                  *)
OfStored(rows) ==
  {[r EXCEPT !.of = (CHOOSE p \in payments' : p.key = r.key).id] : r \in rows}

(* Items come as a bag, for a row may be there twice.                      *)
ItemsOf(d, payout) ==
  LET item(kind, r, amount) ==
        [payout |-> payout, kind |-> kind, key |-> r.key, amount |-> amount]
  IN  SetToBag({item("payment", p, p.amount) : p \in Paid(d, 1)}
                 \cup {item("fee", f, -f.amount) : f \in Charged(d, 1, 1)}
                 \cup {item("refund", r, -r.amount) : r \in {Refund(d, 1, 1)}})

(* The items of a payout, in place of those it had.                        *)
replacePayoutItems(d, payout) ==
  Restrict(items, {i \in DOMAIN items : i.payout # payout}) (+) ItemsOf(d, payout)

(* The sample data that a request syncs, and its currency.                 *)
OfWorker(q) == job[q].kind \in {"stripe_job", "bank_job"}
SampleOf(q) == IF Postgres /\ ~ OfWorker(q) THEN deployment.type ELSE "student"
CurrencyOf(q) == IF OfWorker(q) THEN "USD" ELSE deployment.currency

(* A sync waits for the reset that is deleting a row it stores.            *)
SyncStripeDemo(q) ==
  /\ Postgres /\ At(q, "stripe") /\ Does(q) /\ Room
  /\ \A r \in Requests : job[r].doomed.fees \cap fees = {} /\ job[r].doomed.refunds \cap refunds = {}
  /\ LET d == SampleOf(q) IN
       /\ payments' = Upserted(payments, Paid(d, NewIn("payments")))
       /\ refunds' = Upserted(refunds, OfStored({Refund(d, NewIn("refunds"), NewIn("payments"))}))
       /\ fees' = Upserted(fees, OfStored(Charged(d, NewIn("fees"), NewIn("payments"))))
       /\ \E payout \in {Payout(d, NewIn("payouts"), today, CurrencyOf(q))} :
            /\ payouts' = Upserted(payouts, {payout})
            /\ items' = replacePayoutItems(d, IdOf(payouts, payout))
  /\ UNCHANGED <<deployment, date, banks, runs, setup>>

(* In memory fees and refunds are added again, and name the new payments.  *)
syncStripeMock(q) ==
  /\ ~ Postgres /\ At(q, "stripe") /\ Does(q) /\ Room
  /\ payments' = Upserted(payments, Paid(SampleOf(q), NewIn("payments")))
  /\ refunds' = refunds \cup {Refund(SampleOf(q), NewIn("refunds"), NewIn("payments"))}
  /\ fees' = fees \cup Charged(SampleOf(q), NewIn("fees"), NewIn("payments"))
  /\ payouts' = Upserted(payouts, {Payout(SampleOf(q), NewIn("payouts"), today, CurrencyOf(q))})
  /\ UNCHANGED <<deployment, date, items, banks, runs, setup>>

(* The amount of the payout that is listed last, or of any in memory.      *)
ReadAmount(q) ==
  /\ At(q, "amount")
  /\ \E amount \in IF payouts = {} THEN {DefaultPayout}
                    ELSE {p.amount : p \in {p \in payouts : Postgres => \A o \in payouts : p.day <= o.day}} :
       Goes(q, [job[q] EXCEPT !.amount = amount])
  /\ UNCHANGED <<deployment, date, tables, runs, setup>>

SyncBank(q) ==
  /\ At(q, "bank") /\ Does(q) /\ Room
  /\ banks' = Upserted(banks, Posted(SampleOf(q), job[q].amount, NewIn("banks"), today, CurrencyOf(q)))
  /\ UNCHANGED <<deployment, date, payments, fees, refunds, payouts, items, runs, setup>>

-----------------------------------------------------------------------------
NoTables ==
  payments' = {} /\ fees' = {} /\ refunds' = {} /\ payouts' = {} /\ items' = EmptyBag /\ banks' = {}

(* The statements that delete runs, with their matches and exceptions, see *)
(* those that are there, and so do those that delete fees and refunds.     *)
DeleteRuns(q) ==
  /\ At(q, "runs")
  /\ Goes(q, [job[q] EXCEPT !.doomed.runs = runs])
  /\ UNCHANGED <<deployment, date, tables, runs, setup>>

DeleteLinks(q) ==
  /\ At(q, "links")
  /\ Goes(q, [job[q] EXCEPT !.doomed.fees = fees, !.doomed.refunds = refunds])
  /\ UNCHANGED <<deployment, date, tables, runs, setup>>

Left(table, doomed) == {[r EXCEPT !.of = 0] : r \in {r \in table : \A d \in doomed : d.id # r.id}}

(* The other rows go, and the reset commits.  A run, fee or refund stored  *)
(* since stays, its links to what is gone cut.                             *)
ClearPostgres(q) ==
  /\ Postgres /\ At(q, "clear")
  /\ Goes(q, [job[q] EXCEPT !.doomed = Idle.doomed])
  /\ payments' = {} /\ payouts' = {} /\ items' = EmptyBag /\ banks' = {}
  /\ fees' = Left(fees, job[q].doomed.fees)
  /\ refunds' = Left(refunds, job[q].doomed.refunds)
  /\ runs' = {[r EXCEPT !.matches = {[payout |-> <<>>, deposit |-> <<>>] : m \in @}] :
                r \in {r \in runs : \A d \in job[q].doomed.runs : d.id # r.id}}
  /\ UNCHANGED <<deployment, date, setup>>

(* Mutant: bank transactions are forgotten.                                *)
ClearMemoryButBanks(q) ==
  /\ ~ Postgres /\ At(q, "clear") /\ Does(q)
  /\ payments' = {} /\ fees' = {} /\ refunds' = {} /\ payouts' = {} /\ runs' = {}
  /\ UNCHANGED <<deployment, date, items, banks, setup>>

ClearMemory(q) ==
  /\ ~ Postgres /\ At(q, "clear") /\ Does(q)
  /\ NoTables /\ runs' = {}
  /\ UNCHANGED <<deployment, date, setup>>

(* Seeding stops at an organization that has a payout.                     *)
Check(q) ==
  /\ At(q, "check")
  /\ IF payouts = {} THEN Does(q) ELSE Ends(q)
  /\ UNCHANGED <<deployment, date, tables, runs, setup>>

Seed(q) ==
  /\ At(q, "seed") /\ Does(q) /\ Room
  /\ payments' = payments \cup Paid("seed", NewIn("payments"))
  /\ fees' = fees \cup Charged("seed", NewIn("fees"), NewIn("payments"))
  /\ refunds' = refunds \cup {Refund("seed", NewIn("refunds"), NewIn("payments"))}
  /\ payouts' = payouts \cup {Payout("seed", NewIn("payouts"), today, deployment.currency)}
  /\ banks' = banks \cup Posted("seed", Net["seed"], NewIn("banks"), today, deployment.currency)
  /\ UNCHANGED <<deployment, date, items, runs, setup>>

Ref(r) == <<r.key, r.id>>
Stored(ref, table) == \E r \in table : Ref(r) = ref

(* A match names a payout and a deposit that are there.                    *)
ForeignKeys(m) == Stored(m.payout, payouts) /\ Stored(m.deposit, banks)

RunOf(s, m) ==
  [id |-> NewIn("runs"),
   matches |-> {[payout |-> Ref(p), deposit |-> Ref(m[p])] :
                  p \in {p \in s.payouts : m[p] # NoDeposit}}]

(* A run over what was listed, or what is there under the lock in memory.  *)
Reconcile(q) ==
  /\ At(q, "match") /\ Does(q) /\ Room
  /\ \E s \in {Listed(IF Postgres THEN job[q].snap ELSE Books)} : \E m \in Matchings(s) :
       LET run == RunOf(s, m) IN
       runs' = IF \A x \in run.matches : ForeignKeys(x) THEN runs \cup {run} ELSE runs
  /\ UNCHANGED <<deployment, date, tables, setup>>

-----------------------------------------------------------------------------
(* An answer that is not given leaves the one before, over Postgres; in    *)
(* memory a scenario not given is lost, and so is the type of business,    *)
(* for the type of the organization.  A checklist is replaced, by an empty *)
(* one if none is given, in both.                                          *)
Answered(old, a) ==
  [scenario |-> IF Postgres /\ a.scenario = Blank THEN old.scenario ELSE a.scenario,
   business |-> IF a.business # Blank THEN a.business
                ELSE IF Postgres THEN old.business ELSE deployment.type,
   checklist |-> a.checklist,
   done |-> old.done \/ a.done]

UpsertOnboardingStatus(a) ==
  /\ "setup" \in deployment.load
  /\ setup' = Answered(setup, a)
  /\ UNCHANGED <<deployment, date, tables, runs, job>>

(* Days pass between requests, which are short.                            *)
Tomorrow ==
  /\ "days" \in deployment.load /\ AtWork = {}
  /\ date < Len(Days)
  /\ date' = date + 1
  /\ UNCHANGED <<deployment, tables, runs, setup, job>>

Next ==
  \/ \E q \in Requests :
       \/ \E kind \in deployment.load : Begin(q, kind)
       \/ \E table \in DOMAIN Books : Read(q, table)
       \/ Fail(q) \/ Answer(q)
       \/ SyncStripeDemo(q) \/ syncStripeMock(q) \/ ReadAmount(q) \/ SyncBank(q)
       \/ DeleteRuns(q) \/ DeleteLinks(q) \/ ClearPostgres(q) \/ ClearMemory(q)
       \/ Check(q) \/ Seed(q) \/ Reconcile(q)
  \/ \E a \in Answers : UpsertOnboardingStatus(a)
  \/ Tomorrow

Spec == Init /\ [][Next]_vars
-----------------------------------------------------------------------------
Breakdown(p) ==
  LET total(kind) ==
        SumOver([i \in {i \in DOMAIN items : i.payout = p.id /\ i.kind = kind} |->
                   items[i] * i.amount])
  IN  [gross |-> total("payment"), fees |-> -total("fee"), refunds |-> -total("refund"),
       net |-> p.amount]

(* Whatever syncs and resets did, and however often and where they failed, *)
(* the breakdown of a payout adds up to its amount, and no item is left    *)
(* without its payout.                                                     *)
ItemsAddUp ==
  Postgres =>
    /\ \A p \in payouts : LET b == Breakdown(p) IN b.gross - b.fees - b.refunds = b.net
    /\ \A i \in DOMAIN items : \E p \in payouts : p.id = i.payout

(* A row is stored once, and a fee or refund that names a payment names    *)
(* the stored one it was charged for, although a sync brings new           *)
(* identifiers and a reset may delete the payment under it.                *)
LinksResolve ==
  Postgres =>
    /\ \A table \in {payments, fees, refunds, payouts, banks} :
         \A r, o \in table : r.key = o.key => r = o
    /\ \A r \in fees \cup refunds :
         r.of # 0 => \E p \in payments : p.id = r.of /\ p.key = r.key

(* A match of a run refers to a payout and a deposit that are stored, or   *)
(* to nothing when a reset took them; and a run uses a deposit once.       *)
MatchesResolve ==
  \A r \in runs : \A m, n \in r.matches :
    /\ m # [payout |-> <<>>, deposit |-> <<>>] => Stored(m.payout, payouts) /\ Stored(m.deposit, banks)
    /\ m.deposit = n.deposit => m = n

(* The books of an organization hold together under any overlap of syncs,  *)
(* runs and resets and wherever one of them fails.                         *)
BooksOK == TypeOK /\ ItemsAddUp /\ LinksResolve /\ MatchesResolve

(* The payments, fees and refunds are all of one set of sample data: no    *)
(* worker has stored the data of students in the books of a restaurant.    *)
OneSample(s) ==
  \A r, o \in s.payments \cup s.fees \cup s.refunds : r.key[1] = o.key[1]

(* A sync that is repeated changes nothing in the books: the report of the *)
(* month stays as it is from the first sync to the next reset.             *)
SyncKeepsBooks ==
  Postgres /\ payments # {} /\ payments' # {} /\ OneSample(Books) /\ OneSample(Books)'
    => MonthlyReport(Books)' = MonthlyReport(Books)

(* An onboarding that was completed stays completed, and over Postgres a   *)
(* scenario or type of business that was given is not blanked by a later   *)
(* answer that leaves it out.  A checklist is: it is not promised here.    *)
AnswersKept ==
  /\ setup.done => setup'.done
  /\ Postgres => \A f \in {"scenario", "business"} : setup[f] # Blank => setup'[f] # Blank

(* A request that is repeated, whole or in part, takes back nothing of what*)
(* an earlier one stored.                                                  *)
RepeatsLoseNothing == [][SyncKeepsBooks /\ AnswersKept]_vars

Same(rows, sample) ==
  /\ Cardinality(rows) = Cardinality(sample)
  /\ {<<r.key, r.amount>> : r \in rows} = {<<r.key, r.amount>> : r \in sample}

Fresh(d) ==
  LET deposit == [payout |-> PayoutKey[d], deposit |-> Deposit[d]] IN
  /\ Same(payments, Paid(d, 1)) /\ Same(fees, Charged(d, 1, 1)) /\ Same(refunds, {Refund(d, 1, 1)})
  /\ Same(payouts, {Payout(d, 1, today, None)}) /\ Same(banks, Posted(d, Net[d], 1, today, None))
  /\ {{[payout |-> m.payout[1], deposit |-> m.deposit[1]] : m \in r.matches} : r \in runs}
       = {IF d = "restaurant" THEN {} ELSE {deposit}}

(* A reset that no other request overlaps and that gets to its end leaves  *)
(* the sample data and one run over it, matched but for a restaurant's,    *)
(* whatever the requests before it left, half-done resets among them.      *)
ResetRepairs ==
  [][\A q \in Requests :
       /\ job[q].kind = "reset" /\ At(q, "match") /\ runs' # runs
       /\ job[q].alone
       => Fresh(IF Postgres THEN deployment.type ELSE "seed")']_vars

(* A report that is read while nothing else is going on.                   *)
Alone(q, kind) == job[q].kind = kind /\ At(q, "answer") /\ job[q].alone
Seen(q) == Listed(job[q].snap)

(* Over Postgres an explanation adds up as well: what came in, less fees   *)
(* and refunds, is what was paid out, however often data was synced, and   *)
(* by whom, while the rows are of one sample.                              *)
ExplanationAddsUp ==
  \A q \in Requests : Postgres /\ Alone(q, "explain") =>
    LET s == Seen(q) IN
    OneSample(s) =>
      \A p \in s.payouts : \A e \in Explain(p, s) :
        e.gross - e.fees - e.refunds = e.net

(* The report of a month accounts for the payouts, but for the refunded    *)
(* payments: it takes off the refunds of what it has not counted.  Only an *)
(* organization without a payout may have fees that a reset has left.      *)
ReportAddsUp ==
  \A q \in Requests : Postgres /\ Alone(q, "month") =>
    LET s == Seen(q) IN
    s.payouts # {} /\ OneSample(s) => MonthlyReport(s).payouts
      = MonthlyReport(s).net + Total({r \in s.payments : r.status = "refunded"})

(* The two reports that take fees and refunds off what was paid agree with *)
(* what was paid out.                                                      *)
ReportsAddUp == ExplanationAddsUp /\ ReportAddsUp

(* The anomalies and the explanations, which look for deposits each in     *)
(* its own loop, agree on a snapshot, a torn one too: a payout is missing, *)
(* and to be followed up, exactly if its explanation has no deposit, and   *)
(* a deposit that explains a payout is not unmatched.                      *)
FlagsAgree ==
  \A q \in Requests : job[q].kind = "explain" /\ At(q, "answer") =>
    LET s == Seen(q)
        flagged(type) == {a.of : a \in {a \in DetectAnomalies(s) : a.type = type}}
        explained == UNION {Explain(p, s) : p \in s.payouts}
    IN  /\ {e.payout : e \in {e \in explained : e.deposit = None}} = flagged("missing_payout")
        /\ {e.deposit : e \in explained} \cap flagged("unmatched_deposit") = {}
        /\ flagged("missing_payout") # {} <=>
             \E t \in Cash(s).todo : t.type = "follow_up_unmatched_deposit" /\ t.priority = "high"

(* Over Postgres, for a student organization, scores, runs and             *)
(* explanations, three computations with three tolerances, agree:          *)
(* a payout that is scored as matched is matched by a run to the same      *)
(* deposit, and its explanation names that deposit and the same amount,    *)
(* unless their currencies are the same but for how they are spelled.      *)
MatchedMeansReconciled ==
  Postgres /\ deployment.type = "student" =>
    \A q \in Requests : Alone(q, "explain") =>
      LET s == Seen(q) IN
      \A r \in UNION ScoreAll(s) : r.status = "matched" =>
        \A p \in s.payouts : p.key = r.payout =>
          /\ \A m \in Matchings(s) : m[p].key = r.deposit
          /\ \A b \in s.banks : b.key = r.deposit /\ b.currency = p.currency =>
               \A e \in Explain(p, s) :
                 e.deposit = r.deposit /\ "amount_differs" \notin e.warnings

(* What is said of one payout, in four places, is never contradictory.     *)
MatchingAgrees == FlagsAgree /\ MatchedMeansReconciled

(* Money that is in the bank is not expected as well: both forecasts start *)
(* at the cash of the summary, and once each payout has its deposit the    *)
(* balance moves by the same every day.                                    *)
PaidOnce ==
  \A q \in Requests : Alone(q, "cash") =>
    LET s == Seen(q)
        f == Build(7, s)
        at(i) == IF i = 0 THEN f.start ELSE f.series[i]
    IN  (\A p \in s.payouts : Reached(p, s) # {}) =>
          /\ CashForecast(s)[7] = CashSummary(s).cash /\ f.start = CashSummary(s).cash
          /\ \A i \in 1..7 : at(i) - at(i - 1) = at(1) - at(0)

(* The spending of the last month is the expenses of the summary while     *)
(* nothing is older, what was spent today included.                        *)
SpendingIsExpenses ==
  \A q \in Requests : Alone(q, "cash") =>
    LET s == Seen(q)
        spending == Spending(s, s.today - 30, s.today)
    IN  (\A b \in s.banks : b.day >= s.today - 30) =>
          /\ spending.total = CashSummary(s).expenses
          /\ Reserve(s) # spending.total => spending.total = 0

(* Forecasts, spending and the cash summary count the same money, once.    *)
CashAgrees == PaidOnce /\ SpendingIsExpenses
=============================================================================
