--------------------------- MODULE Reconciliation ---------------------------
(***************************************************************************)
(* Reconciliation runs of one organization, and the PATCHes that resolve   *)
(* their exceptions.                                                       *)
(*                                                                         *)
(* A run lists the payouts, lists the bank transactions, and walks the     *)
(* payouts once: each takes the unmatched deposit that scores best, or     *)
(* becomes an exception, and so do the deposits that are left.  What a run *)
(* writes is seen when its transaction commits; before that the variables  *)
(* below hold its draft.                                                   *)
(***************************************************************************)
EXTENDS Integers, FiniteSets

CONSTANTS
  Payouts, Banks,   \* rows of payouts and bank_transactions
  Credits,          \* the bank transactions that are deposits
  Amount, Day,      \* of a row: amount, expected_arrival_at or posted_at
  Named,            \* <<p, b>>: the description of b names the processor of p
  Late,             \* the rows that are not ingested yet
  Runs, Patches,
  Deployments       \* the storages, loads and faults considered

None == "none"
Rows == Payouts \cup Banks

ASSUME RowAssumption ==
  /\ Payouts \cap Banks = {} /\ Credits \subseteq Banks /\ Late \subseteq Rows
  /\ None \notin Rows /\ IsFiniteSet(Rows)
ASSUME DataAssumption == Amount \in [Rows -> Nat] /\ Day \in [Rows -> Int]
ASSUME DeploymentsAssumption ==
  Deployments \subseteq [storage: {"postgres", "memory"}, serial: BOOLEAN,
                         faults: SUBSET {"database"}]

VARIABLES
  deployment,
  stored,   \* the ingested rows
  run,      \* where a run is
  pays,     \* the payouts it listed
  deps,     \* the deposits among the transactions it listed
  todo,     \* the payouts it has not walked over
  match,    \* its reconciliation_matches: the deposit of a payout
  exc,      \* its reconciliation_exceptions: the status of a row's exception
  count,    \* its exception_count
  patch,    \* where a PATCH is
  at,       \* the run and the row of the exception it names
  want,     \* the status it sets
  saw       \* the open exceptions it counted

walk == <<pays, deps, todo, match>>
patching == <<patch, at, want, saw>>
reconciliationVars == <<deployment, stored, run, walk, exc, count, patching>>

Storage == deployment.storage   \* DATABASE_URL is set and reachable, or not
Serial == deployment.serial     \* the PATCHes come one after the other
Faults == deployment.faults     \* a statement of a transaction may fail

Statuses == {"open", "resolved"}

ReconciliationTypeOK ==
  /\ deployment \in Deployments
  /\ stored \subseteq Rows
  /\ run \in [Runs -> {"new", "listing", "matching", "done", "failed"}]
  /\ pays \in [Runs -> SUBSET Payouts]
  /\ deps \in [Runs -> SUBSET Credits]
  /\ todo \in [Runs -> SUBSET Payouts]
  /\ match \in [Runs -> [Payouts -> Banks \cup {None}]]
  /\ exc \in [Runs -> [Rows -> Statuses \cup {None}]]
  /\ count \in [Runs -> Nat]
  /\ patch \in [Patches -> {"new", "updated", "counted", "written", "done"}]
  /\ at \in [Patches -> (Runs \cup {None}) \X (Rows \cup {None})]
  /\ want \in [Patches -> Statuses]
  /\ saw \in [Patches -> Nat]

ReconciliationInit ==
  /\ deployment \in Deployments
  /\ stored = Rows \ Late
  /\ run = [r \in Runs |-> "new"]
  /\ pays = [r \in Runs |-> {}]
  /\ deps = [r \in Runs |-> {}]
  /\ todo = [r \in Runs |-> {}]
  /\ match = [r \in Runs |-> [p \in Payouts |-> None]]
  /\ exc = [r \in Runs |-> [x \in Rows |-> None]]
  /\ count = [r \in Runs |-> 0]
  /\ patch = [q \in Patches |-> "new"]
  /\ at = [q \in Patches |-> <<None, None>>]
  /\ want = [q \in Patches |-> "resolved"]
  /\ saw = [q \in Patches |-> 0]

-----------------------------------------------------------------------------
(* The score of a pair, in thousandths.                                    *)
Least(m, n) == IF m <= n THEN m ELSE n
Most(m, n) == IF m >= n THEN m ELSE n
Distance(m, n) == Most(m, n) - Least(m, n)

AmountScore(p, b) ==
  LET base == Most(Amount[p], 1)
      gap  == Least(Distance(Amount[b], Amount[p]), base)
  IN  700 - (700 * gap) \div base

DateScore(p, b) == 200 - 40 * Least(Distance(Day[b], Day[p]), 5)

DescriptionScore(p, b) == IF <<p, b>> \in Named THEN 200 ELSE 0

Score(p, b) == AmountScore(p, b) + DateScore(p, b) + DescriptionScore(p, b)

Threshold == 880

Good(p, b) == Score(p, b) >= Threshold

(* Rows of a table come latest first, in any order within an instant; the  *)
(* entries of a Go map come in any order.                                  *)
Before(x, y) == Storage = "memory" \/ Day[x] >= Day[y]

First(x, xs) == x \in xs /\ \A y \in xs : Before(x, y)

Free(r) == {b \in deps[r] : \A p \in Payouts : match[r][p] # b}

(* Mutant: any deposit that is good enough.                                *)
AnyGood(r, p) == {b \in Free(r) : Good(p, b)}

(* The strict ">" keeps the first of the deposits with the best score.     *)
Best(r, p) ==
  LET top == {b \in Free(r) : \A c \in Free(r) : Score(p, b) >= Score(p, c)}
  IN  {b \in top : First(b, top)}

Open(x) == Cardinality({i \in DOMAIN x : x[i] = "open"})

(* Memory: the run holds the store's lock from its listing to its end.     *)
Locked == Storage = "memory" /\ \E r \in Runs : run[r] = "matching"

-----------------------------------------------------------------------------
(* A sync or an import brings a row.                                       *)
Ingest(x) ==
  /\ ~ Locked
  /\ x \notin stored
  /\ stored' = stored \cup {x}
  /\ UNCHANGED <<deployment, run, walk, exc, count, patching>>

ListPayouts(r) ==
  /\ Storage = "postgres" /\ run[r] = "new"
  /\ run' = [run EXCEPT ![r] = "listing"]
  /\ pays' = [pays EXCEPT ![r] = stored \cap Payouts]
  /\ todo' = [todo EXCEPT ![r] = stored \cap Payouts]
  /\ UNCHANGED <<deployment, stored, deps, match, exc, count, patching>>

ListBankTransactions(r) ==
  /\ run[r] = "listing"
  /\ run' = [run EXCEPT ![r] = "matching"]
  /\ deps' = [deps EXCEPT ![r] = stored \cap Credits]
  /\ UNCHANGED <<deployment, stored, pays, todo, match, exc, count, patching>>

(* Memory: one lock is taken for both tables.                              *)
LockStore(r) ==
  /\ Storage = "memory" /\ ~ Locked /\ run[r] = "new"
  /\ run' = [run EXCEPT ![r] = "matching"]
  /\ pays' = [pays EXCEPT ![r] = stored \cap Payouts]
  /\ todo' = [todo EXCEPT ![r] = stored \cap Payouts]
  /\ deps' = [deps EXCEPT ![r] = stored \cap Credits]
  /\ UNCHANGED <<deployment, stored, match, exc, count, patching>>

(* The next payout takes its best deposit.                                 *)
MatchPayout(r, p, b) ==
  /\ run[r] = "matching" /\ First(p, todo[r])
  /\ b \in Best(r, p) /\ Good(p, b)
  /\ todo' = [todo EXCEPT ![r] = @ \ {p}]
  /\ match' = [match EXCEPT ![r][p] = b]
  /\ UNCHANGED <<deployment, stored, run, pays, deps, exc, count, patching>>

(* Mutant: only a deposit of the very amount will do.                      *)
ExceptUnlessExact(r, p) ==
  /\ run[r] = "matching" /\ First(p, todo[r])
  /\ \A b \in Free(r) : Amount[b] = Amount[p] => ~ Good(p, b)
  /\ todo' = [todo EXCEPT ![r] = @ \ {p}]
  /\ exc' = [exc EXCEPT ![r][p] = "open"]
  /\ count' = [count EXCEPT ![r] = @ + 1]
  /\ UNCHANGED <<deployment, stored, run, pays, deps, match, patching>>

(* Or there is no good one.                                                *)
ExceptPayout(r, p) ==
  /\ run[r] = "matching" /\ First(p, todo[r])
  /\ \A b \in Free(r) : ~ Good(p, b)
  /\ todo' = [todo EXCEPT ![r] = @ \ {p}]
  /\ exc' = [exc EXCEPT ![r][p] = "open"]
  /\ count' = [count EXCEPT ![r] = @ + 1]
  /\ UNCHANGED <<deployment, stored, run, pays, deps, match, patching>>

(* Mutant: the deposits that are left are counted, and not written.        *)
CompleteCountingOnly(r) ==
  /\ run[r] = "matching" /\ todo[r] = {}
  /\ run' = [run EXCEPT ![r] = "done"]
  /\ count' = [count EXCEPT ![r] = @ + Cardinality(Free(r))]
  /\ UNCHANGED <<deployment, stored, walk, exc, patching>>

(* The deposits that are left become exceptions, and the run commits.      *)
Complete(r) ==
  /\ run[r] = "matching" /\ todo[r] = {}
  /\ run' = [run EXCEPT ![r] = "done"]
  /\ exc' = [exc EXCEPT ![r] = [x \in Rows |-> IF x \in Free(r) THEN "open" ELSE @[x]]]
  /\ count' = [count EXCEPT ![r] = @ + Cardinality(Free(r))]
  /\ UNCHANGED <<deployment, stored, walk, patching>>

(* A statement fails, or the process stops: nothing is kept.               *)
FailRun(r) ==
  /\ "database" \in Faults /\ Storage = "postgres"
  /\ run[r] \in {"listing", "matching"}
  /\ run' = [run EXCEPT ![r] = "failed"]
  /\ match' = [match EXCEPT ![r] = [p \in Payouts |-> None]]
  /\ exc' = [exc EXCEPT ![r] = [x \in Rows |-> None]]
  /\ count' = [count EXCEPT ![r] = 0]
  /\ UNCHANGED <<deployment, stored, pays, deps, todo, patching>>

-----------------------------------------------------------------------------
InTransaction(q) == patch[q] \in {"updated", "counted", "written"}

(* The first UPDATE locks the exception's row until the transaction ends.  *)
UpdateRow(q, r, x, s) ==
  /\ Storage = "postgres" /\ patch[q] = "new"
  /\ run[r] = "done" /\ exc[r][x] # None
  /\ \A o \in Patches : InTransaction(o) => at[o] # <<r, x>> /\ ~ Serial
  /\ patch' = [patch EXCEPT ![q] = "updated"]
  /\ at' = [at EXCEPT ![q] = <<r, x>>]
  /\ want' = [want EXCEPT ![q] = s]
  /\ UNCHANGED <<deployment, stored, run, walk, exc, count, saw>>

(* Mutant: the statement does not see the transaction's own update.        *)
CountBefore(q) ==
  /\ patch[q] = "updated"
  /\ patch' = [patch EXCEPT ![q] = "counted"]
  /\ saw' = [saw EXCEPT ![q] = Open(exc[at[q][1]])]
  /\ UNCHANGED <<deployment, stored, run, walk, exc, count, at, want>>

(* The second UPDATE counts in the snapshot of its own start, which has    *)
(* what is committed and this transaction's update.                        *)
CountOpen(q) ==
  /\ patch[q] = "updated"
  /\ patch' = [patch EXCEPT ![q] = "counted"]
  /\ saw' = [saw EXCEPT ![q] = Open([exc[at[q][1]] EXCEPT ![at[q][2]] = want[q]])]
  /\ UNCHANGED <<deployment, stored, run, walk, exc, count, at, want>>

(* It waits for the run's row, and sets what it counted.                   *)
WriteCount(q) ==
  /\ patch[q] = "counted"
  /\ \A o \in Patches : patch[o] = "written" => at[o][1] # at[q][1]
  /\ patch' = [patch EXCEPT ![q] = "written"]
  /\ UNCHANGED <<deployment, stored, run, walk, exc, count, at, want, saw>>

CommitPatch(q) ==
  /\ patch[q] = "written"
  /\ patch' = [patch EXCEPT ![q] = "done"]
  /\ exc' = [exc EXCEPT ![at[q][1]][at[q][2]] = want[q]]
  /\ count' = [count EXCEPT ![at[q][1]] = saw[q]]
  /\ UNCHANGED <<deployment, stored, run, walk, at, want, saw>>

FailPatch(q) ==
  /\ "database" \in Faults /\ InTransaction(q)
  /\ patch' = [patch EXCEPT ![q] = "done"]
  /\ UNCHANGED <<deployment, stored, run, walk, exc, count, at, want, saw>>

(* Memory: one step under the lock; the run's count stays as it is.        *)
PatchInMemory(q, r, x, s) ==
  /\ Storage = "memory" /\ ~ Locked /\ patch[q] = "new"
  /\ run[r] = "done" /\ exc[r][x] # None
  /\ patch' = [patch EXCEPT ![q] = "done"]
  /\ exc' = [exc EXCEPT ![r][x] = s]
  /\ UNCHANGED <<deployment, stored, run, walk, count, at, want, saw>>

-----------------------------------------------------------------------------
RunStep(r) ==
  \/ ListPayouts(r) \/ ListBankTransactions(r) \/ LockStore(r)
  \/ \E p \in Payouts, b \in Banks : MatchPayout(r, p, b)
  \/ \E p \in Payouts : ExceptPayout(r, p)
  \/ Complete(r) \/ FailRun(r)

PatchStep(q) ==
  \/ \E r \in Runs, x \in Rows, s \in Statuses : UpdateRow(q, r, x, s)
  \/ CountOpen(q) \/ WriteCount(q) \/ CommitPatch(q) \/ FailPatch(q)
  \/ \E r \in Runs, x \in Rows, s \in Statuses : PatchInMemory(q, r, x, s)

ReconciliationNext ==
  \/ \E x \in Rows : Ingest(x)
  \/ \E r \in Runs : RunStep(r)
  \/ \E q \in Patches : PatchStep(q)

ReconciliationSpec == ReconciliationInit /\ [][ReconciliationNext]_reconciliationVars

-----------------------------------------------------------------------------
Walking(r) == run[r] \in {"matching", "done"}
Walked(r) == pays[r] \ todo[r]

(* No deposit settles two payouts of a run: a matched deposit is not       *)
(* offered to the payouts that follow.                                     *)
OnceIn(r) ==
  \A p1, p2 \in Payouts : match[r][p1] = match[r][p2] /\ match[r][p1] # None => p1 = p2

(* A finished run has told what became of every payout and every deposit   *)
(* that it listed: it is matched, or it has an exception, and not both.    *)
(* No debit is touched.  (The two loops of Reconcile.)                     *)
EveryRowToldBy(r) ==
  run[r] = "done" =>
    /\ \A p \in pays[r] : match[r][p] # None <=> exc[r][p] = None
    /\ \A b \in deps[r] : b \notin Free(r) <=> exc[r][b] = None
    /\ \A x \in Rows \ (pays[r] \cup deps[r]) : exc[r][x] = None

(* If a matched payout would have scored better with another deposit, that *)
(* deposit went to a payout that comes no later in the list.               *)
NoEnvyIn(r) ==
  Walking(r) =>
    \A p \in Walked(r), b \in deps[r] :
      match[r][p] # None /\ ~ (Score(p, match[r][p]) >= Score(p, b)) =>
        \E p2 \in Walked(r) : match[r][p2] = b /\ Before(p2, p)

(* What a run has written before it ends.                                  *)
Told(r) ==
  /\ todo[r] \subseteq pays[r]
  /\ run[r] \in {"new", "listing", "failed"} =>
       /\ \A p \in Payouts : match[r][p] = None
       /\ \A x \in Rows : exc[r][x] = None
  /\ run[r] \in {"new", "listing"} => todo[r] = pays[r]
  /\ run[r] = "done" => todo[r] = {}
  /\ Walking(r) =>
       /\ \A p \in Payouts \ Walked(r) : match[r][p] = None /\ exc[r][p] = None
       /\ \A p \in Walked(r) : match[r][p] # None <=> exc[r][p] = None
       /\ \A p \in Payouts : match[r][p] # None => match[r][p] \in deps[r]
  /\ run[r] = "matching" => \A b \in Banks : exc[r][b] = None

(* A payout that was left found no good deposit, and none comes back.      *)
FoundNone(r) ==
  Walking(r) =>
    \A p \in Walked(r), b \in Free(r) : match[r][p] = None => ~ Good(p, b)

(* The payouts that are left come no earlier than those walked over.       *)
InOrder(r) == Walking(r) => \A p \in Walked(r), p2 \in todo[r] : Before(p, p2)

RunInv(r) ==
  Told(r) /\ OnceIn(r) /\ FoundNone(r) /\ InOrder(r) /\ NoEnvyIn(r) /\ EveryRowToldBy(r)

(* A PATCH in its transaction is at an exception of a finished run.        *)
AtException ==
  \A q \in Patches : InTransaction(q) =>
    at[q] \in Runs \X Rows /\ run[at[q][1]] = "done" /\ exc[at[q][1]][at[q][2]] # None

(* Types, runs and PATCHes together: the inductive invariant.              *)
ReconciliationInv == ReconciliationTypeOK /\ AtException /\ \A r \in Runs : RunInv(r)

(* What a PATCH counted, the run's exceptions with its own one set, lasts  *)
(* until it commits if no other PATCH is in its transaction; and before a  *)
(* run ends too, its count is that of its draft.                           *)
Counted(q) == Open([exc[at[q][1]] EXCEPT ![at[q][2]] = want[q]])

CountInv == Storage = "postgres" /\ Serial =>
  /\ \A q, o \in Patches : InTransaction(q) /\ InTransaction(o) => q = o
  /\ \A q \in Patches : patch[q] \in {"counted", "written"} => saw[q] = Counted(q)
  /\ \A r \in Runs : count[r] = Open(exc[r])

-----------------------------------------------------------------------------
(* Every listed payout and deposit of a finished run is accounted for once *)
(* (insertMatch and insertException of Reconcile).                         *)
RowsAreAccounted == \A r \in Runs : OnceIn(r) /\ EveryRowToldBy(r)

(* A payout and a deposit that score enough for each other are never both  *)
(* left as exceptions of one run, whatever the greedy walk gave away.      *)
NothingMissed ==
  \A r \in Runs : run[r] = "done" =>
    \A p \in pays[r], b \in Free(r) : match[r][p] = None => ~ Good(p, b)

(* A payout settles for less than its best deposit only because the best   *)
(* went to a payout that the list puts no later (reconciliationScore and   *)
(* the strict comparison in Reconcile).                                    *)
NoEnvy == \A r \in Runs : NoEnvyIn(r)

(* The exception_count that the dashboard shows for a run is the number of *)
(* its exceptions that are open, after any resolving and reopening over    *)
(* Postgres, one PATCH after the other.                                    *)
CountIsOpen == Storage = "postgres" /\ Serial =>
  \A r \in Runs : run[r] = "done" => count[r] = Open(exc[r])
=============================================================================
