------------------------------ MODULE Finance ------------------------------
(***************************************************************************)
(* The portfolio and the transactions of one user side by side, and what   *)
(* the engine and the advisor make of them.  Transactions are kept in      *)
(* memory over both kinds of storage; an import adds rows under the lock   *)
(* and looks for none that are there.                                      *)
(***************************************************************************)
EXTENDS Portfolio, Advisor

CONSTANTS
  Statements,   \* the bank statements that can be imported
  Entries,      \* the transactions that can be entered by hand
  Profiles,     \* advisor profiles
  MaxRead,      \* statements come first: the numbers they can have
  Years         \* how far a projection goes

ASSUME StatementsAssumption == \A f \in Statements :
  IsSequence(f) /\ \A i \in DOMAIN f : f[i].readable => {f[i].amount, f[i].day} \subseteq Int
ASSUME EntriesAssumption == \A r \in Entries : {r.amount, r.day} \subseteq Int
ASSUME ProfilesAssumption == \A p \in Profiles : {p.targetMonths, p.fund} \subseteq Int
ASSUME ReadAssumption == MaxRead \in 0..MaxNumber /\ Years \in Int

VARIABLE transactions

financeVars == <<portfolioVars, transactions>>

FinanceInit == PortfolioInit /\ transactions = {}

(* A line that has an amount and a date; the sign says which way it goes.  *)
StatementRow(l) ==
  [text |-> l.text, category |-> l.category, day |-> l.day, amount |-> Size(l.amount),
   direction |-> IF l.amount < 0 THEN "expense" ELSE "income"]

(* A category, and after it a direction, are made up where there is none.  *)
Normalized(r, id, name) ==
  [id |-> id, text |-> r.text, merchant |-> name, day |-> r.day,
   category |-> IF r.category = "" THEN Categorize(name, r.text, r.direction) ELSE r.category,
   direction |-> IF r.direction # "" THEN r.direction
                 ELSE IF r.amount < 0 THEN "expense" ELSE "income",
   amount |-> IF r.direction = "" THEN Size(r.amount) ELSE r.amount]

(* Rows are stored together, each under one of the names it may be given.  *)
Store(q, rs) ==
  /\ MayBegin(q) /\ used < MaxRead
  /\ used' = used + 1
  /\ \E name \in [1..Len(rs) -> UNION {NormalizeMerchant(rs[i].text) : i \in 1..Len(rs)}] :
       /\ \A i \in 1..Len(rs) : name[i] \in NormalizeMerchant(rs[i].text)
       /\ transactions' = transactions \cup
            {Normalized(rs[i], <<used + 1, i>>, name[i]) : i \in 1..Len(rs)}
  /\ UNCHANGED <<storage, serial, edits, rows, job>>

StatementRows(lines) == [i \in DOMAIN Readable(lines) |-> StatementRow(Readable(lines)[i])]

ImportTransactions(q, lines) == Store(q, StatementRows(lines))

CreateTransaction(q, r) == Store(q, <<r>>)

PatchCategory(q, t, category) ==
  /\ MayEdit(q) /\ t \in transactions
  /\ transactions' = (transactions \ {t}) \cup {[t EXCEPT !.category = category]}
  /\ UNCHANGED <<storage, serial, used, rows, job>>

DeleteTransaction(q, t) ==
  /\ MayEdit(q) /\ t \in transactions
  /\ transactions' = transactions \ {t}
  /\ UNCHANGED <<storage, serial, used, rows, job>>

FinanceNext ==
  \/ PortfolioNext /\ UNCHANGED transactions
  \/ \E q \in Requests :
       \/ \E f \in Statements : ImportTransactions(q, f)
       \/ \E r \in Entries : CreateTransaction(q, r)
       \/ \E t \in transactions : DeleteTransaction(q, t) \/ PatchCategory(q, t, "Other")

FinanceSpec == FinanceInit /\ [][FinanceNext]_financeVars

-----------------------------------------------------------------------------
(* What is read: holdings at their quotes, and what the handlers report.   *)
Held == Priced(holdings)

portfolioRisk(p) == Findings(Held, p.risk)
categories == Breakdown(transactions, "category")
merchants == Breakdown(transactions, "merchant")
subscriptions == Subscriptions(transactions)
anomalies == Spikes(transactions)
duplicates == DuplicateCharges(transactions)

AdvisorPlan(p) ==
  [flow |-> CashFlow(transactions), allocation |-> MonthlyAllocation(p, transactions),
   fund |-> EmergencyFund(p, transactions)]

(* The account breakdown, cash and investments and every allocation cover  *)
(* the total, holdings whose account is gone included, and the percentages *)
(* miss 100 by no more than their rounding.                                *)
EngineAddsUp ==
  LET s == Summary(Held, accounts)
      a == Allocation(Held, accounts)
      percent(x) == SumOver([k \in DOMAIN x |-> x[k].percent])
  IN  /\ s.total = s.cash + s.invested
      /\ s.total = SumOver(s.byAccount)
      /\ \A x \in {a.account, a.kind, a.symbol} :
           /\ SumOver([k \in DOMAIN x |-> x[k].value]) = s.total
           /\ s.total > 0 => 2 * Distance(percent(x), 1000) <= Cardinality(DOMAIN x)

(* Fewer than four symbols are always reported as concentrated, and nobody *)
(* with value in fewer than nine is told to be diversified.                *)
SmallIsConcentrated ==
  \A p \in Profiles :
    LET f == portfolioRisk(p)
        n == Cardinality({h.symbol : h \in Held})
    IN  Value(Held) > 0 =>
          /\ n < 4 => "single" \in f
          /\ n < 9 => "diversified" \notin Suggestions(f)

(* The engine's reports agree with the holdings and with each other, in any*)
(* state that interleaved requests leave.                                  *)
EngineAgrees == EngineAddsUp /\ SmallIsConcentrated

(* Over Postgres, and if requests do not overlap, a deposit that is in     *)
(* several files, or twice in one, counts once in the contributions.       *)
ContributedOnce == serial /\ storage = "postgres" =>
  LET once == {[trade |-> t.trade, account |-> t.account] : t \in trades}
  IN  Performance(Held, trades).contributions = Performance(Held, once).contributions

(* What is looked for before it is stored is not stored twice: the default *)
(* account, the holding of a symbol, and a deposit.                        *)
NoDuplicates == OneDefault /\ OneImported /\ ContributedOnce

-----------------------------------------------------------------------------
(* The breakdowns by category and by merchant and the cash flow agree on   *)
(* what was spent.                                                         *)
SpendingAddsUp ==
  LET c == CashFlow(transactions)
  IN  /\ SumOver(categories) = c.fixed + c.variable
      /\ SumOver(merchants) = c.fixed + c.variable

(* A statement imported twice is seen: each expense of it is reported as a *)
(* possible duplicate, if its merchant can be read in one way only.        *)
ReimportIsFlagged ==
  \A s, t \in Expenses(transactions) :
    /\ s # t /\ s.text = t.text /\ s.amount = t.amount /\ s.day = t.day
    /\ Cardinality(NormalizeMerchant(s.text)) = 1
    => <<s, t>> \in duplicates

(* And it changes nothing in what is taken for a subscription.             *)
ReimportKeepsSubscriptions ==
  subscriptions = Subscriptions({[t EXCEPT !.id = <<>>] : t \in transactions})

(* What is imported twice is reported, and misleads nobody.                *)
ReimportIsSeen == ReimportIsFlagged /\ ReimportKeepsSubscriptions

(* Two deviations above the mean take a category of six: in a smaller one  *)
(* no amount, however large, is reported.                                  *)
SpikeNeedsSix ==
  \A t \in anomalies :
    Cardinality({s \in Expenses(transactions) : s.category = t.category}) >= 6

(* The fund is filled in the months the plan says, and not in one less.    *)
FundIsReached ==
  \A p \in Profiles :
    LET e == EmergencyFund(p, transactions)
    IN  e.monthly > 0 => e.monthly * e.months >= e.gap /\ e.monthly * (e.months - 1) < e.gap

(* Without high-interest debt the parts of the plan are the whole of the   *)
(* net cash flow and no more.                                              *)
PlanFitsNet ==
  \A p \in Profiles : ~ p.debt =>
    LET plan == AdvisorPlan(p) IN SumOver(plan.allocation) = 100 * Positive(plan.flow.net)

(* projectedGrowth: half of the net cash flow, on top of a portfolio that  *)
(* is not short; it lies between its bounds and above what was paid in.    *)
ProjectionOrdered ==
  Value(Held) >= 0 => \A p \in Profiles :
    LET monthly == Positive(CashFlow(transactions).net) \div (2 * MonthCount(transactions))
        g == Projection(monthly, Value(Held), Years, p.risk)
    IN  g.contributions <= g.lower /\ g.lower <= g.expected /\ g.expected <= g.upper

(* What the advisor says of the same transactions in several places is     *)
(* consistent: spending, spikes, the fund, the plan and the projection.    *)
AdvisorAgrees ==
  SpendingAddsUp /\ SpikeNeedsSix /\ FundIsReached /\ PlanFitsNet /\ ProjectionOrdered
=============================================================================
