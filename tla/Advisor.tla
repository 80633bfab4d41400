------------------------------ MODULE Advisor ------------------------------
(***************************************************************************)
(* What the advisor computes from a set of transactions: merchants and     *)
(* categories, cash flow, subscriptions, anomalies and the plan.           *)
(*                                                                         *)
(* Text is the set of the keywords it contains.  Amounts are whole, and an *)
(* average over the months is kept as the sum it is the average of; a plan *)
(* is in hundredths of that sum, so that what the code rounds is exact.    *)
(***************************************************************************)
EXTENDS Sums, Sequences

CONSTANTS
  Rule,         \* NormalizeMerchant's rules: the name a keyword stands for
  Spelling,     \* the keywords a name contains, in lower case
  MonthOf       \* the month of a day

ASSUME RuleAssumption == IsFiniteSet(DOMAIN Rule)

Total(ts) == SumOver([t \in ts |-> t.amount])
Expenses(ts) == {t \in ts : t.direction = "expense"}
Least(m, n) == IF m < n THEN m ELSE n
Positive(n) == IF n > 0 THEN n ELSE 0
RoundedRatio(n, d) == (2 * n + d) \div (2 * d)

(* The rules are a Go map, which is walked in any order: of the rules that *)
(* apply any can be the first.                                             *)
NormalizeMerchant(text) ==
  IF text \cap DOMAIN Rule = {} THEN {text} ELSE {Rule[w] : w \in text \cap DOMAIN Rule}

Keywords(name) == IF name \in DOMAIN Spelling THEN Spelling[name] ELSE name

Sorting ==
  <<[words |-> {"payroll", "salary", "deposit"}, category |-> "Income"],
    [words |-> {"rent", "landlord"}, category |-> "Housing"],
    [words |-> {"grocery", "supermarket"}, category |-> "Groceries"],
    [words |-> {"uber eats", "doordash", "mcdonald", "starbucks", "restaurant"}, category |-> "Food"],
    [words |-> {"uber", "lyft", "transit"}, category |-> "Transportation"],
    [words |-> {"netflix", "spotify", "apple", "youtube"}, category |-> "Subscriptions"],
    [words |-> {"amazon", "walmart"}, category |-> "Shopping"]>>

(* The first case that has a word of the name or the description.          *)
Categorize(name, text, direction) ==
  LET hits == {i \in 1..Len(Sorting) : Sorting[i].words \cap (Keywords(name) \cup text) # {}}
  IN  IF hits # {} THEN Sorting[CHOOSE i \in hits : \A j \in hits : i <= j].category
      ELSE IF direction = "income" THEN "Income" ELSE "Other"

Fixed == {"Housing", "Subscriptions", "Insurance", "Utilities", "Debt"}
Essential == {"Housing", "Groceries", "Transportation", "Insurance", "Utilities", "Debt"}

Months(ts) == {MonthOf[t.day] : t \in ts}
MonthCount(ts) == IF ts = {} THEN 1 ELSE Cardinality(Months(ts))

(* CashFlow: sums over all months; safe and buffer are of one month.       *)
CashFlow(ts) ==
  LET income == Total({t \in ts : t.direction = "income"})
      fixed == Total({t \in Expenses(ts) : t.category \in Fixed})
      variable == Total({t \in Expenses(ts) : t.category \notin Fixed})
      net == income - fixed - variable
      months == MonthCount(ts)
      safe == Positive(RoundedRatio(7 * net, 10 * months))
  IN  [income |-> income, fixed |-> fixed, variable |-> variable, net |-> net,
       safe |-> safe, buffer |-> Positive(RoundedRatio(net - months * safe, months))]

(* What was spent, by category or by merchant.                             *)
Breakdown(ts, field) ==
  [k \in {t[field] : t \in Expenses(ts)} |-> Total({t \in Expenses(ts) : t[field] = k})]

Distance(m, n) == IF m < n THEN n - m ELSE m - n

(* Neighbours of one merchant in the order of their days.                  *)
Consecutive(rows) ==
  {p \in rows \X rows :
     /\ p[1].day < p[2].day
     /\ ~ \E t \in rows : p[1].day < t.day /\ t.day < p[2].day}

(* A month apart, and within 15% of the earlier amount.                    *)
Recurs(s, t) ==
  /\ t.day - s.day \in 25..35
  /\ 100 * Distance(s.amount, t.amount) <= 15 * (IF s.amount > 1 THEN s.amount ELSE 1)

Subscriptions(ts) ==
  {m \in {t.merchant : t \in Expenses(ts)} :
     \E p \in Consecutive({t \in Expenses(ts) : t.merchant = m}) : Recurs(p[1], p[2])}

(* More than two standard deviations above the mean of its category, both  *)
(* sides multiplied by the number of transactions and squared.             *)
Spikes(ts) ==
  {t \in Expenses(ts) :
     LET same == {s \in Expenses(ts) : s.category = t.category}
         n == Cardinality(same)
         total == Total(same)
         above(s) == n * s.amount - total
         variance == SumOver([s \in same |-> above(s) * above(s)])
     IN  n >= 2 /\ variance > 0 /\ above(t) > 0 /\ above(t) * above(t) * n > 4 * variance}

(* Mutant: charges of different days only.                                 *)
LaterDuplicates(ts) ==
  {p \in Expenses(ts) \X Expenses(ts) :
     p[1] # p[2] /\ p[1].merchant = p[2].merchant /\ p[1].amount = p[2].amount
     /\ Distance(p[1].day, p[2].day) \in 1..3}

(* Pairs of one merchant and amount, at most 72 hours apart.               *)
DuplicateCharges(ts) ==
  {p \in Expenses(ts) \X Expenses(ts) :
     p[1] # p[2] /\ p[1].merchant = p[2].merchant /\ p[1].amount = p[2].amount
     /\ Distance(p[1].day, p[2].day) <= 3}

(* Mutant: the last month that is only in part needed is not counted.      *)
EmergencyRoundedDown(profile, ts) ==
  LET essential == Total({t \in Expenses(ts) : t.category \in Essential})
      asked == IF profile.targetMonths = 0 THEN 6 ELSE profile.targetMonths
      gap == Positive(100 * essential * asked - 100 * MonthCount(ts) * profile.fund)
      monthly == Least(gap, Positive(35 * CashFlow(ts).net))
  IN  [gap |-> gap, monthly |-> monthly,
       months |-> IF monthly > 0 THEN gap \div monthly ELSE 0]

(* EmergencyFund, in hundredths of the sum over the months.                *)
EmergencyFund(profile, ts) ==
  LET essential == Total({t \in Expenses(ts) : t.category \in Essential})
      asked == IF profile.targetMonths = 0 THEN 6 ELSE profile.targetMonths
      gap == Positive(100 * essential * asked - 100 * MonthCount(ts) * profile.fund)
      monthly == Least(gap, Positive(35 * CashFlow(ts).net))
  IN  [gap |-> gap, monthly |-> monthly,
       months |-> IF monthly > 0 THEN (gap + monthly - 1) \div monthly ELSE 0]

(* MonthlyAllocation, in hundredths of the sum and before it is rounded.   *)
MonthlyAllocation(profile, ts) ==
  LET net == Positive(CashFlow(ts).net)
      emergency == Least(35 * net, EmergencyFund(profile, ts).gap)
      debt == IF profile.debt THEN 25 * net ELSE 0
      investing == IF profile.debt THEN 30 * net ELSE 35 * net
      short == 18 * net
  IN  [emergency |-> emergency, debt |-> debt, investing |-> investing, short |-> short,
       buffer |-> Positive(100 * net - emergency - debt - investing - short)]

(* InvestmentProjection: a balance after n months at a yearly rate in      *)
(* percent, rounded down to the unit every month.                          *)
Balance(initial, monthly, rate, n) ==
  LET b[m \in 0..n] == IF m = 0 THEN initial
                       ELSE ((b[m - 1] + monthly) * (1200 + rate)) \div 1200
  IN  b[n]

ExpectedRate(risk) ==
  CASE risk = "conservative" -> 4 [] risk = "aggressive" -> 8 [] OTHER -> 6

Projection(monthly, initial, years, risk) ==
  LET n == 12 * (IF years <= 0 THEN 30 ELSE years)
      r == ExpectedRate(risk)
  IN  [lower |-> Balance(initial, monthly, r - 2, n),
       expected |-> Balance(initial, monthly, r, n),
       upper |-> Balance(initial, monthly, r + 2, n),
       contributions |-> initial + monthly * n]
=============================================================================
