------------------------------ MODULE Insights ------------------------------
(***************************************************************************)
(* What the API makes of an organization's payments, payouts, bank         *)
(* transactions, fees and refunds: the explanation of a payout, anomalies, *)
(* the forecast, spending, cash recommendations, the scores of payouts     *)
(* against deposits, a reconciliation run, and the cash and month reports. *)
(*                                                                         *)
(* A report is an operator on a snapshot s of the five tables with the day *)
(* it is read on.  Amounts are in minor units and dates are days; payouts  *)
(* and bank transactions have a currency, whose spelling some reports mind *)
(* and some do not.  Rows that come in any order make an operator give the *)
(* set of what can come out.  Ratios are compared exactly, where the code  *)
(* divides floating-point numbers.                                         *)
(***************************************************************************)
EXTENDS Sums, SequencesExt

None == "none"
NoDeposit == [key |-> None]

Total(rows) == SumOver([r \in rows |-> r.amount])
Distance(m, n) == IF m <= n THEN n - m ELSE m - n
Exceeds(part, whole, percent) == whole > 0 /\ 100 * part > percent * whole

Credits(s) == {b \in s.banks : b.direction = "credit"}
Debits(s) == s.banks \ Credits(s)

(* Postgres lists a table latest first, memory in any order.               *)
Firsts(s, bs) == {b \in bs : s.ordered => \A c \in bs : c.day <= b.day}

Near(p, b) == p.currency = b.currency /\ Distance(p.amount, b.amount) <= 500
Reached(p, s) == {b \in Credits(s) : Near(p, b)}

-----------------------------------------------------------------------------
(* Mutant: a refunded payment is left out.                                 *)
GrossOfSucceeded(p, s) ==
  Total({r \in s.payments : r.status = "succeeded"})

(* A payout explained: the first deposit within five units of money of it, *)
(* and everything the organization was paid, charged and refunded.         *)
Gross(p, s) ==
  IF Total(s.payments) = 0 THEN p.amount + Total(s.fees) + Total(s.refunds)
  ELSE Total(s.payments)

Doubts(p, s) ==
  (IF Exceeds(Total(s.fees), Gross(p, s), 5) THEN {"high_fees"} ELSE {})
  \cup (IF Exceeds(Total(s.refunds), Gross(p, s), 10) THEN {"high_refunds"} ELSE {})

Warnings(p, b) ==
  (IF b.amount # p.amount THEN {"amount_differs"} ELSE {})
  \cup (IF b.day - p.day > 3 THEN {"delayed"} ELSE {})

Explain(p, s) ==
  LET of(b, warnings) ==
        [payout |-> p.key, gross |-> Gross(p, s), fees |-> Total(s.fees),
         refunds |-> Total(s.refunds), net |-> p.amount, deposit |-> b,
         warnings |-> warnings \cup Doubts(p, s)]
  IN  IF Reached(p, s) = {} THEN {of(None, {"no_deposit"})}
      ELSE {of(b.key, Warnings(p, b)) : b \in Firsts(s, Reached(p, s))}

-----------------------------------------------------------------------------
Flag(type, severity, of) == [type |-> type, severity |-> severity, of |-> of]

Matched(s) == UNION {Reached(p, s) : p \in s.payouts}

(* A payout is delayed three days after it was due, matched or not.        *)
DetectAnomalies(s) ==
  {Flag("missing_payout", "high", p.key) : p \in {p \in s.payouts : Reached(p, s) = {}}}
  \cup {Flag("delayed_payout", "medium", p.key) : p \in {p \in s.payouts : p.day < s.today - 3}}
  \cup {Flag("unmatched_deposit", "medium", b.key) : b \in Credits(s) \ Matched(s)}
  \cup (IF Exceeds(Total(s.fees), Total(s.payouts), 5)
        THEN {Flag("high_processor_fee", "medium", None)} ELSE {})
  \cup (IF Exceeds(Total(s.refunds), Total(s.payouts), 10)
        THEN {Flag("high_refund_rate", "medium", None)} ELSE {})

(* What to do about an anomaly; the reserve is all that was ever spent.    *)
Advice ==
  [unmatched_deposit |-> [type |-> "follow_up_unmatched_deposit", priority |-> "medium"],
   missing_payout |-> [type |-> "follow_up_unmatched_deposit", priority |-> "high"],
   high_refund_rate |-> [type |-> "review_refunds", priority |-> "medium"],
   high_processor_fee |-> [type |-> "reduce_fees", priority |-> "medium"]]

Reserve(s) == IF Total(Debits(s)) = 0 THEN 420000 ELSE Total(Debits(s))

Cash(s) ==
  [reserve |-> Reserve(s),
   todo |-> {Advice[a.type] : a \in {a \in DetectAnomalies(s) : a.type \in DOMAIN Advice}}]

-----------------------------------------------------------------------------
(* Mutant: payouts are due whether they were paid or not.                  *)
Due(s, by) == {p \in s.payouts : p.day <= by}

Pending(s, by) == {p \in s.payouts : p.status # "paid" /\ p.day <= by}
Balance(s) == Total(Credits(s)) - Total(Debits(s))

(* The balance day by day: the average of the last 60 days, and the        *)
(* pending payouts due from tomorrow on.                                   *)
Build(horizon, s) ==
  LET recent == {b \in s.banks : b.day > s.today - 60}
      daily  == Total(recent \cap Credits(s)) \div 60 - Total(recent \cap Debits(s)) \div 60
      due(i) == Total(Pending(s, s.today + i) \ Pending(s, s.today))
      days   == IF horizon \in {7, 30, 60, 90} THEN horizon ELSE 30
      series == [i \in 1..days |-> Balance(s) + i * daily + due(i)]
  IN  [start |-> Balance(s), series |-> series, end |-> series[days],
       confidence |-> IF Cardinality(recent) < 5 THEN "low" ELSE "medium"]

Categorize(words) ==
  IF words \cap {"software", "saas"} # {} THEN "software"
  ELSE IF words \cap {"venue", "rent"} # {} THEN "facilities"
  ELSE IF words \cap {"food", "restaurant"} # {} THEN "food"
  ELSE "other"

(* The spending of a period, with the category it was most in.             *)
Spending(s, from, to) ==
  LET spent == {b \in Debits(s) : from <= b.day /\ b.day <= to}
      names == {Categorize(b.words) : b \in spent}
      in(c) == Total({b \in spent : Categorize(b.words) = c})
  IN  [total |-> Total(spent), categories |-> [c \in names |-> in(c)],
       largest |-> {c \in names : \A d \in names : in(d) <= in(c)}]

CashSummary(s) ==
  [cash |-> Balance(s), income |-> Total(Credits(s)), expenses |-> Total(Debits(s)),
   pending |-> Total({p \in s.payouts : p.status # "paid"}),
   fees |-> Total(s.fees), refunds |-> Total(s.refunds),
   net |-> Total(Credits(s)) - Total(Debits(s)) - Total(s.fees) - Total(s.refunds)]

CashForecast(s) ==
  [days \in {7, 30, 60} |->
     Balance(s) + Total(Pending(s, s.today + days)) - (IF days >= 30 THEN 45000 ELSE 0)]

(* Refunds and fees are taken from what the successful payments brought.   *)
MonthlyReport(s) ==
  [net |-> Total({p \in s.payments : p.status = "succeeded"})
             - Total(s.refunds) - Total(s.fees),
   payouts |-> Total(s.payouts)]

-----------------------------------------------------------------------------
Mentions(b) == "stripe" \in b.words
Apart(p, b) == Distance(p.day, b.day)

(* Currencies as a score compares them, in whatever case they are written. *)
Folded == [USD |-> "USD", usd |-> "USD", CAD |-> "CAD"]
SameCurrency(p, b) == Folded[p.currency] = Folded[b.currency]

Tolerance(s) ==
  LET total == 250 + Total(s.fees) + Total(s.refunds) IN IF total < 500 THEN 500 ELSE total

(* A payout against a deposit, in hundredths.                              *)
AmountPoints(p, b, s) ==
  CASE b.amount = p.amount -> 45
    [] b.amount # p.amount /\ Distance(p.amount, b.amount) <= Tolerance(s) -> 30
    [] OTHER -> 0

DatePoints(p, b) == CASE Apart(p, b) <= 2 -> 25 [] Apart(p, b) \in 3..5 -> 10 [] OTHER -> 0

Points(p, b, s) ==
  IF ~ SameCurrency(p, b) THEN 20
  ELSE 25 + AmountPoints(p, b, s) + DatePoints(p, b) + (IF Mentions(b) THEN 5 ELSE 0)

(* Mutant: a fair score is a match, however the amounts differ.            *)
StatusWithoutAmount(p, b, s) ==
  IF Points(p, b, s) >= 65 THEN "matched" ELSE "unresolved"

Status(p, b, s) ==
  LET points == Points(p, b, s) IN
  IF ~ SameCurrency(p, b) THEN "currency_mismatch"
  ELSE IF points >= 90 /\ b.amount = p.amount THEN "matched"
  ELSE IF Apart(p, b) \in 3..5 THEN "date_mismatch"
  ELSE IF AmountPoints(p, b, s) = 30 THEN "amount_mismatch"
  ELSE IF points >= 65 THEN "likely_match"
  ELSE IF b.amount # p.amount THEN "amount_mismatch"
  ELSE "unresolved"

BestScored(p, s) ==
  Firsts(s, {b \in Credits(s) : \A c \in Credits(s) : Points(p, c, s) <= Points(p, b, s)})

(* Each payout with its best deposit, another payout's or not, if that     *)
(* scores enough, and the rows that are left over.                         *)
Scored(s, best) ==
  LET good == {p \in DOMAIN best : Points(p, best[p], s) >= 50} IN
  {[payout |-> p.key, deposit |-> best[p].key, status |-> Status(p, best[p], s)] : p \in good}
  \cup {[payout |-> p.key, deposit |-> None, status |-> "missing_payout"] :
          p \in s.payouts \ good}
  \cup {[payout |-> None, deposit |-> b.key, status |-> "unmatched_deposit"] :
          b \in Credits(s) \ {best[p] : p \in good}}

ScoreAll(s) ==
  {Scored(s, best) : best \in
     {f \in [s.payouts -> Credits(s)] : \A p \in s.payouts : f[p] \in BestScored(p, s)}}

-----------------------------------------------------------------------------
(* A reconciliation run scores a pair in its own way, here in thousandths  *)
(* and rounded down ...                                                    *)
Confidence(p, b) ==
  LET gap == IF Distance(p.amount, b.amount) < p.amount
             THEN Distance(p.amount, b.amount) ELSE p.amount
  IN  700 - (700 * gap + p.amount - 1) \div p.amount
        + (IF Apart(p, b) < 5 THEN 200 - 40 * Apart(p, b) ELSE 0)
        + (IF Mentions(b) THEN 200 ELSE 0)

TakenFrom(left, p) ==
  LET best == Max({0} \cup {Confidence(p, b) : b \in left}) IN
  {b \in left : best >= 880 /\ Confidence(p, b) = best}

(* ... and matches payouts in turn, each with the best that is left or     *)
(* with none.                                                              *)
Matchings(s) ==
  LET credits == Credits(s)
      orders  == {order \in SetToSeqs(s.payouts) : s.ordered =>
                    \A i, j \in DOMAIN order : i < j => order[j].day <= order[i].day}
  IN  {m \in [s.payouts -> credits \cup {NoDeposit}] : \E order \in orders :
         \A i \in DOMAIN order :
           LET taken == TakenFrom(credits \ {m[order[j]] : j \in 1..(i - 1)}, order[i])
           IN  IF taken = {} THEN m[order[i]] = NoDeposit ELSE m[order[i]] \in taken}
=============================================================================
