-------------------------- MODULE PortfolioEngine --------------------------
(***************************************************************************)
(* What the portfolio engine computes from a set of holdings: prices, the  *)
(* summary, allocations, performance and the findings on concentration.    *)
(* Amounts are whole numbers, and a percentage is in tenths, rounded as    *)
(* the engine rounds it.                                                   *)
(***************************************************************************)
EXTENDS Sums, Sequences

CONSTANTS
  Price,      \* the quote of a symbol: of the fixed table, and 100 outside of it
  Kind,       \* the security type of a symbol
  Cash        \* the symbols that stand for cash

ASSUME PriceAssumption == \A s \in DOMAIN Price : Price[s] \in Int

(* math.Round: a half goes away from zero.                                 *)
Nearest(n, d) ==
  IF n >= 0 THEN (2 * n + d) \div (2 * d) ELSE -((d - 2 * n) \div (2 * d))

Value(hs) == SumOver([h \in hs |-> h.value])

(* PriceHoldings: a holding without a value is worth its quote.            *)
Quoted(h) == IF h.value = 0 THEN [h EXCEPT !.value = h.quantity * Price[h.symbol]] ELSE h
Priced(hs) == {Quoted(h) : h \in hs}

(* A holding whose account is not there counts as "other".                 *)
AccountType(h, accts) ==
  LET known == {i \in 1..Len(accts) : accts[i].id = h.account}
  IN  IF known = {} THEN "other" ELSE accts[CHOOSE i \in known : TRUE].type

ByType(hs, accts) == [h \in hs |-> AccountType(h, accts)]

(* The value of the holdings that a grouping puts under each name.         *)
ValueBy(group) ==
  [name \in {group[h] : h \in DOMAIN group} |->
     Value({h \in DOMAIN group : group[h] = name})]

(* allocationBy: the value of each name, and its tenths of a percent.      *)
AllocationBy(group) ==
  LET total == Value(DOMAIN group)
      by == ValueBy(group)
  IN  [name \in DOMAIN by |->
         [value |-> by[name], percent |-> IF total > 0 THEN Nearest(by[name] * 1000, total) ELSE 0]]

Allocation(hs, accts) ==
  [account |-> AllocationBy(ByType(hs, accts)),
   kind |-> AllocationBy([h \in hs |-> Kind[h.symbol]]),
   symbol |-> AllocationBy([h \in hs |-> h.symbol])]

(* Mutant: a holding whose account is gone is left out of the breakdown.   *)
SummaryOfKnown(hs, accts) ==
  LET cash == {h \in hs : Kind[h.symbol] = "cash" \/ h.symbol \in Cash}
      known == {h \in hs : AccountType(h, accts) # "other"}
  IN  [total |-> Value(hs),
       cost |-> SumOver([h \in hs |-> h.cost * h.quantity]),
       cash |-> Value(cash),
       invested |-> Value(hs \ cash),
       byAccount |-> ValueBy(ByType(known, accts))]

(* BuildSummary, but for what follows from these: gain, top holdings.      *)
Summary(hs, accts) ==
  LET cash == {h \in hs : Kind[h.symbol] = "cash" \/ h.symbol \in Cash} IN
  [total |-> Value(hs),
   cost |-> SumOver([h \in hs |-> h.cost * h.quantity]),
   cash |-> Value(cash),
   invested |-> Value(hs \ cash),
   byAccount |-> ValueBy(ByType(hs, accts))]

(* BuildPerformance: what came in and went out, and the rest as a return.  *)
Size(n) == IF n < 0 THEN -n ELSE n
Flow(ts, kinds) ==
  SumOver([t \in {u \in ts : u.trade.kind \in kinds} |-> Size(t.trade.amount)])

Performance(hs, ts) ==
  LET in == Flow({t \in ts : t.trade.amount >= 0}, {"deposit", "transfer"})
      out == Flow(ts, {"withdrawal"})
  IN  [deposits |-> in, withdrawals |-> out,
       dividends |-> Flow(ts, {"dividend"}), fees |-> Flow(ts, {"fee"}),
       contributions |-> in - out, return |-> Value(hs) - (in - out)]

(* The first of the symbols, ordered by value, is above 25%.               *)
SingleAbove25(bySymbol) == \E s \in DOMAIN bySymbol : bySymbol[s].percent > 250

(* The first five of them are above 60% together.                          *)
TopFiveAbove60(bySymbol) ==
  \E top \in SUBSET DOMAIN bySymbol :
    /\ Cardinality(top) <= 5
    /\ SumOver([s \in top |-> bySymbol[s].percent]) > 600

(* ConcentrationRisk, with nothing said of holdings without value.         *)
Findings(hs, risk) ==
  LET total == Value(hs)
      bySymbol == Allocation(hs, <<>>).symbol
      stock == Value({h \in hs : Kind[h.symbol] = "stock"})
  IN  IF total = 0 THEN {}
      ELSE {f \in {"single", "top_five", "mismatch"} :
              \/ f = "single" /\ SingleAbove25(bySymbol)
              \/ f = "top_five" /\ TopFiveAbove60(bySymbol)
              \/ f = "mismatch" /\ risk = "conservative"
                 /\ IF total > 0 THEN 4 * stock > 3 * total ELSE 4 * stock < 3 * total}

Suggestions(findings) == IF findings = {} THEN {"diversified"} ELSE findings
=============================================================================
