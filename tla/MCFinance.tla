----------------------------- MODULE MCFinance -----------------------------
EXTENDS Finance, TLC

CONSTANTS q1, q2

TwoRequests == {q1, q2}
Symmetry == Permutations(TwoRequests)
BothLoads == BOOLEAN
BothStorages == {"postgres", "memory"}

HoldingLine(s, q, c, p, v) ==
  [readable |-> s # "", symbol |-> s, quantity |-> q, cost |-> c, price |-> p, value |-> v]
TradeLine(t, a) == [readable |-> TRUE, text |-> t, amount |-> a]

(* One file repeats a symbol, the other has a second one and a deposit.    *)
TwoFiles == {
  [holdings |-> <<HoldingLine("VOO", 2, 3, 4, 9), HoldingLine("", 1, 0, 0, 0), HoldingLine("VOO", 1, 3, 0, 0)>>,
   trades |-> <<>>, parts |-> {"holdings"}],
  [holdings |-> <<HoldingLine("CASH", 5, 1, 1, 0), HoldingLine("VOO", 1, 0, 0, 7)>>,
   trades |-> <<TradeLine({"contribution"}, 20)>>,
   parts |-> {"holdings", "trades"}]}
(* Sold short: its value, at its quote, is below zero.                     *)
ByHand == {[symbol |-> "AAPL", quantity |-> -1, cost |-> 3, value |-> 0]}
OnePatch == {[quantity |-> 0, cost |-> 0, value |-> 8]}
OneType == {"RRSP"}

Prices == [s \in {"VOO", "CASH", "AAPL"} |-> IF s = "CASH" THEN 1 ELSE IF s = "VOO" THEN 5 ELSE 2]
Kinds == [s \in {"VOO", "CASH", "AAPL"} |->
            IF s = "CASH" THEN "cash" ELSE IF s = "VOO" THEN "etf" ELSE "stock"]
CashSymbols == {"CASH"}

Rules == [w \in {"uber eats", "uber", "netflix"} |->
            CASE w = "uber eats" -> {"Uber Eats"} [] w = "uber" -> {"Uber"} [] OTHER -> {"Netflix"}]
Spellings == [n \in {{"Uber Eats"}, {"Uber"}, {"Netflix"}} |->
                CASE n = {"Uber Eats"} -> {"uber eats", "uber"}
                  [] n = {"Uber"} -> {"uber"} [] OTHER -> {"netflix"}]
Calendar == [d \in 1..62 |-> (d + 30) \div 31]

StatementLine(t, a, d) == [readable |-> TRUE, text |-> t, category |-> "", amount |-> a, day |-> d]

(* A month's pay, rent and a subscription that goes on; groceries with one *)
(* large bill; and, by hand, a merchant that is read in two ways.          *)
TwoStatements == {
  <<StatementLine({"payroll"}, 90, 1), StatementLine({"rent"}, -20, 2), [readable |-> FALSE],
    StatementLine({"netflix"}, -10, 5), StatementLine({"netflix"}, -11, 35)>>,
  <<StatementLine({"payroll"}, 31, 1)>> \o
    [i \in 1..6 |-> StatementLine({"grocery"}, IF i = 6 THEN -9 ELSE -1, 7 * i)]}
OneEntry == {[text |-> {"uber eats", "uber"}, category |-> "", direction |-> "", amount |-> -4, day |-> 3]}

TwoProfiles == {[targetMonths |-> 0, fund |-> 7, debt |-> FALSE, risk |-> "moderate"],
                [targetMonths |-> 1, fund |-> 0, debt |-> TRUE, risk |-> "conservative"]}
=============================================================================
