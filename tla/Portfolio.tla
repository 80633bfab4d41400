----------------------------- MODULE Portfolio -----------------------------
(***************************************************************************)
(* Brokerage accounts, holdings and portfolio transactions of one user:    *)
(* the default account, imports, and changes to single rows.               *)
(*                                                                         *)
(* Over Postgres an import is one READ COMMITTED transaction: a row of the *)
(* file deletes the holdings of its symbol that its statement sees, its    *)
(* own earlier ones too, and inserts one; a trade is inserted unless its   *)
(* statement sees the same.  What it deleted stays locked and what it      *)
(* inserted stays unseen until it commits.  Over the memory store an       *)
(* import adds all of its rows under the lock and replaces nothing.        *)
(*                                                                         *)
(* A row is numbered by the request that makes it and its place in the     *)
(* file.  Names, currencies and dates are left out.                        *)
(***************************************************************************)
EXTENDS PortfolioEngine

CONSTANTS
  Files,        \* what can be imported, line by line
  Manual,       \* the holdings a user can enter
  Patches,      \* the changes a user can make to one
  Types,        \* the types of account a user can create
  Requests,
  MaxNumber,    \* requests that make rows
  MaxEdits,     \* requests that change or delete one
  Storages,     \* "postgres", "memory" or both
  Loads         \* whether the requests come one by one: one Boolean or both

ASSUME StoragesAssumption == Storages \subseteq {"postgres", "memory"}
ASSUME LoadsAssumption == Loads \subseteq BOOLEAN
ASSUME BoundAssumption == MaxNumber \in Nat /\ MaxEdits \in Nat

IsSequence(s) == s \in Seq({s[i] : i \in DOMAIN s})

(* What can be read of a line is a number, of either sign.                 *)
ASSUME FilesAssumption == \A f \in Files :
  /\ f.parts \subseteq {"holdings", "trades"}
  /\ IsSequence(f.holdings) /\ IsSequence(f.trades)
  /\ \A i \in DOMAIN f.holdings : LET l == f.holdings[i] IN
       l.readable => /\ l.symbol \in DOMAIN Price
                     /\ {l.quantity, l.cost, l.price, l.value} \subseteq Int
  /\ \A i \in DOMAIN f.trades : f.trades[i].readable => f.trades[i].amount \in Int

ASSUME ManualAssumption ==
  Manual \subseteq [symbol : DOMAIN Price, quantity : Int, cost : Int, value : Int]
ASSUME PatchesAssumption == Patches \subseteq [quantity : Int, cost : Int, value : Int]

VARIABLES
  storage, serial,
  used,         \* the requests that have taken a number
  edits,        \* and those that have changed or deleted a row
  accounts,     \* brokerage_accounts, the oldest first
  holdings,
  trades,       \* portfolio_transactions
  imports,      \* raw_imports
  job           \* what each request is doing

rows == <<accounts, holdings, trades, imports>>
portfolioVars == <<storage, serial, used, edits, rows, job>>

Idle == [pc |-> "idle"]

Ids == (1..MaxNumber) \X Nat
AccountOK(a) == a.id \in 1..MaxNumber /\ a.type \in Types \cup {"TFSA"} /\ a.default \in BOOLEAN

PortfolioTypeOK ==
  /\ storage \in Storages /\ serial \in Loads
  /\ used \in 0..MaxNumber /\ edits \in 0..MaxEdits
  /\ \A i \in 1..Len(accounts) : AccountOK(accounts[i])
  /\ \A i, j \in 1..Len(accounts) : accounts[i].id = accounts[j].id => i = j
  /\ \A h \in holdings : h.id \in Ids /\ h.account \in 1..MaxNumber
  /\ \A h, k \in holdings : h.id = k.id => h = k
  /\ \A t \in trades : t.id \in Ids /\ t.account \in 1..MaxNumber
  /\ \A m \in imports : m.bad \in Nat /\ m.good \in Nat /\ m.number \in 1..MaxNumber
  /\ \A q \in Requests : job[q].pc \in
       {"idle", "ensure", "open", "ready", "store", "delete", "patch"}

PortfolioInit ==
  /\ storage \in Storages /\ serial \in Loads
  /\ used = 0 /\ edits = 0
  /\ accounts = <<>> /\ holdings = {} /\ trades = {} /\ imports = {}
  /\ job = [q \in Requests |-> Idle]

-----------------------------------------------------------------------------
AtWork(q) == job[q].pc # "idle"
MayBegin(q) == ~ AtWork(q) /\ (serial => \A o \in Requests : ~ AtWork(o))
MayEdit(q) == MayBegin(q) /\ edits < MaxEdits /\ edits' = edits + 1
Becomes(q, j) == job' = [job EXCEPT ![q] = j]

AccountIds == {accounts[i].id : i \in 1..Len(accounts)}

(* What a transaction has locked and what it has yet to show.              *)
Locked(q) == IF job[q].pc \in {"store", "delete"} THEN job[q].gone ELSE {}
LockedByOther(q) == UNION {Locked(o) : o \in Requests \ {q}}
LocksAccount(q, a) == /\ job[q].pc \in {"store", "delete"}
                      /\ job[q].account = a
                      /\ job[q].gone \cup job[q].new \cup job[q].newTrades # {}

-----------------------------------------------------------------------------
(* A user's own account, added last.                                       *)
CreateAccount(q, type) ==
  /\ MayBegin(q) /\ used < MaxNumber
  /\ used' = used + 1
  /\ accounts' = Append(accounts, [id |-> used + 1, type |-> type, default |-> FALSE])
  /\ UNCHANGED <<storage, serial, edits, holdings, trades, imports, job>>

Without(s, i) == [k \in 1..(Len(s) - 1) |-> s[IF k < i THEN k ELSE k + 1]]

(* Postgres deletes the rows of an account with it, once no transaction    *)
(* holds them; the memory store deletes the account alone.                 *)
DeleteAccount(q, i) ==
  LET a == accounts[i].id IN
  /\ MayEdit(q)
  /\ \A o \in Requests : ~ LocksAccount(o, a)
  /\ accounts' = Without(accounts, i)
  /\ IF storage = "postgres"
     THEN /\ holdings' = {h \in holdings : h.account # a}
          /\ trades' = {t \in trades : t.account # a}
     ELSE UNCHANGED <<holdings, trades>>
  /\ UNCHANGED <<storage, serial, used, imports, job>>

(* A line without units or without a symbol is left out.  A value is made  *)
(* of a price if there is none, and a cost of a value.                     *)
HoldingRow(l) ==
  LET value == IF l.value = 0 /\ l.price > 0 THEN l.quantity * l.price ELSE l.value
  IN  [symbol |-> l.symbol, quantity |-> l.quantity, value |-> value,
       cost |-> IF l.cost = 0 /\ value > 0 /\ l.quantity > 0 THEN value \div l.quantity ELSE l.cost]

(* The lines that are kept, in their order.                                *)
Readable(lines) ==
  LET kept[i \in 0..Len(lines)] ==
        IF i = 0 THEN <<>>
        ELSE IF lines[i].readable THEN Append(kept[i - 1], lines[i]) ELSE kept[i - 1]
  IN  kept[Len(lines)]

HoldingRows(lines) == [i \in DOMAIN Readable(lines) |-> HoldingRow(Readable(lines)[i])]

Activities ==
  <<[words |-> {"buy", "purchase"}, kind |-> "buy"], [words |-> {"sell"}, kind |-> "sell"],
    [words |-> {"dividend", "distribution"}, kind |-> "dividend"],
    [words |-> {"deposit", "contribution"}, kind |-> "deposit"],
    [words |-> {"withdraw"}, kind |-> "withdrawal"],
    [words |-> {"fee", "commission"}, kind |-> "fee"],
    [words |-> {"transfer"}, kind |-> "transfer"], [words |-> {"split"}, kind |-> "split"]>>

(* The first kind of activity that has a word of the text.                 *)
KindOfTrade(text) ==
  LET hits == {i \in 1..Len(Activities) : Activities[i].words \cap text # {}}
  IN  IF hits = {} THEN "other" ELSE Activities[CHOOSE i \in hits : \A j \in hits : i <= j].kind

(* A line without a date or an activity is left out.                       *)
TradeRow(l) == [kind |-> KindOfTrade(l.text), amount |-> l.amount]
TradeRows(lines) == [i \in DOMAIN Readable(lines) |-> TradeRow(Readable(lines)[i])]

(* One error for each line left out, or for a file with nothing in it.     *)
Unread(lines) ==
  IF lines = <<>> THEN 1 ELSE Cardinality({i \in 1..Len(lines) : ~ lines[i].readable})

Read(f) ==
  [holdings |-> HoldingRows(f.holdings), trades |-> TradeRows(f.trades),
   bad |-> SumOver([part \in f.parts |-> Unread(f[part])])]

Imports == {Read(f) : f \in Files}

(* An import, or a holding entered without an account, asks for the        *)
(* default account first.                                                  *)
Begin(q, what) ==
  /\ MayBegin(q) /\ used < MaxNumber
  /\ used' = used + 1
  /\ Becomes(q, [pc |-> "ensure", number |-> used + 1, what |-> what])
  /\ UNCHANGED <<storage, serial, edits, rows>>

Ready(j, a) == [pc |-> "ready", number |-> j.number, what |-> j.what, account |-> a]

(* The default is the oldest account, of whatever type, over Postgres; in  *)
(* memory it is the first of a map, that is any.                           *)
FindDefault(q) ==
  /\ job[q].pc = "ensure"
  /\ \E i \in 1..Len(accounts) :
       /\ storage = "postgres" => i = 1
       /\ Becomes(q, Ready(job[q], accounts[i].id))
  /\ UNCHANGED <<storage, serial, used, edits, rows>>

(* There is none.  The memory store makes one under the same hold of the   *)
(* lock, Postgres with a statement of its own.                             *)
FindNone(q) ==
  /\ job[q].pc = "ensure" /\ accounts = <<>> /\ storage = "postgres"
  /\ Becomes(q, [job[q] EXCEPT !.pc = "open"])
  /\ UNCHANGED <<storage, serial, used, edits, rows>>

OpenDefault(q) ==
  /\ \/ job[q].pc = "open"
     \/ job[q].pc = "ensure" /\ accounts = <<>> /\ storage = "memory"
  /\ accounts' = Append(accounts, [id |-> job[q].number, type |-> "TFSA", default |-> TRUE])
  /\ Becomes(q, Ready(job[q], job[q].number))
  /\ UNCHANGED <<storage, serial, used, edits, holdings, trades, imports>>

HoldingOf(r, number, i, a, manual) ==
  [id |-> <<number, i>>, account |-> a, symbol |-> r.symbol, manual |-> manual,
   quantity |-> r.quantity, cost |-> r.cost, value |-> r.value]

TradeOf(t, number, i, a) == [id |-> <<number, i>>, account |-> a, trade |-> t]

HasAccount(a) == storage = "memory" \/ a \in AccountIds

(* One insert, at its quote; Postgres refuses it without the account.      *)
CreateHolding(q) ==
  /\ job[q].pc = "ready" /\ job[q].what \in Manual
  /\ holdings' = IF HasAccount(job[q].account)
                 THEN holdings \cup {HoldingOf(Quoted(job[q].what), job[q].number, 0,
                                               job[q].account, TRUE)}
                 ELSE holdings
  /\ Becomes(q, Idle)
  /\ UNCHANGED <<storage, serial, used, edits, accounts, trades, imports>>

Places(s) == 1..Len(s)

(* What raw_imports says of an import: the rows read, not the rows kept.   *)
ImportOf(j) == [number |-> j.number, bad |-> j.what.bad,
                good |-> Len(j.what.holdings) + Len(j.what.trades)]

(* All the rows of a file, under the lock.                                 *)
ImportToMemory(q) ==
  LET j == job[q] IN
  /\ j.pc = "ready" /\ j.what \in Imports /\ storage = "memory"
  /\ holdings' = holdings \cup
       {HoldingOf(j.what.holdings[i], j.number, i, j.account, FALSE) : i \in Places(j.what.holdings)}
  /\ trades' = trades \cup
       {TradeOf(j.what.trades[i], j.number, i, j.account) : i \in Places(j.what.trades)}
  /\ imports' = imports \cup {ImportOf(j)}
  /\ Becomes(q, Idle)
  /\ UNCHANGED <<storage, serial, used, edits, accounts>>

(* Over Postgres the transaction begins.                                   *)
BeginTx(q) ==
  LET j == job[q] IN
  /\ j.pc = "ready" /\ j.what \in Imports /\ storage = "postgres"
  /\ Becomes(q, [pc |-> "store", number |-> j.number, what |-> j.what, account |-> j.account,
                 i |-> 1, k |-> 1, gone |-> {}, new |-> {}, newTrades |-> {}, seen |-> {}])
  /\ UNCHANGED <<storage, serial, used, edits, rows>>

Visible(q) == (holdings \ job[q].gone) \cup job[q].new

(* The next row of the file, and the holdings its delete sees.             *)
Line(j) == j.what.holdings[j.i]
Matching(q) == {h \in Visible(q) : h.account = job[q].account /\ h.symbol = Line(job[q]).symbol}

(* The row is inserted when what was seen, and still is there, is deleted. *)
Replaced(j, seen) ==
  [j EXCEPT !.pc = "store", !.i = @ + 1, !.seen = {},
            !.gone = @ \cup (seen \cap holdings),
            !.new = (@ \ seen) \cup {HoldingOf(Line(j), j.number, j.i, j.account, FALSE)}]

(* Mutant: the row is inserted and nothing is deleted.                     *)
InsertHolding(q) ==
  /\ job[q].pc = "store" /\ job[q].i <= Len(job[q].what.holdings)
  /\ HasAccount(job[q].account)
  /\ Becomes(q, Replaced(job[q], {}))
  /\ UNCHANGED <<storage, serial, used, edits, rows>>

(* Mutant: the statements run outside of the transaction.                  *)
ReplaceAtOnce(q) ==
  /\ job[q].pc = "store" /\ job[q].i <= Len(job[q].what.holdings)
  /\ HasAccount(job[q].account)
  /\ holdings' = (holdings \ Matching(q)) \cup
       {HoldingOf(Line(job[q]), job[q].number, job[q].i, job[q].account, FALSE)}
  /\ Becomes(q, [job[q] EXCEPT !.i = @ + 1])
  /\ UNCHANGED <<storage, serial, used, edits, accounts, trades, imports>>

(* DELETE, and INSERT after it; nobody else's rows are in the way.         *)
ReplaceHolding(q) ==
  /\ job[q].pc = "store" /\ job[q].i <= Len(job[q].what.holdings)
  /\ HasAccount(job[q].account)
  /\ Matching(q) \cap LockedByOther(q) = {}
  /\ Becomes(q, Replaced(job[q], Matching(q)))
  /\ UNCHANGED <<storage, serial, used, edits, rows>>

(* A row to delete is locked: the statement keeps to what it has seen, and *)
(* goes on when the lock is gone.                                          *)
WaitForLock(q) ==
  /\ job[q].pc = "store" /\ job[q].i <= Len(job[q].what.holdings)
  /\ Matching(q) \cap LockedByOther(q) # {}
  /\ Becomes(q, [job[q] EXCEPT !.pc = "delete", !.seen = Matching(q)])
  /\ UNCHANGED <<storage, serial, used, edits, rows>>

LockGone(q) ==
  /\ job[q].pc = "delete"
  /\ job[q].seen \cap LockedByOther(q) = {}
  /\ HasAccount(job[q].account)
  /\ Becomes(q, Replaced(job[q], job[q].seen))
  /\ UNCHANGED <<storage, serial, used, edits, rows>>

SameTrade(s, t) == s.account = t.account /\ s.trade = t.trade

InsertTrade(q) ==
  LET j == job[q]
      t == TradeOf(j.what.trades[j.k], j.number, j.k, j.account)
  IN  /\ j.pc = "store" /\ j.i > Len(j.what.holdings) /\ j.k <= Len(j.what.trades)
      /\ IF \E s \in trades \cup j.newTrades : SameTrade(s, t)
         THEN Becomes(q, [j EXCEPT !.k = @ + 1])
         ELSE HasAccount(j.account) /\ Becomes(q, [j EXCEPT !.k = @ + 1, !.newTrades = @ \cup {t}])
      /\ UNCHANGED <<storage, serial, used, edits, rows>>

Commit(q) ==
  LET j == job[q] IN
  /\ j.pc = "store" /\ j.i > Len(j.what.holdings) /\ j.k > Len(j.what.trades)
  /\ holdings' = (holdings \ j.gone) \cup j.new
  /\ trades' = trades \cup j.newTrades
  /\ imports' = imports \cup {ImportOf(j)}
  /\ Becomes(q, Idle)
  /\ UNCHANGED <<storage, serial, used, edits, accounts>>

(* A statement fails, for want of the account, as the victim of a deadlock *)
(* or with the connection: a transaction is rolled back.                   *)
Fail(q) ==
  /\ AtWork(q) /\ storage = "postgres"
  /\ Becomes(q, Idle)
  /\ UNCHANGED <<storage, serial, used, edits, rows>>

(* A field of a patch that is 0 leaves the row's as it is.                 *)
Patched(h, p) ==
  [h EXCEPT !.quantity = IF p.quantity # 0 THEN p.quantity ELSE @,
            !.cost = IF p.cost # 0 THEN p.cost ELSE @,
            !.value = IF p.value # 0 THEN p.value ELSE @]

Rewritten(h) == {k \in holdings : k.id # h.id} \cup
                IF \E k \in holdings : k.id = h.id THEN {h} ELSE {}

PatchInMemory(q, h, p) ==
  /\ MayEdit(q) /\ h \in holdings /\ storage = "memory"
  /\ holdings' = Rewritten(Patched(h, p))
  /\ UNCHANGED <<storage, serial, used, accounts, trades, imports, job>>

(* Over Postgres the row is read, and the whole of it is written later.    *)
ReadToPatch(q, h, p) ==
  /\ MayEdit(q) /\ h \in holdings /\ storage = "postgres"
  /\ Becomes(q, [pc |-> "patch", row |-> Patched(h, p)])
  /\ UNCHANGED <<storage, serial, used, rows>>

WritePatch(q) ==
  /\ job[q].pc = "patch"
  /\ \A h \in LockedByOther(q) : h.id # job[q].row.id
  /\ holdings' = Rewritten(job[q].row)
  /\ Becomes(q, Idle)
  /\ UNCHANGED <<storage, serial, used, edits, accounts, trades, imports>>

DeleteHolding(q, h) ==
  /\ MayEdit(q) /\ h \in holdings \ LockedByOther(q)
  /\ holdings' = holdings \ {h}
  /\ UNCHANGED <<storage, serial, used, accounts, trades, imports, job>>

ImportStep(q) ==
  \/ FindDefault(q) \/ FindNone(q) \/ OpenDefault(q)
  \/ CreateHolding(q) \/ ImportToMemory(q)
  \/ BeginTx(q) \/ ReplaceHolding(q) \/ WaitForLock(q) \/ LockGone(q) \/ InsertTrade(q)
  \/ Commit(q) \/ Fail(q) \/ WritePatch(q)

PortfolioNext ==
  \/ \E q \in Requests :
       \/ ImportStep(q)
       \/ \E what \in Imports \cup Manual : Begin(q, what)
       \/ \E type \in Types : CreateAccount(q, type)
       \/ \E i \in 1..Len(accounts) : DeleteAccount(q, i)
       \/ \E h \in holdings :
            \/ DeleteHolding(q, h)
            \/ \E p \in Patches : PatchInMemory(q, h, p) \/ ReadToPatch(q, h, p)

-----------------------------------------------------------------------------
(* Over Postgres, and if requests do not overlap, a symbol of an account   *)
(* has one imported holding, however often and in what files it comes.     *)
OneImported == serial /\ storage = "postgres" =>
  \A h, k \in holdings :
    ~ h.manual /\ ~ k.manual /\ h.account = k.account /\ h.symbol = k.symbol => h = k

(* Nothing of an import that failed stays: an imported row has its row in  *)
(* raw_imports, through overlapping imports, deadlocks and failures.       *)
NothingHalfImported ==
  \A r \in {h \in holdings : ~ h.manual} \cup trades :
    \E m \in imports : m.number = r.id[1]

(* Over Postgres every row has its account, whatever is deleted meanwhile. *)
NoOrphans == storage = "postgres" =>
  \A r \in holdings \cup trades : r.account \in AccountIds

(* What holds of the store under any interleaving and failure.             *)
StoreOK == PortfolioTypeOK /\ NothingHalfImported /\ NoOrphans

(* A user has one default account, always over the memory store and over   *)
(* Postgres if requests do not overlap.                                    *)
OneDefault == serial \/ storage = "memory" =>
  \A i, j \in 1..Len(accounts) : accounts[i].default /\ accounts[j].default => i = j
=============================================================================
