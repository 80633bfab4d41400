---------------------------- MODULE IntakeProofs ----------------------------
(***************************************************************************)
(* Proofs about what comes in from outside: the webhooks of providers, and *)
(* the files, the entries and the statements of a user.  They are for any  *)
(* deliveries, events, files, prices, rules and profiles, in either store, *)
(* for any number of requests and under every failure.                     *)
(***************************************************************************)
EXTENDS Webhooks, Finance, SumsProofs

(***************************************************************************)
(* The webhooks of providers.                                              *)
(***************************************************************************)
(* The actions that move one delivery on without inserting its event.      *)
Onward(d) ==
  \/ EmitReceived(d) \/ EnqueueJob(d) \/ SkipJob(d) \/ Answer(d)

(* At the start nothing is stored.                                         *)
LEMMA InitIInv == Init => IInv
BY DEF Init, IInv, TypeOK, SavedIsLate, AtWorkIsSaved, Late,
       PersistedBeforeWork, Once

(* A new row of plaid_items concerns no delivery.                          *)
LEMMA LinkStep ==
  ASSUME IInv, NEW i \in Items, NEW o \in Orgs, Link(i, o)
  PROVE  IInv'
BY DEF Link, IInv, TypeOK, SavedIsLate, AtWorkIsSaved, Late,
       PersistedBeforeWork, Once, SameEvent

(* A delivery that is refused, fails or finds its event saved leaves the   *)
(* stored rows alone.                                                      *)
LEMMA EarlyStep ==
  ASSUME IInv, NEW d \in Deliveries,
         Refuse(d) \/ SaveError(d) \/ SaveKnown(d) \/ FindOrg(d)
  PROVE  IInv'
<1>1. CASE Refuse(d) \/ SaveError(d) \/ SaveKnown(d)
  BY <1>1 DEF Refuse, SaveError, SaveKnown, Finish, Goto, IInv, TypeOK,
              SavedIsLate, AtWorkIsSaved, Late, PersistedBeforeWork, Once, SameEvent
<1>2. CASE FindOrg(d)
  <2>1. org' \in [Deliveries -> Orgs \cup {NoOrg}]
    BY <1>2, OrgAssumption DEF FindOrg, FindOrgOfItem, IInv, TypeOK
  <2>2. pc[d] = "new" /\ pc' = [pc EXCEPT ![d] = "found"]
    BY <1>2 DEF FindOrg, Goto
  <2>3. UNCHANGED <<deployment, linked, saved, outbox, jobs, reply>>
    BY <1>2 DEF FindOrg
  <2> QED
    BY <2>1, <2>2, <2>3 DEF IInv, TypeOK, SavedIsLate, AtWorkIsSaved, Late,
                            PersistedBeforeWork, Once, SameEvent
<1> QED BY <1>1, <1>2

(* The insert: its guard is that no delivery of the event has inserted it. *)
LEMMA SaveStep ==
  ASSUME IInv, NEW d \in Deliveries, SaveNew(d)
  PROVE  IInv'
<1>1. Once(saved)'
  BY DEF SaveNew, Known, IInv, Once, SameEvent, TypeOK
<1> QED
  BY <1>1 DEF SaveNew, Goto, IInv, TypeOK, SavedIsLate, AtWorkIsSaved, Late,
              PersistedBeforeWork

(* Everything done for an event is done by the delivery that inserted it.  *)
LEMMA OnwardStep ==
  ASSUME IInv, NEW d \in Deliveries, Onward(d)
  PROVE  IInv'
<1>1. d \in saved
  BY DEF Onward, EmitReceived, EnqueueJob, SkipJob, Answer, IInv, AtWorkIsSaved, Late
<1> QED
  BY <1>1 DEF Onward, EmitReceived, EnqueueJob, SkipJob, Answer, Finish, Goto,
              IInv, TypeOK, SavedIsLate, AtWorkIsSaved, Late,
              PersistedBeforeWork, Once, SameEvent

(* A restart of the API ends what is at work; over the memory store it     *)
(* forgets what was saved.                                                 *)
LEMMA RestartStep == IInv /\ Restart => IInv'
BY DEF Restart, IInv, TypeOK, SavedIsLate, AtWorkIsSaved, Late,
       PersistedBeforeWork, Once, SameEvent

(* IInv is inductive.                                                      *)
THEOREM Invariance == Spec => []IInv
<1>1. IInv /\ [Next]_vars => IInv'
  <2> SUFFICES ASSUME IInv, [Next]_vars PROVE IInv'
    OBVIOUS
  <2>1. CASE \E i \in Items, o \in Orgs : Link(i, o)
    BY <2>1, LinkStep
  <2>2. ASSUME NEW d \in Deliveries, DeliveryStep(d) \/ Refuse(d) \/ SaveError(d)
        PROVE  IInv'
    BY <2>2, EarlyStep, SaveStep, OnwardStep DEF DeliveryStep, Onward
  <2>3. CASE Restart
    BY <2>3, RestartStep
  <2>4. CASE UNCHANGED vars
    BY <2>4 DEF vars, IInv, TypeOK, SavedIsLate, AtWorkIsSaved, Late,
                PersistedBeforeWork, Once, SameEvent
  <2> QED BY <2>1, <2>2, <2>3, <2>4 DEF Next
<1> QED BY <1>1, InitIInv, PTL DEF Spec

(* Work is done only for an event that is in the store, by the delivery    *)
(* that put it there: handlers queue after saving.                         *)
THEOREM Persistence == Spec => []PersistedBeforeWork
<1>1. IInv => PersistedBeforeWork
  BY DEF IInv
<1> QED BY <1>1, Invariance, PTL

(* Deliveries of one event, however many and however interleaved, leave    *)
(* one row, one notice in the outbox and one job.                          *)
THEOREM EffectivelyOnce == Spec => []EffectsOnce
<1>1. IInv => EffectsOnce
  BY DEF IInv, EffectsOnce, PersistedBeforeWork, Once
<1> QED BY <1>1, Invariance, PTL

(* With Postgres an event that a provider was told is accepted or known is *)
(* in the store, whatever fails and whenever the API restarts.             *)
THEOREM Acknowledged == Spec => []AnsweredIsPersisted
<1>1. Init => AnsweredIsPersisted
  BY DEF Init, AnsweredIsPersisted
<1>2. IInv /\ AnsweredIsPersisted /\ [Next]_vars => AnsweredIsPersisted'
  <2> SUFFICES ASSUME IInv, AnsweredIsPersisted, [Next]_vars PROVE AnsweredIsPersisted'
    OBVIOUS
  <2>0. deployment' = deployment
    BY DEF Next, DeliveryStep, Link, Refuse, SaveError, FindOrg, SaveNew, SaveKnown,
           EmitReceived, EnqueueJob, SkipJob, Answer, Restart, vars
  <2> SUFFICES ASSUME Durable, NEW d \in Deliveries, reply'[d] \in {"accepted", "deduped"}
               PROVE  Known(d)'
    BY <2>0 DEF AnsweredIsPersisted, Durable, Storage
  <2>1. saved \subseteq saved'
    BY DEF Durable, Next, DeliveryStep, Link, Refuse, SaveError, FindOrg, SaveNew, SaveKnown,
           EmitReceived, EnqueueJob, SkipJob, Answer, Restart, vars
  <2>2. CASE reply'[d] = reply[d]
    BY <2>1, <2>2 DEF AnsweredIsPersisted, Known, SameEvent
  <2>3. CASE reply'[d] # reply[d]
    <3>1. SaveKnown(d) \/ Answer(d)
      BY <2>3 DEF Next, DeliveryStep, Link, Refuse, SaveError, FindOrg, SaveNew,
                  SaveKnown, EmitReceived, EnqueueJob, SkipJob, Answer, Restart,
                  vars, Finish, Goto, IInv, TypeOK
    <3>2. Known(d)
      BY <3>1 DEF SaveKnown, Answer, Known, SameEvent, IInv, AtWorkIsSaved, Late
    <3> QED BY <2>1, <3>2 DEF Known, SameEvent
  <2> QED BY <2>2, <2>3
<1> QED BY <1>1, <1>2, Invariance, PTL DEF Spec

-----------------------------------------------------------------------------
(* The records that the store and a request can hold.                      *)
Lines(w, part) == {w[part][i] : i \in DOMAIN w[part]}
HoldingLines == [symbol : DOMAIN Price, quantity : Int, value : Int, cost : Int]
TradeValues == UNION {Lines(w, "trades") : w \in Imports}

AccountRecords == [id : 1..MaxNumber, type : Types \cup {"TFSA"}, default : BOOLEAN]
HoldingRecords ==
  [id : Ids, account : 1..MaxNumber, symbol : DOMAIN Price, manual : BOOLEAN,
   quantity : Int, cost : Int, value : Int]
TradeRecords == [id : Ids, account : 1..MaxNumber, trade : TradeValues]
ImportRecords == [number : 1..MaxNumber, bad : Nat, good : Nat]

AskingJobs == [pc : {"ensure", "open"}, number : 1..MaxNumber, what : Imports \cup Manual]
ReadyJobs ==
  [pc : {"ready"}, number : 1..MaxNumber, what : Imports \cup Manual, account : 1..MaxNumber]
TxJobs ==
  [pc : {"store", "delete"}, number : 1..MaxNumber, what : Imports, account : 1..MaxNumber,
   i : Nat \ {0}, k : Nat \ {0}, gone : SUBSET HoldingRecords, new : SUBSET HoldingRecords,
   newTrades : SUBSET TradeRecords, seen : SUBSET HoldingRecords]
PatchJobs == [pc : {"patch"}, row : HoldingRecords]
Jobs == {Idle} \cup AskingJobs \cup ReadyJobs \cup TxJobs \cup PatchJobs

Numbered(q) == job[q].pc \in {"ensure", "open", "ready", "store", "delete"}
InTx(q) == job[q].pc \in {"store", "delete"}

RowTypes ==
  /\ storage \in Storages /\ serial \in Loads
  /\ used \in 0..MaxNumber /\ edits \in 0..MaxEdits
  /\ accounts \in Seq(AccountRecords)
  /\ holdings \subseteq HoldingRecords /\ trades \subseteq TradeRecords
  /\ imports \subseteq ImportRecords

JobTypes == job \in [Requests -> Jobs]

AllFinite == IsFiniteSet(holdings) /\ IsFiniteSet(trades)

(* What a request stores bears its own number, which nobody else's does.   *)
Numbers ==
  /\ \A i \in 1..Len(accounts) : accounts[i].id <= used
  /\ \A r \in holdings \cup trades : r.id[1] <= used
  /\ \A q \in Requests : Numbered(q) =>
       /\ job[q].number <= used
       /\ \A r \in holdings \cup trades : r.id[1] # job[q].number
       /\ \A o \in Requests : Numbered(o) /\ o # q => job[o].number # job[q].number
       /\ job[q].pc \in {"ensure", "open"} =>
            \A i \in 1..Len(accounts) : accounts[i].id # job[q].number

Unique ==
  /\ \A i, j \in 1..Len(accounts) : accounts[i].id = accounts[j].id => i = j
  /\ \A h, k \in holdings : h.id = k.id => h = k

(* What a transaction has yet to show.                                     *)
TxOK(j) ==
  /\ storage = "postgres"
  /\ j.pc = "delete" => j.i <= Len(j.what.holdings)
  /\ \A h \in j.new : /\ h.id[1] = j.number /\ h.id[2] < j.i
                      /\ h.account = j.account /\ ~ h.manual
  /\ \A h, k \in j.new : h.id = k.id => h = k
  /\ \A t \in j.newTrades : t.id[1] = j.number /\ t.account = j.account
  /\ j.new \cup j.newTrades # {} => j.account \in AccountIds
  /\ IsFiniteSet(j.new) /\ IsFiniteSet(j.newTrades)

Unshown == \A q \in Requests : InTx(q) => TxOK(job[q])

(* A row that was read to be patched is of one account and one symbol.     *)
PatchOK(row) ==
  /\ storage = "postgres" /\ row.id[1] <= used
  /\ \A o \in Requests : Numbered(o) => job[o].number # row.id[1]
  /\ \A k \in holdings : k.id = row.id =>
       k.account = row.account /\ k.symbol = row.symbol /\ k.manual = row.manual

Patching == \A q \in Requests : job[q].pc = "patch" => PatchOK(job[q].row)

StoreInv ==
  /\ RowTypes /\ JobTypes /\ AllFinite /\ Numbers /\ Unique /\ Unshown /\ Patching
  /\ NothingHalfImported /\ NoOrphans

(* Requests that come one by one.                                          *)
OneAtWork == serial => \A q, o \in Requests : AtWork(q) /\ AtWork(o) => q = o

Opening == \A q \in Requests : job[q].pc = "open" =>
  storage = "postgres" /\ (serial => accounts = <<>>)

Single(hs) == \A h, k \in hs :
  ~ h.manual /\ ~ k.manual /\ h.account = k.account /\ h.symbol = k.symbol => h = k
Different(ts) == \A s, t \in ts : SameTrade(s, t) => s = t

(* Over Postgres an import in turn waits for nobody, and would leave one   *)
(* holding of a symbol and one of each trade if it were to commit now.     *)
InTurn == serial /\ storage = "postgres" =>
  /\ Single(holdings) /\ Different(trades)
  /\ \A q \in Requests :
       /\ job[q].pc # "delete"
       /\ job[q].pc = "store" => Single(Visible(q)) /\ Different(trades \cup job[q].newTrades)

Turns == OneAtWork /\ Opening /\ OneDefault /\ InTurn

TransactionOK(t) ==
  /\ t = [id |-> t.id, text |-> t.text, merchant |-> t.merchant, day |-> t.day,
          category |-> t.category, direction |-> t.direction, amount |-> t.amount]
  /\ t.day \in Int /\ t.amount \in Int /\ t.merchant \in NormalizeMerchant(t.text)

TransactionsOK == IsFiniteSet(transactions) /\ \A t \in transactions : TransactionOK(t)

(***************************************************************************)
(* What is read of a file.                                                 *)
(***************************************************************************)
LEMMA ReadableLines ==
  ASSUME NEW lines, IsSequence(lines)
  PROVE  Readable(lines) \in Seq({lines[i] : i \in {k \in 1..Len(lines) : lines[k].readable}})
<1> DEFINE n == Len(lines)
           S == {lines[i] : i \in {k \in 1..n : lines[k].readable}}
           next(i, s) == IF lines[i].readable THEN Append(s, lines[i]) ELSE s
           step == [p \in (1..n) \X Seq(S) |-> next(p[1], p[2])]
           Kept(g) == g = [i \in 0..n |-> IF i = 0 THEN <<>> ELSE next(i, g[i - 1])]
           kept == CHOOSE g : Kept(g)
<1>1. n \in Nat
  BY DEF IsSequence
<1>2. ASSUME NEW i \in 1..n, NEW s \in Seq(S) PROVE next(i, s) \in Seq(S)
  <2>1. CASE lines[i].readable
    <3>1. lines[i] \in S
      BY <2>1
    <3> HIDE DEF S
    <3> QED BY <2>1, <3>1
  <2>2. CASE ~ lines[i].readable
    BY <2>2
  <2> QED BY <2>1, <2>2
<1>3. \A i \in 1..n : \A s \in Seq(S) : step[<<i, s>>] = next(i, s) /\ step[<<i, s>>] \in Seq(S)
  <2> HIDE DEF S, n, next
  <2> QED BY <1>2
<1>4. PICK g : Iterates(g, n, Seq(S), <<>>, step)
  <2>1. <<>> \in Seq(S)
    OBVIOUS
  <2> HIDE DEF S, n, step
  <2> QED BY <1>1, <1>3, <2>1, Recursion
<1>5. ASSUME NEW i \in 1..n PROVE g[i] = next(i, g[i - 1])
  <2>1. g[i - 1] \in Seq(S)
    <3> HIDE DEF S, n, next
    <3> QED BY <1>1, <1>4 DEF Iterates
  <2> HIDE DEF S, n, next, step
  <2> QED BY <1>3, <1>4, <2>1 DEF Iterates
<1>6. Kept(g)
  <2>1. \A i \in 0..n : g[i] = IF i = 0 THEN <<>> ELSE next(i, g[i - 1])
    <3> HIDE DEF S, n, next
    <3> QED BY <1>1, <1>4, <1>5 DEF Iterates
  <2> HIDE DEF S, n, next
  <2> QED BY <1>4, <2>1 DEF Iterates
<1>7. Kept(kept)
  <2> HIDE DEF Kept
  <2> QED BY <1>6
<1>8. kept[0] = <<>> /\ \A i \in 1..n : kept[i] = next(i, kept[i - 1])
  <2> HIDE DEF S, n, next, kept
  <2> QED BY <1>1, <1>7
<1>9. \A i \in 0..n : kept[i] \in Seq(S)
  <2> DEFINE B == {i \in 0..n : kept[i] \notin Seq(S)}
  <2>1. 0 \notin B
    <3>1. <<>> \in Seq(S)
      OBVIOUS
    <3> HIDE DEF S, n, kept, next
    <3> QED BY <1>8, <3>1
  <2>2. ASSUME NEW i \in 1..n, i - 1 \notin B PROVE i \notin B
    <3>1. kept[i - 1] \in Seq(S)
      <4> HIDE DEF S, n, kept, next
      <4> QED BY <2>2, <1>1
    <3> HIDE DEF S, n, kept, next
    <3> QED BY <3>1, <1>2, <1>8
  <2>3. B \subseteq 0..n
    OBVIOUS
  <2>4. B = {}
    <3> HIDE DEF B, n
    <3> QED BY <1>1, <2>1, <2>2, <2>3, UpTo
  <2> HIDE DEF kept, S, n
  <2> QED BY <2>4
<1>10. Readable(lines) = kept[n]
  BY DEF Readable
<1> HIDE DEF kept, S
<1> QED BY <1>1, <1>9, <1>10 DEF S

(* The number of lines that cannot be read.                                *)
LEMMA UnreadIsNat ==
  ASSUME NEW lines, IsSequence(lines) PROVE Unread(lines) \in Nat
<1>1. Len(lines) \in Nat
  BY DEF IsSequence
<1>2. IsFiniteSet({i \in 1..Len(lines) : ~ lines[i].readable})
  <2>1. IsFiniteSet(1..Len(lines))
    BY <1>1, FS_Interval
  <2> QED BY <2>1, FS_Subset
<1>3. Cardinality({i \in 1..Len(lines) : ~ lines[i].readable}) \in Nat
  BY <1>2, FS_CardinalityType
<1> QED BY <1>3 DEF Unread

(* What is read of a file: holdings of known symbols, and trades with      *)
(* numbers for amounts.                                                    *)
LEMMA ImportTypes ==
  ASSUME NEW w \in Imports
  PROVE  /\ w = [holdings |-> w.holdings, trades |-> w.trades, bad |-> w.bad]
         /\ w.holdings \in Seq(HoldingLines)
         /\ w.trades \in Seq(Lines(w, "trades"))
         /\ \A i \in 1..Len(w.trades) : w.trades[i].amount \in Int
         /\ w.bad \in Nat
<1>1. PICK f \in Files : w = Read(f)
  BY DEF Imports
<1>2. w = [holdings |-> HoldingRows(f.holdings), trades |-> TradeRows(f.trades),
           bad |-> SumOver([part \in f.parts |-> Unread(f[part])])]
  BY <1>1 DEF Read
<1> DEFINE hs == Readable(f.holdings)
           ts == Readable(f.trades)
<1>3. IsSequence(f.holdings) /\ IsSequence(f.trades)
  BY FilesAssumption
<1>4. hs \in Seq({f.holdings[i] : i \in {k \in 1..Len(f.holdings) : f.holdings[k].readable}})
  BY <1>3, ReadableLines
<1>5. ts \in Seq({f.trades[i] : i \in {k \in 1..Len(f.trades) : f.trades[k].readable}})
  BY <1>3, ReadableLines
<1>6. w.holdings = [i \in 1..Len(hs) |-> HoldingRow(hs[i])]
  <2>1. DOMAIN hs = 1..Len(hs)
    BY <1>4
  <2> QED BY <1>2, <2>1 DEF HoldingRows
<1>7. w.trades = [i \in 1..Len(ts) |-> TradeRow(ts[i])]
  <2>1. DOMAIN ts = 1..Len(ts)
    BY <1>5
  <2> QED BY <1>2, <2>1 DEF TradeRows
<1>8. w.holdings \in Seq(HoldingLines)
  <2>1. ASSUME NEW i \in 1..Len(hs) PROVE HoldingRow(hs[i]) \in HoldingLines
    <3>1. PICK k \in 1..Len(f.holdings) : f.holdings[k].readable /\ hs[i] = f.holdings[k]
      <4> HIDE DEF hs
      <4> QED BY <1>4
    <3>2. k \in DOMAIN f.holdings
      BY <1>3 DEF IsSequence
    <3> DEFINE l == f.holdings[k]
    <3>3. /\ l.symbol \in DOMAIN Price
          /\ l.quantity \in Int /\ l.cost \in Int /\ l.price \in Int /\ l.value \in Int
      BY <3>1, <3>2, FilesAssumption
    <3>4. HoldingRow(l) \in HoldingLines
      <4> DEFINE value == IF l.value = 0 /\ l.price > 0 THEN l.quantity * l.price ELSE l.value
                 cost == IF l.cost = 0 /\ value > 0 /\ l.quantity > 0
                         THEN value \div l.quantity ELSE l.cost
      <4>1. value \in Int
        BY <3>3
      <4>2. cost \in Int
        <5> HIDE DEF value
        <5> QED BY <3>3, <4>1
      <4>3. HoldingRow(l) = [symbol |-> l.symbol, quantity |-> l.quantity, value |-> value, cost |-> cost]
        BY DEF HoldingRow
      <4> HIDE DEF value, cost, l
      <4> QED BY <4>1, <4>2, <4>3, <3>3 DEF HoldingLines
    <3> HIDE DEF hs
    <3> QED BY <3>1, <3>4
  <2>2. Len(hs) \in Nat
    BY <1>4
  <2> HIDE DEF hs
  <2> QED BY <1>6, <2>1, <2>2
<1>9. /\ w.trades \in Seq(Lines(w, "trades"))
      /\ \A i \in 1..Len(w.trades) : w.trades[i].amount \in Int
  <2>1. ASSUME NEW i \in 1..Len(ts) PROVE TradeRow(ts[i]).amount \in Int
    <3>1. PICK k \in 1..Len(f.trades) : f.trades[k].readable /\ ts[i] = f.trades[k]
      <4> HIDE DEF ts
      <4> QED BY <1>5
    <3>2. k \in DOMAIN f.trades
      BY <1>3 DEF IsSequence
    <3>3. f.trades[k].amount \in Int
      BY <3>1, <3>2, FilesAssumption
    <3> HIDE DEF ts
    <3> QED BY <3>1, <3>3 DEF TradeRow
  <2>2. Len(ts) \in Nat
    BY <1>5
  <2>3. Len(w.trades) = Len(ts) /\ DOMAIN w.trades = 1..Len(ts)
    <3> HIDE DEF ts
    <3> QED BY <1>7, <2>2
  <2>4. w.trades \in Seq(Lines(w, "trades"))
    <3>1. \A i \in 1..Len(ts) : w.trades[i] \in Lines(w, "trades")
      <4> HIDE DEF ts
      <4> QED BY <2>3, <1>2 DEF Lines
    <3> HIDE DEF ts
    <3> QED BY <1>7, <2>2, <2>3, <3>1
  <2> HIDE DEF ts
  <2> QED BY <1>7, <2>1, <2>3, <2>4
<1>10. w.bad \in Nat
  <2> DEFINE e == [part \in f.parts |-> Unread(f[part])]
  <2>1. f.parts \subseteq {"holdings", "trades"}
    BY FilesAssumption
  <2>2. IsFiniteSet(f.parts)
    <3>1. IsFiniteSet({"holdings"}) /\ IsFiniteSet({"trades"})
      BY FS_Singleton
    <3>2. IsFiniteSet({"holdings", "trades"})
      <4>1. {"holdings", "trades"} = {"holdings"} \cup {"trades"}
        OBVIOUS
      <4> QED BY <3>1, <4>1, FS_Union
    <3> QED BY <2>1, <3>2, FS_Subset
  <2>3. \A part \in f.parts : e[part] \in Nat
    BY <1>3, <2>1, UnreadIsNat
  <2>4. SumOver(e) = Part(e, f.parts)
    BY DEF Part
  <2>5. Part(e, f.parts) \in Nat
    <3> HIDE DEF e
    <3> QED BY <2>2, <2>3, PartNat
  <2> HIDE DEF e
  <2> QED BY <1>2, <2>4, <2>5 DEF e
<1>11. w = [holdings |-> w.holdings, trades |-> w.trades, bad |-> w.bad]
  BY <1>2
<1> QED BY <1>8, <1>9, <1>10, <1>11

(***************************************************************************)
(* The shapes of rows and jobs.                                            *)
(***************************************************************************)
LEMMA Shapes ==
  ASSUME JobTypes, NEW q \in Requests
  PROVE  /\ job[q] \in Jobs
         /\ job[q].pc = "idle" => job[q] = Idle
         /\ job[q].pc \in {"ensure", "open"} => job[q] \in AskingJobs
         /\ job[q].pc = "ready" => job[q] \in ReadyJobs
         /\ InTx(q) => job[q] \in TxJobs
         /\ job[q].pc = "patch" => job[q] \in PatchJobs
         /\ AtWork(q) <=> Numbered(q) \/ job[q].pc = "patch"
<1>1. job[q] \in Jobs
  BY DEF JobTypes
<1>2. CASE job[q] = Idle
  BY <1>1, <1>2 DEF Idle, InTx, AtWork, Numbered
<1>3. CASE job[q] \in AskingJobs
  BY <1>1, <1>3 DEF AskingJobs, InTx, AtWork, Numbered
<1>4. CASE job[q] \in ReadyJobs
  BY <1>1, <1>4 DEF ReadyJobs, InTx, AtWork, Numbered
<1>5. CASE job[q] \in TxJobs
  BY <1>1, <1>5 DEF TxJobs, InTx, AtWork, Numbered
<1>6. CASE job[q] \in PatchJobs
  BY <1>1, <1>6 DEF PatchJobs, InTx, AtWork, Numbered
<1> QED BY <1>1, <1>2, <1>3, <1>4, <1>5, <1>6 DEF Jobs

(* A step of one request leaves the others as they are.                    *)
LEMMA BecomesJob ==
  ASSUME JobTypes, NEW q \in Requests, NEW j \in Jobs, Becomes(q, j)
  PROVE  JobTypes' /\ job'[q] = j /\ \A o \in Requests \ {q} : job'[o] = job[o]
BY DEF JobTypes, Becomes

(* Idle is a job.                                                          *)
LEMMA IdleIsJob == Idle \in Jobs
BY DEF Jobs

(* HoldingOf gives a row of the table.                                     *)
LEMMA NewHolding ==
  ASSUME NEW r, r.symbol \in DOMAIN Price, r.quantity \in Int, r.cost \in Int, r.value \in Int,
         NEW number \in 1..MaxNumber, NEW i \in Nat, NEW a \in 1..MaxNumber, NEW manual \in BOOLEAN
  PROVE  HoldingOf(r, number, i, a, manual) \in HoldingRecords
BY DEF HoldingOf, HoldingRecords, Ids

(* TradeOf gives a row of the table.                                       *)
LEMMA NewTrade ==
  ASSUME NEW w \in Imports, NEW k \in 1..Len(w.trades),
         NEW number \in 1..MaxNumber, NEW a \in 1..MaxNumber
  PROVE  TradeOf(w.trades[k], number, k, a) \in TradeRecords
<1>1. w.trades \in Seq(Lines(w, "trades"))
  BY ImportTypes
<1>2. w.trades[k] \in Lines(w, "trades")
  BY <1>1
<1>3. w.trades[k] \in TradeValues
  BY <1>2 DEF TradeValues
<1>4. k \in Nat
  BY <1>1
<1> QED BY <1>3, <1>4 DEF TradeOf, TradeRecords, Ids

(* The line a transaction is at can be stored.                             *)
LEMMA LineType ==
  ASSUME NEW j \in TxJobs, j.i <= Len(j.what.holdings)
  PROVE  /\ Line(j) \in HoldingLines
         /\ HoldingOf(Line(j), j.number, j.i, j.account, FALSE) \in HoldingRecords
<1>1. j.what \in Imports /\ j.number \in 1..MaxNumber /\ j.account \in 1..MaxNumber /\ j.i \in Nat \ {0}
  BY DEF TxJobs
<1>2. j.what.holdings \in Seq(HoldingLines)
  BY <1>1, ImportTypes
<1>3. Line(j) \in HoldingLines
  BY <1>1, <1>2 DEF Line
<1>4. HoldingOf(Line(j), j.number, j.i, j.account, FALSE) \in HoldingRecords
  BY <1>1, <1>3, NewHolding DEF HoldingLines
<1> QED BY <1>3, <1>4

(* What replacing a holding changes in the transaction.                    *)
LEMMA ReplacedJob ==
  ASSUME NEW j \in TxJobs, j.i <= Len(j.what.holdings), holdings \subseteq HoldingRecords, NEW seen
  PROVE  /\ Replaced(j, seen) \in TxJobs
         /\ Replaced(j, seen).pc = "store" /\ Replaced(j, seen).number = j.number
         /\ Replaced(j, seen).what = j.what /\ Replaced(j, seen).account = j.account
         /\ Replaced(j, seen).i = j.i + 1 /\ Replaced(j, seen).newTrades = j.newTrades
         /\ Replaced(j, seen).gone = j.gone \cup (seen \cap holdings)
         /\ Replaced(j, seen).new =
              (j.new \ seen) \cup {HoldingOf(Line(j), j.number, j.i, j.account, FALSE)}
<1> DEFINE row == HoldingOf(Line(j), j.number, j.i, j.account, FALSE)
<1>1. row \in HoldingRecords
  BY LineType
<1>2. /\ Replaced(j, seen).pc = "store" /\ Replaced(j, seen).number = j.number
      /\ Replaced(j, seen).what = j.what /\ Replaced(j, seen).account = j.account
      /\ Replaced(j, seen).i = j.i + 1 /\ Replaced(j, seen).newTrades = j.newTrades
  BY DEF Replaced, TxJobs
<1>3. /\ Replaced(j, seen).gone = j.gone \cup (seen \cap holdings)
      /\ Replaced(j, seen).new = (j.new \ seen) \cup {row}
  BY DEF Replaced, TxJobs
<1>4. Replaced(j, seen) \in TxJobs
  <2> HIDE DEF row
  <2>1. (j.new \ seen) \cup {row} \in SUBSET HoldingRecords
    BY <1>1 DEF TxJobs
  <2>2. j.gone \cup (seen \cap holdings) \in SUBSET HoldingRecords
    BY DEF TxJobs
  <2> DEFINE with(i, g, n) ==
               [j EXCEPT !.pc = "store", !.i = i, !.seen = {}, !.gone = g, !.new = n]
  <2>3. ASSUME NEW n \in SUBSET HoldingRecords, NEW g \in SUBSET HoldingRecords, NEW i \in Nat \ {0}
        PROVE  with(i, g, n) \in TxJobs
    BY DEF TxJobs
  <2>4. j.i + 1 \in Nat \ {0}
    BY DEF TxJobs
  <2>5. Replaced(j, seen) =
          with(j.i + 1, j.gone \cup (seen \cap holdings), (j.new \ seen) \cup {row})
    BY DEF Replaced, row
  <2> HIDE DEF with
  <2> QED BY <2>1, <2>2, <2>3, <2>4, <2>5
<1> QED BY <1>2, <1>3, <1>4

(* A patch leaves the identifier, the account, the symbol and the origin   *)
(* of a row.                                                               *)
LEMMA PatchedRow ==
  ASSUME NEW h \in HoldingRecords, NEW p \in Patches
  PROVE  /\ Patched(h, p) \in HoldingRecords
         /\ Patched(h, p).id = h.id /\ Patched(h, p).account = h.account
         /\ Patched(h, p).symbol = h.symbol /\ Patched(h, p).manual = h.manual
<1>1. p.quantity \in Int /\ p.cost \in Int /\ p.value \in Int
  BY PatchesAssumption
<1> QED BY <1>1 DEF Patched, HoldingRecords

(* What is left of a sequence without its element i.                       *)
LEMMA WithoutOne ==
  ASSUME NEW S, NEW s \in Seq(S), NEW i \in 1..Len(s)
  PROVE  /\ Without(s, i) \in Seq(S) /\ Len(Without(s, i)) = Len(s) - 1
         /\ \A k \in 1..(Len(s) - 1) : Without(s, i)[k] = s[IF k < i THEN k ELSE k + 1]
         /\ \A k \in 1..Len(s) : k # i =>
              \E m \in 1..(Len(s) - 1) : Without(s, i)[m] = s[k]
<1>1. Len(s) - 1 \in Nat
  OBVIOUS
<1>2. \A k \in 1..(Len(s) - 1) : s[IF k < i THEN k ELSE k + 1] \in S
  OBVIOUS
<1>3. Without(s, i) \in [1..(Len(s) - 1) -> S]
  BY <1>1, <1>2 DEF Without
<1>4. Without(s, i) \in Seq(S) /\ Len(Without(s, i)) = Len(s) - 1
  BY <1>1, <1>3
<1>5. \A k \in 1..(Len(s) - 1) : Without(s, i)[k] = s[IF k < i THEN k ELSE k + 1]
  BY DEF Without
<1>6. ASSUME NEW k \in 1..Len(s), k # i
      PROVE  \E m \in 1..(Len(s) - 1) : Without(s, i)[m] = s[k]
  <2>1. CASE k < i
    BY <1>5, <2>1
  <2>2. CASE k > i
    <3>1. k - 1 \in 1..(Len(s) - 1) /\ ~ (k - 1 < i) /\ (k - 1) + 1 = k
      BY <2>2
    <3> QED BY <1>5, <3>1
  <2> QED BY <1>6, <2>1, <2>2
<1> QED BY <1>4, <1>5, <1>6

(***************************************************************************)
(* Steps that change no row.                                               *)
(***************************************************************************)
LEMMA JobStep ==
  ASSUME StoreInv, NEW q \in Requests, NEW j \in Jobs, Becomes(q, j),
         UNCHANGED <<storage, serial, used, rows>>, edits' \in 0..MaxEdits,
         \/ j = Idle
         \/ /\ Numbered(q) /\ j.pc \in {"ensure", "open", "ready", "store", "delete"}
            /\ j.number = job[q].number
            /\ j.pc \in {"ensure", "open"} => job[q].pc \in {"ensure", "open"}
            /\ j.pc \in {"store", "delete"} => TxOK(j)
         \/ j.pc = "patch" /\ PatchOK(j.row)
  PROVE  StoreInv'
<1> USE DEF StoreInv
<1>1. JobTypes' /\ job'[q] = j /\ \A o \in Requests \ {q} : job'[o] = job[o]
  BY BecomesJob
<1>2. RowTypes' /\ AllFinite' /\ Unique' /\ NothingHalfImported' /\ NoOrphans'
  BY DEF rows, RowTypes, AllFinite, Unique, NothingHalfImported, NoOrphans, AccountIds
<1>3. \A o \in Requests : Numbered(o)' =>
        /\ Numbered(o) /\ job'[o].number = job[o].number
        /\ job'[o].pc \in {"ensure", "open"} => job[o].pc \in {"ensure", "open"}
  <2>1. ASSUME NEW o \in Requests \ {q}, Numbered(o)' PROVE Numbered(o) /\ job'[o] = job[o]
    BY <1>1, <2>1 DEF Numbered
  <2>2. Numbered(q)' => /\ Numbered(q) /\ job'[q].number = job[q].number
                        /\ job'[q].pc \in {"ensure", "open"} => job[q].pc \in {"ensure", "open"}
    BY <1>1 DEF Numbered, Idle
  <2> QED BY <2>1, <2>2
<1>4. Numbers'
  BY <1>3 DEF Numbers, rows
<1>5. Unshown'
  <2>1. ASSUME NEW o \in Requests, InTx(o)' PROVE TxOK(job'[o])
    BY <1>1, <2>1 DEF Unshown, InTx, Idle
  <2>2. \A o \in Requests : TxOK(job'[o]) => TxOK(job[o])'
    BY DEF TxOK, rows, AccountIds
  <2> QED BY <2>1, <2>2 DEF Unshown
<1>6. Patching'
  <2>1. ASSUME NEW o \in Requests, job'[o].pc = "patch" PROVE PatchOK(job'[o].row)
    BY <1>1, <2>1 DEF Patching, Idle
  <2>2. \A o \in Requests : PatchOK(job'[o].row) => PatchOK(job[o].row)'
    BY <1>3 DEF PatchOK, rows
  <2> QED BY <2>1, <2>2 DEF Patching
<1> QED BY <1>1, <1>2, <1>4, <1>5, <1>6

(* Looking for the default account stores nothing.                         *)
LEMMA FindStep ==
  ASSUME StoreInv, NEW q \in Requests, FindDefault(q) \/ FindNone(q)
  PROVE  StoreInv'
<1>1. JobTypes /\ RowTypes
  BY DEF StoreInv
<1>2. job[q].pc = "ensure" /\ job[q] \in AskingJobs
  BY <1>1, Shapes DEF FindDefault, FindNone
<1>3. Numbered(q) /\ UNCHANGED <<storage, serial, used, rows>> /\ edits' \in 0..MaxEdits
  BY <1>1, <1>2 DEF FindDefault, FindNone, Numbered, RowTypes
<1>4. CASE FindDefault(q)
  <2>1. PICK i \in 1..Len(accounts) : Becomes(q, Ready(job[q], accounts[i].id))
    BY <1>4 DEF FindDefault
  <2>2. accounts[i].id \in 1..MaxNumber
    <3>1. accounts[i] \in AccountRecords
      BY <1>1 DEF RowTypes
    <3> QED BY <3>1 DEF AccountRecords
  <2> DEFINE j == Ready(job[q], accounts[i].id)
  <2>3. j \in ReadyJobs /\ j.pc = "ready" /\ j.number = job[q].number
    BY <1>2, <2>2 DEF Ready, ReadyJobs, AskingJobs
  <2> HIDE DEF j
  <2> QED BY <1>3, <2>1, <2>3, JobStep DEF Jobs, j
<1>5. CASE FindNone(q)
  <2> DEFINE j == [job[q] EXCEPT !.pc = "open"]
  <2>1. j \in AskingJobs /\ j.pc = "open" /\ j.number = job[q].number
    BY <1>2 DEF AskingJobs
  <2>2. Becomes(q, j)
    BY <1>5 DEF FindNone
  <2> HIDE DEF j
  <2> QED BY <1>2, <1>3, <2>1, <2>2, JobStep DEF Jobs
<1> QED BY <1>4, <1>5

(* A request that fails leaves what is stored as it is: its transaction is *)
(* rolled back.                                                            *)
LEMMA FailStep ==
  ASSUME StoreInv, NEW q \in Requests, Fail(q) PROVE StoreInv'
<1>1. edits' \in 0..MaxEdits
  BY DEF Fail, StoreInv, RowTypes
<1> QED BY <1>1, IdleIsJob, JobStep DEF Fail

(* A transaction begins with nothing that it has yet to show.              *)
LEMMA BeginTxStep ==
  ASSUME StoreInv, NEW q \in Requests, BeginTx(q) PROVE StoreInv'
<1>1. JobTypes /\ RowTypes
  BY DEF StoreInv
<1>2. job[q].pc = "ready" /\ job[q] \in ReadyJobs /\ job[q].what \in Imports /\ storage = "postgres"
  BY <1>1, Shapes DEF BeginTx
<1> DEFINE j == [pc |-> "store", number |-> job[q].number, what |-> job[q].what,
                 account |-> job[q].account,
                 i |-> 1, k |-> 1, gone |-> {}, new |-> {}, newTrades |-> {}, seen |-> {}]
<1>3. j \in TxJobs /\ j.pc = "store" /\ j.number = job[q].number
  BY <1>2 DEF TxJobs, ReadyJobs
<1>4. TxOK(j)
  BY <1>2, FS_EmptySet DEF TxOK
<1>5. /\ Numbered(q) /\ UNCHANGED <<storage, serial, used, rows>> /\ edits' \in 0..MaxEdits
      /\ Becomes(q, j)
  BY <1>1, <1>2 DEF BeginTx, Numbered, RowTypes
<1> HIDE DEF j
<1> QED BY <1>3, <1>4, <1>5, JobStep DEF Jobs

(* The row that a statement of the transaction inserts.                    *)
LEMMA ReplacedStep ==
  ASSUME StoreInv, NEW q \in Requests, InTx(q), job[q].i <= Len(job[q].what.holdings),
         HasAccount(job[q].account), NEW seen, Becomes(q, Replaced(job[q], seen)),
         UNCHANGED <<storage, serial, used, edits, rows>>
  PROVE  StoreInv'
<1>1. JobTypes /\ RowTypes /\ TxOK(job[q])
  BY DEF StoreInv, Unshown
<1>2. job[q] \in TxJobs /\ Numbered(q)
  BY <1>1, Shapes DEF InTx, Numbered
<1> DEFINE j == Replaced(job[q], seen)
           row == HoldingOf(Line(job[q]), job[q].number, job[q].i, job[q].account, FALSE)
<1>3. /\ j \in TxJobs /\ j.pc = "store" /\ j.number = job[q].number /\ j.what = job[q].what
      /\ j.account = job[q].account /\ j.i = job[q].i + 1 /\ j.newTrades = job[q].newTrades
      /\ j.new = (job[q].new \ seen) \cup {row}
  BY <1>1, <1>2, ReplacedJob DEF RowTypes
<1>4. /\ row.id = <<job[q].number, job[q].i>> /\ row.account = job[q].account
      /\ row.manual = FALSE
  BY DEF HoldingOf
<1>5. TxOK(j)
  <2> HIDE DEF j, row
  <2>1. storage = "postgres" /\ j.account \in AccountIds
    BY <1>1, <1>3 DEF TxOK, HasAccount
  <2>2. job[q].i \in Nat
    BY <1>2 DEF TxJobs
  <2>3. ASSUME NEW h \in j.new
        PROVE  h.id[1] = j.number /\ h.id[2] < j.i /\ h.account = j.account /\ ~ h.manual
    <3>1. CASE h = row
      BY <3>1, <1>3, <1>4, <2>2
    <3>2. CASE h \in job[q].new
      <4>1. h.id[2] \in Nat
        BY <3>2, <1>2 DEF TxJobs, HoldingRecords, Ids
      <4> QED BY <3>2, <4>1, <1>1, <1>3, <2>2 DEF TxOK
    <3> QED BY <3>1, <3>2, <1>3
  <2>4. ASSUME NEW h \in j.new, NEW k \in j.new, h.id = k.id PROVE h = k
    <3>1. \A g \in job[q].new : g.id # row.id
      BY <1>1, <1>4, <2>2 DEF TxOK
    <3> QED BY <2>4, <3>1, <1>1, <1>3 DEF TxOK
  <2>5. IsFiniteSet(j.new)
    <3>1. IsFiniteSet(job[q].new \ seen)
      BY <1>1, FS_Subset DEF TxOK
    <3>2. IsFiniteSet((job[q].new \ seen) \cup {row})
      BY <3>1, FS_AddElement
    <3> QED BY <1>3, <3>2
  <2> QED BY <1>1, <1>3, <2>1, <2>3, <2>4, <2>5 DEF TxOK
<1>6. edits' \in 0..MaxEdits
  BY <1>1 DEF RowTypes
<1> HIDE DEF j
<1> QED BY <1>2, <1>3, <1>5, <1>6, JobStep DEF Jobs, j

(* A holding is replaced, after a wait or without one.                     *)
LEMMA DeleteAndInsertStep ==
  ASSUME StoreInv, NEW q \in Requests, ReplaceHolding(q) \/ LockGone(q) PROVE StoreInv'
<1>1. CASE ReplaceHolding(q)
  <2>1. InTx(q)
    BY <1>1 DEF ReplaceHolding, InTx
  <2> QED BY <1>1, <2>1, ReplacedStep DEF ReplaceHolding
<1>2. CASE LockGone(q)
  <2>1. InTx(q) /\ job[q].pc = "delete"
    BY <1>2 DEF LockGone, InTx
  <2>2. job[q].i <= Len(job[q].what.holdings)
    BY <2>1 DEF StoreInv, Unshown, TxOK
  <2> QED BY <1>2, <2>1, <2>2, ReplacedStep DEF LockGone
<1> QED BY <1>1, <1>2

(* An import waits for the transaction that has the row.                   *)
LEMMA WaitStep ==
  ASSUME StoreInv, NEW q \in Requests, WaitForLock(q) PROVE StoreInv'
<1>1. JobTypes /\ RowTypes /\ InTx(q) /\ TxOK(job[q])
  BY DEF StoreInv, Unshown, WaitForLock, InTx
<1>2. job[q] \in TxJobs /\ Numbered(q)
  BY <1>1, Shapes DEF InTx, Numbered
<1> DEFINE seen == Matching(q)
           j == [job[q] EXCEPT !.pc = "delete", !.seen = seen]
<1>3. seen \in SUBSET HoldingRecords
  BY <1>1, <1>2 DEF RowTypes, Matching, Visible, TxJobs
<1>4. /\ j \in TxJobs /\ j.pc = "delete" /\ j.number = job[q].number /\ j.what = job[q].what
      /\ j.account = job[q].account /\ j.i = job[q].i
      /\ j.new = job[q].new /\ j.newTrades = job[q].newTrades
  <2> HIDE DEF seen
  <2> QED BY <1>2, <1>3 DEF TxJobs
<1>5. TxOK(j)
  <2>1. j.i <= Len(j.what.holdings)
    BY <1>4 DEF WaitForLock
  <2> HIDE DEF j
  <2> QED BY <1>1, <1>4, <2>1 DEF TxOK
<1>6. edits' \in 0..MaxEdits /\ UNCHANGED <<storage, serial, used, rows>> /\ Becomes(q, j)
  BY <1>1 DEF RowTypes, WaitForLock
<1> HIDE DEF j
<1> QED BY <1>2, <1>4, <1>5, <1>6, JobStep DEF Jobs

(* The next trade is inserted, if it is not there.                         *)
LEMMA InsertTradeStep ==
  ASSUME StoreInv, NEW q \in Requests, InsertTrade(q) PROVE StoreInv'
<1>1. JobTypes /\ RowTypes /\ InTx(q) /\ TxOK(job[q])
  BY DEF StoreInv, Unshown, InsertTrade, InTx
<1>2. job[q] \in TxJobs /\ Numbered(q)
  BY <1>1, Shapes DEF InTx, Numbered
<1> DEFINE t == TradeOf(job[q].what.trades[job[q].k], job[q].number, job[q].k, job[q].account)
<1>3. edits' \in 0..MaxEdits /\ UNCHANGED <<storage, serial, used, rows>> /\ job[q].pc = "store"
  BY <1>1 DEF RowTypes, InsertTrade
<1>4. t \in TradeRecords /\ t.id[1] = job[q].number /\ t.account = job[q].account
  <2>1. job[q].k \in 1..Len(job[q].what.trades)
    BY <1>2 DEF TxJobs, InsertTrade
  <2>2. t \in TradeRecords
    BY <1>2, <2>1, NewTrade DEF TxJobs
  <2> QED BY <2>2 DEF TradeOf
<1>5. CASE Becomes(q, [job[q] EXCEPT !.k = @ + 1])
  <2> DEFINE j == [job[q] EXCEPT !.k = job[q].k + 1]
  <2>1. /\ j \in TxJobs /\ j.pc = "store" /\ j.number = job[q].number
        /\ j.account = job[q].account /\ j.i = job[q].i
        /\ j.new = job[q].new /\ j.newTrades = job[q].newTrades
    BY <1>2, <1>3 DEF TxJobs
  <2>2. Becomes(q, j)
    BY <1>5
  <2> HIDE DEF j
  <2>3. TxOK(j)
    BY <1>1, <2>1 DEF TxOK
  <2> QED BY <1>2, <1>3, <2>1, <2>2, <2>3, JobStep DEF Jobs
<1>6. CASE /\ HasAccount(job[q].account)
           /\ Becomes(q, [job[q] EXCEPT !.k = @ + 1, !.newTrades = @ \cup {t}])
  <2> DEFINE more == job[q].newTrades \cup {t}
             j == [job[q] EXCEPT !.k = job[q].k + 1, !.newTrades = more]
  <2>1. /\ j \in TxJobs /\ j.pc = "store" /\ j.number = job[q].number
        /\ j.account = job[q].account /\ j.i = job[q].i
        /\ j.new = job[q].new /\ j.newTrades = more
    <3>1. more \in SUBSET TradeRecords
      <4> HIDE DEF t
      <4> QED BY <1>2, <1>4 DEF TxJobs
    <3>2. job[q].k + 1 \in Nat \ {0}
      BY <1>2 DEF TxJobs
    <3> DEFINE n == job[q].k + 1
    <3> HIDE DEF more, n
    <3>3. j = [job[q] EXCEPT !.k = n, !.newTrades = more]
      BY DEF n
    <3>4. [job[q] EXCEPT !.k = n, !.newTrades = more] \in TxJobs
      BY <1>2, <3>1, <3>2 DEF TxJobs, n
    <3>5. j.pc = "store" /\ j.number = job[q].number
      BY <1>2, <1>3 DEF TxJobs
    <3>6. j.account = job[q].account /\ j.i = job[q].i /\ j.new = job[q].new /\ j.newTrades = more
      BY <1>2 DEF TxJobs
    <3> QED BY <3>3, <3>4, <3>5, <3>6
  <2>2. Becomes(q, j)
    BY <1>6
  <2> HIDE DEF j, t
  <2>3. IsFiniteSet(j.newTrades)
    BY <1>1, <2>1, FS_AddElement DEF TxOK
  <2>4. TxOK(j)
    BY <1>1, <1>4, <1>6, <2>1, <2>3 DEF TxOK, HasAccount
  <2> QED BY <1>2, <1>3, <2>1, <2>2, <2>4, JobStep DEF Jobs
<1> QED BY <1>5, <1>6 DEF InsertTrade

(***************************************************************************)
(* Steps that change rows.                                                 *)
(***************************************************************************)
LEMMA SetBegins ==
  ASSUME StoreInv, NEW q \in Requests, NEW what \in Imports \cup Manual, Begin(q, what)
  PROVE  StoreInv'
<1> USE DEF StoreInv
<1> DEFINE j == [pc |-> "ensure", number |-> used + 1, what |-> what]
<1>1. used \in Nat /\ used + 1 \in 1..MaxNumber /\ used' = used + 1
  BY BoundAssumption DEF Begin, RowTypes
<1>2. j \in AskingJobs /\ j.pc = "ensure" /\ j.number = used + 1
  BY <1>1 DEF AskingJobs
<1>3. Becomes(q, j) /\ UNCHANGED <<storage, serial, edits, rows>>
  BY DEF Begin
<1> HIDE DEF j
<1>4. JobTypes' /\ job'[q] = j /\ \A o \in Requests \ {q} : job'[o] = job[o]
  BY <1>2, <1>3, BecomesJob DEF Jobs
<1>5. \A o \in Requests \ {q} : (Numbered(o)' <=> Numbered(o)) /\ (InTx(o)' <=> InTx(o))
  BY <1>4 DEF Numbered, InTx
<1>6. RowTypes' /\ AllFinite' /\ Unique' /\ NothingHalfImported' /\ NoOrphans'
  BY <1>1, <1>3 DEF rows, RowTypes, AllFinite, Unique, NothingHalfImported, NoOrphans, AccountIds
<1>7. Numbers'
  <2>1. \A i \in 1..Len(accounts) : accounts[i].id \in 1..MaxNumber /\ accounts[i].id <= used
    <3>1. \A i \in 1..Len(accounts) : accounts[i] \in AccountRecords
      BY DEF RowTypes
    <3> QED BY <3>1 DEF AccountRecords, Numbers
  <2>2. \A r \in holdings \cup trades : r.id[1] \in 1..MaxNumber /\ r.id[1] <= used
    BY DEF RowTypes, HoldingRecords, TradeRecords, Ids, Numbers
  <2>3. \A o \in Requests : Numbered(o) => job[o].number \in 1..MaxNumber /\ job[o].number <= used
    BY Shapes DEF Numbers, Numbered, AskingJobs, ReadyJobs, TxJobs, InTx
  <2>4. ASSUME NEW o \in Requests \ {q}, Numbered(o)'
        PROVE  /\ (job[o].number <= used)'
               /\ \A r \in (holdings \cup trades)' : r.id[1] # job'[o].number
               /\ \A p \in Requests : Numbered(p)' /\ p # o => job'[p].number # job'[o].number
               /\ job'[o].pc \in {"ensure", "open"} =>
                    (\A i \in 1..Len(accounts) : accounts[i].id # job[o].number)'
    BY <1>1, <1>2, <1>3, <1>4, <1>5, <2>3, <2>4 DEF Numbers, rows
  <2>5. /\ (job[q].number <= used)'
        /\ \A r \in (holdings \cup trades)' : r.id[1] # job'[q].number
        /\ \A p \in Requests : Numbered(p)' /\ p # q => job'[p].number # job'[q].number
        /\ (\A i \in 1..Len(accounts) : accounts[i].id # job[q].number)'
    BY <1>1, <1>2, <1>3, <1>4, <1>5, <2>1, <2>2, <2>3 DEF rows
  <2>6. /\ (\A i \in 1..Len(accounts) : accounts[i].id <= used)'
        /\ (\A r \in holdings \cup trades : r.id[1] <= used)'
    BY <1>1, <1>3, <2>1, <2>2 DEF rows
  <2> QED BY <2>4, <2>5, <2>6 DEF Numbers
<1>8. Unshown'
  <2>1. ~ InTx(q)'
    BY <1>2, <1>4 DEF InTx
  <2>2. \A o \in Requests : TxOK(job'[o]) => TxOK(job[o])'
    BY <1>3 DEF TxOK, rows, AccountIds
  <2> QED BY <1>4, <1>5, <2>1, <2>2 DEF Unshown
<1>9. Patching'
  <2>1. ASSUME NEW o \in Requests, job'[o].pc = "patch" PROVE PatchOK(job[o].row)'
    <3>1. o # q /\ job'[o] = job[o]
      BY <1>2, <1>4, <2>1
    <3>2. PatchOK(job[o].row) /\ job[o].row.id[1] \in 1..MaxNumber
      BY <2>1, <3>1, Shapes DEF Patching, PatchJobs, HoldingRecords, Ids
    <3>3. \A p \in Requests : Numbered(p)' => job'[p].number # job[o].row.id[1]
      BY <1>1, <1>2, <1>4, <1>5, <3>2 DEF PatchOK
    <3>4. job[o].row.id[1] <= used'
      BY <1>1, <3>2 DEF PatchOK
    <3> QED BY <1>3, <3>1, <3>2, <3>3, <3>4 DEF PatchOK, rows
  <2> QED BY <2>1 DEF Patching
<1> QED BY <1>4, <1>6, <1>7, <1>8, <1>9

(* A new account with a number that no other has.                          *)
LEMMA AccountAdded ==
  ASSUME RowTypes, NEW a \in AccountRecords, accounts' = Append(accounts, a)
  PROVE  /\ accounts' \in Seq(AccountRecords)
         /\ Len(accounts') = Len(accounts) + 1 /\ Len(accounts) \in Nat
         /\ accounts'[Len(accounts) + 1] = a
         /\ \A i \in 1..Len(accounts) : accounts'[i] = accounts[i]
         /\ AccountIds' = AccountIds \cup {a.id}
<1>1. accounts \in Seq(AccountRecords)
  BY DEF RowTypes
<1>2. accounts' \in Seq(AccountRecords) /\ Len(accounts') = Len(accounts) + 1 /\ Len(accounts) \in Nat
  BY <1>1
<1>3. /\ accounts'[Len(accounts) + 1] = a
      /\ \A i \in 1..Len(accounts) : accounts'[i] = accounts[i]
  BY <1>1
<1>4. \A i \in 1..Len(accounts') : i = Len(accounts) + 1 \/ i \in 1..Len(accounts)
  BY <1>2
<1>5. AccountIds' = {accounts'[i].id : i \in 1..Len(accounts')}
  BY DEF AccountIds
<1>6. AccountIds' \subseteq AccountIds \cup {a.id}
  BY <1>3, <1>4, <1>5 DEF AccountIds
<1>7. AccountIds \cup {a.id} \subseteq AccountIds'
  BY <1>2, <1>3, <1>5 DEF AccountIds
<1> QED BY <1>2, <1>3, <1>6, <1>7

(* An account is created under a number nobody has.                        *)
LEMMA CreateAccountStep ==
  ASSUME StoreInv, NEW q \in Requests, NEW type \in Types, CreateAccount(q, type)
  PROVE  StoreInv'
<1> USE DEF StoreInv
<1> DEFINE a == [id |-> used + 1, type |-> type, default |-> FALSE]
<1>1. used \in Nat /\ used + 1 \in 1..MaxNumber /\ used' = used + 1
  BY BoundAssumption DEF CreateAccount, RowTypes
<1>2. a \in AccountRecords /\ a.id = used + 1
  BY <1>1 DEF AccountRecords
<1>3. UNCHANGED <<storage, serial, edits, holdings, trades, imports, job>> /\ accounts' = Append(accounts, a)
  BY DEF CreateAccount
<1> HIDE DEF a
<1>4. /\ accounts' \in Seq(AccountRecords)
      /\ Len(accounts') = Len(accounts) + 1 /\ Len(accounts) \in Nat
      /\ accounts'[Len(accounts) + 1] = a
      /\ \A i \in 1..Len(accounts) : accounts'[i] = accounts[i]
      /\ AccountIds' = AccountIds \cup {a.id}
  BY <1>2, <1>3, AccountAdded
<1>5. RowTypes' /\ JobTypes' /\ AllFinite' /\ NothingHalfImported' /\ NoOrphans'
  BY <1>1, <1>3, <1>4 DEF RowTypes, JobTypes, AllFinite, NothingHalfImported, NoOrphans
<1>6. \A i \in 1..Len(accounts) : accounts[i].id \in 1..MaxNumber /\ accounts[i].id <= used
  <2>1. \A i \in 1..Len(accounts) : accounts[i] \in AccountRecords
    BY DEF RowTypes
  <2> QED BY <2>1 DEF AccountRecords, Numbers
<1>7. \A r \in holdings \cup trades : r.id[1] \in 1..MaxNumber /\ r.id[1] <= used
  BY DEF RowTypes, HoldingRecords, TradeRecords, Ids, Numbers
<1>8. \A o \in Requests : Numbered(o) => job[o].number \in 1..MaxNumber /\ job[o].number <= used
  BY Shapes DEF Numbers, Numbered, AskingJobs, ReadyJobs, TxJobs, InTx
<1>9. \A i \in 1..Len(accounts') : i = Len(accounts) + 1 \/ i \in 1..Len(accounts)
  BY <1>4
<1>10. Unique'
  <2>1. \A i, j \in 1..Len(accounts') : accounts'[i].id = accounts'[j].id => i = j
    BY <1>1, <1>2, <1>4, <1>6, <1>9 DEF Unique
  <2> QED BY <1>3, <2>1 DEF Unique
<1>11. Numbers'
  <2>1. \A i \in 1..Len(accounts') : accounts'[i].id <= used'
    BY <1>1, <1>2, <1>4, <1>6, <1>9
  <2>2. \A r \in holdings \cup trades : r.id[1] <= used'
    BY <1>1, <1>7
  <2>3. \A o \in Requests : Numbered(o) =>
          /\ job[o].number <= used'
          /\ job[o].pc \in {"ensure", "open"} =>
               \A i \in 1..Len(accounts') : accounts'[i].id # job[o].number
    BY <1>1, <1>2, <1>4, <1>8, <1>9 DEF Numbers
  <2> QED BY <1>3, <2>1, <2>2, <2>3 DEF Numbers, Numbered
<1>12. Unshown'
  <2>1. \A o \in Requests : TxOK(job[o]) => TxOK(job[o])'
    BY <1>3, <1>4 DEF TxOK
  <2> QED BY <1>3, <2>1 DEF Unshown, InTx
<1>13. Patching'
  <2>1. \A o \in Requests : job[o].pc = "patch" => job[o].row.id[1] \in 1..MaxNumber
    BY Shapes DEF PatchJobs, HoldingRecords, Ids
  <2>2. \A o \in Requests : job[o].pc = "patch" /\ PatchOK(job[o].row) => PatchOK(job[o].row)'
    BY <1>1, <1>3, <2>1 DEF PatchOK, Numbered
  <2> QED BY <1>3, <2>2 DEF Patching
<1> QED BY <1>5, <1>10, <1>11, <1>12, <1>13

(* The default account is opened, unless one is there by now.              *)
LEMMA OpenDefaultStep ==
  ASSUME StoreInv, NEW q \in Requests, OpenDefault(q)
  PROVE  StoreInv'
<1> USE DEF StoreInv
<1> DEFINE a == [id |-> job[q].number, type |-> "TFSA", default |-> TRUE]
           j == Ready(job[q], job[q].number)
<1>1. Numbered(q) /\ job[q].pc \in {"ensure", "open"} /\ job[q] \in AskingJobs
  BY Shapes DEF OpenDefault, Numbered
<1>2. a \in AccountRecords /\ a.id = job[q].number
  BY <1>1 DEF AccountRecords, AskingJobs
<1>3. j \in ReadyJobs /\ j.pc = "ready" /\ j.number = job[q].number
  BY <1>1 DEF Ready, ReadyJobs, AskingJobs
<1>4. /\ UNCHANGED <<storage, serial, used, edits, holdings, trades, imports>>
      /\ accounts' = Append(accounts, a) /\ Becomes(q, j)
  BY DEF OpenDefault
<1> HIDE DEF a, j
<1>5. /\ accounts' \in Seq(AccountRecords)
      /\ Len(accounts') = Len(accounts) + 1 /\ Len(accounts) \in Nat
      /\ accounts'[Len(accounts) + 1] = a
      /\ \A i \in 1..Len(accounts) : accounts'[i] = accounts[i]
      /\ AccountIds' = AccountIds \cup {a.id}
  BY <1>2, <1>4, AccountAdded
<1>6. JobTypes' /\ job'[q] = j /\ \A o \in Requests \ {q} : job'[o] = job[o]
  BY <1>3, <1>4, BecomesJob DEF Jobs
<1>7. RowTypes' /\ AllFinite' /\ NothingHalfImported' /\ NoOrphans'
  BY <1>4, <1>5 DEF RowTypes, AllFinite, NothingHalfImported, NoOrphans
<1>8. \A i \in 1..Len(accounts') : i = Len(accounts) + 1 \/ i \in 1..Len(accounts)
  BY <1>5
<1>9. Unique'
  <2>1. \A i \in 1..Len(accounts) : accounts[i].id # a.id
    BY <1>1, <1>2 DEF Numbers
  <2>2. \A i, k \in 1..Len(accounts') : accounts'[i].id = accounts'[k].id => i = k
    BY <1>5, <1>8, <2>1 DEF Unique
  <2> QED BY <1>4, <2>2 DEF Unique
<1>10. \A o \in Requests : Numbered(o)' => Numbered(o) /\ job'[o].number = job[o].number
  BY <1>1, <1>3, <1>6 DEF Numbered
<1>11. Numbers'
  <2>1. \A i \in 1..Len(accounts') : accounts'[i].id <= used
    BY <1>1, <1>2, <1>5, <1>8 DEF Numbers
  <2>2. ASSUME NEW o \in Requests, Numbered(o)', job'[o].pc \in {"ensure", "open"}
        PROVE  \A i \in 1..Len(accounts') : accounts'[i].id # job'[o].number
    <3>1. o # q /\ job'[o] = job[o] /\ Numbered(o)
      BY <1>3, <1>6, <1>10, <2>2
    <3>2. a.id # job[o].number
      BY <1>1, <1>2, <3>1 DEF Numbers
    <3> QED BY <1>5, <1>8, <2>2, <3>1, <3>2 DEF Numbers
  <2>3. \A o \in Requests : Numbered(o)' =>
          /\ job'[o].number <= used
          /\ \A r \in holdings \cup trades : r.id[1] # job'[o].number
          /\ \A p \in Requests : Numbered(p)' /\ p # o => job'[p].number # job'[o].number
    BY <1>10 DEF Numbers
  <2>4. \A r \in holdings \cup trades : r.id[1] <= used
    BY DEF Numbers
  <2> QED BY <1>4, <2>1, <2>2, <2>3, <2>4 DEF Numbers
<1>12. Unshown'
  <2>1. ~ InTx(q)' /\ \A o \in Requests \ {q} : InTx(o)' => InTx(o) /\ TxOK(job[o])
    BY <1>3, <1>6 DEF InTx, Unshown
  <2>2. \A o \in Requests \ {q} : TxOK(job[o]) => TxOK(job[o])'
    BY <1>4, <1>5, <1>6 DEF TxOK
  <2> QED BY <2>1, <2>2 DEF Unshown
<1>13. Patching'
  <2>1. ASSUME NEW o \in Requests, job'[o].pc = "patch" PROVE PatchOK(job[o].row)'
    <3>1. o # q /\ job'[o] = job[o]
      BY <1>3, <1>6, <2>1
    <3>2. PatchOK(job[o].row)
      BY <2>1, <3>1 DEF Patching
    <3> QED BY <1>4, <1>10, <3>1, <3>2 DEF PatchOK
  <2> QED BY <2>1 DEF Patching
<1> QED BY <1>6, <1>7, <1>9, <1>11, <1>12, <1>13

(* A request that is done has stored rows with its own number.             *)
LEMMA AddedStep ==
  ASSUME StoreInv, NEW q \in Requests, Numbered(q), Becomes(q, Idle),
         UNCHANGED <<storage, serial, used, edits, accounts>>,
         NEW gone, NEW hs \in SUBSET HoldingRecords, NEW ts \in SUBSET TradeRecords,
         IsFiniteSet(hs), IsFiniteSet(ts),
         holdings' = (holdings \ gone) \cup hs, trades' = trades \cup ts,
         \A r \in hs \cup ts : r.id[1] = job[q].number,
         \A h, k \in hs : h.id = k.id => h = k,
         storage = "postgres" => \A r \in hs \cup ts : r.account \in AccountIds,
         imports' \subseteq ImportRecords, imports \subseteq imports',
         \/ \E m \in imports' : m.number = job[q].number
         \/ ts = {} /\ \A h \in hs : h.manual
  PROVE  StoreInv'
<1> USE DEF StoreInv
<1>1. JobTypes' /\ job'[q] = Idle /\ \A o \in Requests \ {q} : job'[o] = job[o]
  BY IdleIsJob, BecomesJob
<1>2. /\ ~ Numbered(q)' /\ ~ InTx(q)' /\ job'[q].pc # "patch"
      /\ \A o \in Requests \ {q} : /\ Numbered(o)' <=> Numbered(o)
                                   /\ InTx(o)' <=> InTx(o)
  BY <1>1 DEF Numbered, InTx, Idle
<1>3. RowTypes'
  BY DEF RowTypes
<1>4. AllFinite'
  <2>1. IsFiniteSet(holdings \ gone)
    BY FS_Subset DEF AllFinite
  <2>2. IsFiniteSet((holdings \ gone) \cup hs) /\ IsFiniteSet(trades \cup ts)
    BY <2>1, FS_Union DEF AllFinite
  <2> QED BY <2>2 DEF AllFinite
<1>5. \A r \in holdings \cup trades : r.id[1] # job[q].number
  BY DEF Numbers
<1>6. Unique'
  <2>1. \A h \in holdings : \A k \in hs : h.id # k.id
    BY <1>5
  <2>2. \A h, k \in holdings' : h.id = k.id => h = k
    BY <2>1 DEF Unique
  <2>3. (\A i, j \in 1..Len(accounts) : accounts[i].id = accounts[j].id => i = j)'
    BY DEF Unique
  <2> QED BY <2>2, <2>3 DEF Unique
<1>7. \A r \in holdings' \cup trades' : r \in holdings \cup trades \/ r \in hs \cup ts
  OBVIOUS
<1>8. Numbers'
  <2>1. ASSUME NEW o \in Requests, Numbered(o)'
        PROVE  /\ (job[o].number <= used)'
               /\ \A r \in holdings' \cup trades' : r.id[1] # job'[o].number
               /\ \A p \in Requests : Numbered(p)' /\ p # o => job'[p].number # job'[o].number
               /\ job'[o].pc \in {"ensure", "open"} =>
                    (\A i \in 1..Len(accounts) : accounts[i].id # job[o].number)'
    <3>1. o # q /\ Numbered(o) /\ job'[o] = job[o]
      BY <1>1, <1>2, <2>1
    <3>2. job[o].number # job[q].number
      BY <3>1 DEF Numbers
    <3>3. \A r \in holdings' \cup trades' : r.id[1] # job'[o].number
      BY <1>7, <3>1, <3>2 DEF Numbers
    <3> QED BY <1>1, <1>2, <3>1, <3>3 DEF Numbers
  <2>2. \A r \in holdings' \cup trades' : r.id[1] <= used
    BY <1>7 DEF Numbers
  <2> QED BY <2>1, <2>2 DEF Numbers
<1>9. Unshown'
  <2>1. \A o \in Requests \ {q} : TxOK(job[o]) => TxOK(job[o])'
    BY <1>1 DEF TxOK, AccountIds
  <2> QED BY <1>1, <1>2, <2>1 DEF Unshown
<1>10. Patching'
  <2>1. ASSUME NEW o \in Requests, job'[o].pc = "patch" PROVE PatchOK(job[o].row)'
    <3>1. o # q /\ job'[o] = job[o]
      BY <1>2, <2>1, <1>1
    <3>2. PatchOK(job[o].row)
      BY <2>1, <3>1 DEF Patching
    <3>3. \A k \in hs : k.id # job[o].row.id
      BY <3>2 DEF PatchOK
    <3>4. \A k \in holdings' : k.id = job[o].row.id => k \in holdings
      BY <3>3
    <3>5. \A p \in Requests : Numbered(p)' => job'[p].number # job[o].row.id[1]
      BY <1>1, <1>2, <3>2 DEF PatchOK
    <3> QED BY <3>1, <3>2, <3>4, <3>5 DEF PatchOK
  <2> QED BY <2>1 DEF Patching
<1>11. NothingHalfImported'
  BY DEF NothingHalfImported
<1>12. NoOrphans'
  BY DEF NoOrphans, AccountIds
<1> QED BY <1>1, <1>3, <1>4, <1>6, <1>8, <1>9, <1>10, <1>11, <1>12

(* A holding that is entered by hand is stored.                            *)
LEMMA CreateHoldingStep ==
  ASSUME StoreInv, NEW q \in Requests, CreateHolding(q) PROVE StoreInv'
<1>1. job[q].pc = "ready" /\ Numbered(q) /\ job[q] \in ReadyJobs /\ job[q].what \in Manual
  BY Shapes DEF StoreInv, CreateHolding, Numbered
<1> DEFINE what == job[q].what
           row == HoldingOf(Quoted(what), job[q].number, 0, job[q].account, TRUE)
           hs == IF HasAccount(job[q].account) THEN {row} ELSE {}
<1>2. row \in HoldingRecords
  <2>1. what \in [symbol : DOMAIN Price, quantity : Int, cost : Int, value : Int]
    BY <1>1, ManualAssumption
  <2>2. Price[what.symbol] \in Int
    BY <2>1, PriceAssumption
  <2>3. what.quantity * Price[what.symbol] \in Int
    BY <2>1, <2>2
  <2>4. /\ Quoted(what).symbol \in DOMAIN Price /\ Quoted(what).quantity \in Int
        /\ Quoted(what).cost \in Int /\ Quoted(what).value \in Int
    BY <2>1, <2>3 DEF Quoted
  <2> HIDE DEF what
  <2> QED BY <1>1, <2>4, NewHolding DEF ReadyJobs
<1>3. row.id[1] = job[q].number /\ row.account = job[q].account /\ row.manual = TRUE
  BY DEF HoldingOf
<1> HIDE DEF row
<1>4. hs \in SUBSET HoldingRecords /\ IsFiniteSet(hs)
  BY <1>2, FS_EmptySet, FS_Singleton
<1>5. holdings' = (holdings \ {}) \cup hs /\ trades' = trades \cup {} /\ imports' = imports
  BY DEF CreateHolding, row
<1>6. /\ \A r \in hs \cup {} : r.id[1] = job[q].number
      /\ \A h, k \in hs : h.id = k.id => h = k
      /\ \A h \in hs : h.manual
      /\ storage = "postgres" => \A r \in hs \cup {} : r.account \in AccountIds
  BY <1>3 DEF HasAccount
<1>7. /\ Becomes(q, Idle) /\ UNCHANGED <<storage, serial, used, edits, accounts>>
      /\ imports' \subseteq ImportRecords
  BY DEF CreateHolding, StoreInv, RowTypes
<1> HIDE DEF hs
<1>8. IsFiniteSet({}) /\ {} \in SUBSET TradeRecords
  BY FS_EmptySet
<1> QED BY <1>1, <1>4, <1>5, <1>6, <1>7, <1>8, AddedStep

(* The record of an import has its number and its counts.                  *)
LEMMA ImportRecorded ==
  ASSUME StoreInv, NEW q \in Requests, job[q].what \in Imports, job[q].number \in 1..MaxNumber,
         imports' = imports \cup {ImportOf(job[q])}
  PROVE  /\ imports' \subseteq ImportRecords /\ imports \subseteq imports'
         /\ \E m \in imports' : m.number = job[q].number
<1>1. /\ job[q].what.holdings \in Seq(HoldingLines) /\ job[q].what.bad \in Nat
      /\ job[q].what.trades \in Seq(Lines(job[q].what, "trades"))
  BY ImportTypes
<1>2. Len(job[q].what.holdings) + Len(job[q].what.trades) \in Nat
  <2>1. Len(job[q].what.holdings) \in Nat
    BY <1>1
  <2>2. Len(job[q].what.trades) \in Nat
    BY <1>1
  <2> DEFINE m == Len(job[q].what.holdings)
             n == Len(job[q].what.trades)
  <2> HIDE DEF m, n
  <2>3. m \in Nat /\ n \in Nat
    BY <2>1, <2>2 DEF m, n
  <2>4. m + n \in Nat
    BY <2>3
  <2> QED BY <2>4 DEF m, n
<1>3. ImportOf(job[q]) \in ImportRecords /\ ImportOf(job[q]).number = job[q].number
  BY <1>1, <1>2 DEF ImportOf, ImportRecords
<1> QED BY <1>3 DEF StoreInv, RowTypes

(* An import into memory is one step.                                      *)
LEMMA ImportToMemoryStep ==
  ASSUME StoreInv, NEW q \in Requests, ImportToMemory(q) PROVE StoreInv'
<1>1. /\ job[q].pc = "ready" /\ Numbered(q) /\ job[q] \in ReadyJobs
      /\ job[q].what \in Imports /\ storage = "memory"
  BY Shapes DEF StoreInv, ImportToMemory, Numbered
<1> DEFINE j == job[q]
           w == j.what
           row(i) == HoldingOf(w.holdings[i], j.number, i, j.account, FALSE)
           trade(i) == TradeOf(w.trades[i], j.number, i, j.account)
           hs == {row(i) : i \in Places(w.holdings)}
           ts == {trade(i) : i \in Places(w.trades)}
<1>2. j.number \in 1..MaxNumber /\ j.account \in 1..MaxNumber
  BY <1>1 DEF ReadyJobs
<1>3. w.holdings \in Seq(HoldingLines) /\ w.trades \in Seq(Lines(w, "trades"))
  BY <1>1, ImportTypes
<1>4. ASSUME NEW i \in Places(w.holdings)
      PROVE  row(i) \in HoldingRecords /\ row(i).id = <<j.number, i>>
  <2>1. i \in Nat /\ w.holdings[i] \in HoldingLines
    BY <1>3 DEF Places
  <2>2. row(i) \in HoldingRecords
    <3> HIDE DEF w, j
    <3> QED BY <1>2, <2>1, NewHolding DEF HoldingLines
  <2> QED BY <2>2 DEF HoldingOf
<1>5. ASSUME NEW i \in Places(w.trades)
      PROVE  trade(i) \in TradeRecords /\ trade(i).id = <<j.number, i>>
  <2>1. trade(i) \in TradeRecords
    BY <1>1, <1>2, NewTrade DEF Places
  <2> QED BY <2>1 DEF TradeOf
<1> HIDE DEF row, trade, w, j
<1>6. IsFiniteSet(hs) /\ IsFiniteSet(ts)
  <2>1. IsFiniteSet(Places(w.holdings)) /\ IsFiniteSet(Places(w.trades))
    BY <1>3, FS_Interval DEF Places
  <2> DEFINE f == [i \in Places(w.holdings) |-> row(i)]
             e == [i \in Places(w.trades) |-> trade(i)]
  <2>2. hs = {f[i] : i \in Places(w.holdings)} /\ ts = {e[i] : i \in Places(w.trades)}
    OBVIOUS
  <2> HIDE DEF f, e, hs, ts
  <2> QED BY <2>1, <2>2, ImageFinite
<1>7. hs \in SUBSET HoldingRecords /\ ts \in SUBSET TradeRecords
  BY <1>4, <1>5
<1>8. /\ \A r \in hs \cup ts : r.id[1] = job[q].number
      /\ \A h, k \in hs : h.id = k.id => h = k
  BY <1>4, <1>5 DEF j
<1>9. holdings' = (holdings \ {}) \cup hs /\ trades' = trades \cup ts
  BY DEF ImportToMemory, row, trade, w, j
<1>10. /\ Becomes(q, Idle) /\ UNCHANGED <<storage, serial, used, edits, accounts>>
       /\ imports' = imports \cup {ImportOf(job[q])}
  BY DEF ImportToMemory
<1>11. /\ imports' \subseteq ImportRecords /\ imports \subseteq imports'
       /\ \E m \in imports' : m.number = job[q].number
  BY <1>1, <1>2, <1>10, ImportRecorded DEF j
<1> HIDE DEF hs, ts
<1> QED BY <1>1, <1>6, <1>7, <1>8, <1>9, <1>10, <1>11, AddedStep

(* A transaction shows all it did at once.                                 *)
LEMMA CommitStep ==
  ASSUME StoreInv, NEW q \in Requests, Commit(q) PROVE StoreInv'
<1>1. /\ Numbered(q) /\ job[q] \in TxJobs /\ TxOK(job[q])
  BY Shapes DEF StoreInv, Unshown, Commit, Numbered, InTx
<1> DEFINE hs == job[q].new
           ts == job[q].newTrades
<1>2. /\ holdings' = (holdings \ job[q].gone) \cup hs /\ trades' = trades \cup ts
      /\ imports' = imports \cup {ImportOf(job[q])}
      /\ Becomes(q, Idle) /\ UNCHANGED <<storage, serial, used, edits, accounts>>
  BY DEF Commit
<1>3. /\ job[q].what \in Imports /\ job[q].number \in 1..MaxNumber
      /\ hs \in SUBSET HoldingRecords /\ ts \in SUBSET TradeRecords
  BY <1>1 DEF TxJobs
<1>4. /\ imports' \subseteq ImportRecords /\ imports \subseteq imports'
      /\ \E m \in imports' : m.number = job[q].number
  BY <1>2, <1>3, ImportRecorded
<1>5. /\ IsFiniteSet(hs) /\ IsFiniteSet(ts)
      /\ \A r \in hs \cup ts : r.id[1] = job[q].number
      /\ \A h, k \in hs : h.id = k.id => h = k
      /\ storage = "postgres" => \A r \in hs \cup ts : r.account \in AccountIds
  BY <1>1 DEF TxOK
<1> HIDE DEF hs, ts
<1> QED BY <1>1, <1>2, <1>3, <1>4, <1>5, AddedStep

(* A holding is changed or goes, and keeps its account and its symbol.     *)
LEMMA HoldingsStep ==
  ASSUME StoreInv, NEW q \in Requests, job' = job \/ Becomes(q, Idle),
         UNCHANGED <<storage, serial, used, accounts, trades, imports>>, edits' \in 0..MaxEdits,
         holdings' \subseteq HoldingRecords, IsFiniteSet(holdings'),
         \A h, k \in holdings' : h.id = k.id => h = k,
         \A h \in holdings' : \E k \in holdings :
           h.id = k.id /\ h.account = k.account /\ h.symbol = k.symbol /\ h.manual = k.manual
  PROVE  StoreInv'
<1> USE DEF StoreInv
<1>1. /\ JobTypes'
      /\ \A o \in Requests : job'[o] = job[o] \/ job'[o] = Idle
  <2>1. CASE job' = job
    BY <2>1 DEF JobTypes
  <2>2. CASE Becomes(q, Idle)
    BY <2>2, IdleIsJob, BecomesJob
  <2> QED BY <2>1, <2>2
<1>2. \A o \in Requests : Numbered(o)' \/ InTx(o)' \/ job'[o].pc = "patch" => job'[o] = job[o]
  BY <1>1 DEF Numbered, InTx, Idle
<1>3. \A o \in Requests : (Numbered(o)' => Numbered(o)) /\ (InTx(o)' => InTx(o))
  BY <1>2 DEF Numbered, InTx
<1>4. RowTypes' /\ AllFinite'
  BY DEF RowTypes, AllFinite
<1>5. Unique'
  BY DEF Unique
<1>6. Numbers'
  <2>1. ASSUME NEW r \in holdings' \cup trades' PROVE \E k \in holdings \cup trades : k.id = r.id
    OBVIOUS
  <2>2. \A r \in holdings' \cup trades' : r.id[1] <= used
    BY <2>1 DEF Numbers
  <2>3. ASSUME NEW o \in Requests, Numbered(o)'
        PROVE  /\ (job[o].number <= used)'
               /\ \A r \in holdings' \cup trades' : r.id[1] # job'[o].number
               /\ \A p \in Requests : Numbered(p)' /\ p # o => job'[p].number # job'[o].number
               /\ job'[o].pc \in {"ensure", "open"} =>
                    (\A i \in 1..Len(accounts) : accounts[i].id # job[o].number)'
    BY <1>2, <1>3, <2>1, <2>3 DEF Numbers
  <2> QED BY <2>2, <2>3 DEF Numbers
<1>7. Unshown'
  <2>1. \A o \in Requests : InTx(o)' => job'[o] = job[o] /\ TxOK(job[o])
    BY <1>2, <1>3 DEF Unshown
  <2>2. \A o \in Requests : job'[o] = job[o] /\ TxOK(job[o]) => TxOK(job[o])'
    BY DEF TxOK, AccountIds
  <2> QED BY <2>1, <2>2 DEF Unshown
<1>8. Patching'
  <2>1. ASSUME NEW o \in Requests, job'[o].pc = "patch" PROVE PatchOK(job[o].row)'
    <3>1. job'[o] = job[o] /\ PatchOK(job[o].row)
      BY <1>2, <2>1 DEF Patching
    <3>2. \A p \in Requests : Numbered(p)' => job'[p].number # job[o].row.id[1]
      BY <1>2, <1>3, <3>1 DEF PatchOK
    <3>3. ASSUME NEW k \in holdings', k.id = job[o].row.id
          PROVE  /\ k.account = job[o].row.account /\ k.symbol = job[o].row.symbol
                 /\ k.manual = job[o].row.manual
      <4>1. PICK h \in holdings :
              k.id = h.id /\ k.account = h.account /\ k.symbol = h.symbol /\ k.manual = h.manual
        OBVIOUS
      <4> QED BY <3>1, <3>3, <4>1 DEF PatchOK
    <3> QED BY <3>1, <3>2, <3>3 DEF PatchOK
  <2> QED BY <2>1 DEF Patching
<1>9. NothingHalfImported'
  <2>1. ASSUME NEW h \in holdings', ~ h.manual PROVE \E m \in imports : m.number = h.id[1]
    <3>1. PICK k \in holdings : h.id = k.id /\ h.manual = k.manual
      OBVIOUS
    <3> QED BY <2>1, <3>1 DEF NothingHalfImported
  <2> QED BY <2>1 DEF NothingHalfImported
<1>10. NoOrphans'
  <2>1. storage = "postgres" => \A h \in holdings' : h.account \in AccountIds
    BY DEF NoOrphans
  <2> QED BY <2>1 DEF NoOrphans, AccountIds
<1> QED BY <1>1, <1>4, <1>5, <1>6, <1>7, <1>8, <1>9, <1>10

(* A row is written over with what was read and patched.                   *)
LEMMA RewrittenStep ==
  ASSUME StoreInv, NEW q \in Requests, job' = job \/ Becomes(q, Idle),
         UNCHANGED <<storage, serial, used, accounts, trades, imports>>, edits' \in 0..MaxEdits,
         NEW row \in HoldingRecords, holdings' = Rewritten(row),
         \A k \in holdings : k.id = row.id =>
           k.account = row.account /\ k.symbol = row.symbol /\ k.manual = row.manual
  PROVE  StoreInv'
<1>1. holdings' \subseteq {k \in holdings : k.id # row.id} \cup {row}
  BY DEF Rewritten
<1>2. holdings' \subseteq HoldingRecords /\ IsFiniteSet(holdings')
  <2>1. IsFiniteSet({k \in holdings : k.id # row.id})
    BY FS_Subset DEF StoreInv, AllFinite
  <2>2. IsFiniteSet({k \in holdings : k.id # row.id} \cup {row})
    BY <2>1, FS_AddElement
  <2> QED BY <1>1, <2>2, FS_Subset DEF StoreInv, RowTypes
<1>3. \A h, k \in holdings' : h.id = k.id => h = k
  BY <1>1 DEF StoreInv, Unique
<1>4. \A h \in holdings' : \E k \in holdings :
        h.id = k.id /\ h.account = k.account /\ h.symbol = k.symbol /\ h.manual = k.manual
  BY DEF Rewritten
<1> QED BY <1>2, <1>3, <1>4, HoldingsStep

(* A patch in memory is one step, over Postgres it begins with a read.     *)
LEMMA PatchStep ==
  ASSUME StoreInv, NEW q \in Requests, NEW h \in holdings, NEW p \in Patches,
         PatchInMemory(q, h, p) \/ ReadToPatch(q, h, p)
  PROVE  StoreInv'
<1>1. h \in HoldingRecords
  BY DEF StoreInv, RowTypes
<1> DEFINE row == Patched(h, p)
<1>2. /\ row \in HoldingRecords /\ row.id = h.id /\ row.account = h.account
      /\ row.symbol = h.symbol /\ row.manual = h.manual
  BY <1>1, PatchedRow
<1>3. edits' \in 0..MaxEdits
  BY BoundAssumption DEF StoreInv, RowTypes, PatchInMemory, ReadToPatch, MayEdit
<1>4. \A k \in holdings : k.id = row.id =>
        k.account = row.account /\ k.symbol = row.symbol /\ k.manual = row.manual
  BY <1>2 DEF StoreInv, Unique
<1>5. CASE PatchInMemory(q, h, p)
  <2>1. /\ holdings' = Rewritten(row)
        /\ UNCHANGED <<storage, serial, used, accounts, trades, imports, job>>
    BY <1>5 DEF PatchInMemory
  <2> HIDE DEF row
  <2> QED BY <1>2, <1>3, <1>4, <2>1, RewrittenStep
<1>6. CASE ReadToPatch(q, h, p)
  <2> DEFINE j == [pc |-> "patch", row |-> row]
  <2>1. /\ Becomes(q, j) /\ storage = "postgres"
        /\ UNCHANGED <<storage, serial, used, rows>>
    BY <1>6 DEF ReadToPatch
  <2>2. j \in PatchJobs /\ j.pc = "patch" /\ j.row = row
    BY <1>2 DEF PatchJobs
  <2>3. PatchOK(row)
    BY <1>2, <1>4, <2>1 DEF PatchOK, StoreInv, Numbers
  <2> HIDE DEF row, j
  <2> QED BY <1>3, <2>1, <2>2, <2>3, JobStep DEF Jobs
<1> QED BY <1>5, <1>6

(* And over Postgres it ends with a write, of a row that may be gone.      *)
LEMMA WritePatchStep ==
  ASSUME StoreInv, NEW q \in Requests, WritePatch(q) PROVE StoreInv'
<1>1. job[q].pc = "patch" /\ job[q].row \in HoldingRecords /\ PatchOK(job[q].row)
  BY Shapes DEF StoreInv, Patching, WritePatch, PatchJobs
<1>2. /\ holdings' = Rewritten(job[q].row) /\ Becomes(q, Idle) /\ edits' \in 0..MaxEdits
      /\ UNCHANGED <<storage, serial, used, accounts, trades, imports>>
  BY DEF WritePatch, StoreInv, RowTypes
<1>3. \A k \in holdings : k.id = job[q].row.id =>
        /\ k.account = job[q].row.account /\ k.symbol = job[q].row.symbol
        /\ k.manual = job[q].row.manual
  BY <1>1 DEF PatchOK
<1> QED BY <1>1, <1>2, <1>3, RewrittenStep

(* A holding is deleted.                                                   *)
LEMMA DeleteHoldingStep ==
  ASSUME StoreInv, NEW q \in Requests, NEW h \in holdings, DeleteHolding(q, h) PROVE StoreInv'
<1>1. /\ holdings' = holdings \ {h}
      /\ UNCHANGED <<storage, serial, used, accounts, trades, imports, job>>
      /\ edits' \in 0..MaxEdits
  BY BoundAssumption DEF DeleteHolding, MayEdit, StoreInv, RowTypes
<1>2. holdings' \subseteq HoldingRecords /\ IsFiniteSet(holdings')
  BY <1>1, FS_Subset DEF StoreInv, RowTypes, AllFinite
<1>3. \A g, k \in holdings' : g.id = k.id => g = k
  BY <1>1 DEF StoreInv, Unique
<1> QED BY <1>1, <1>2, <1>3, HoldingsStep

(* An account is deleted, over Postgres with its rows.                     *)
LEMMA DeleteAccountStep ==
  ASSUME StoreInv, NEW q \in Requests, NEW i \in 1..Len(accounts), DeleteAccount(q, i)
  PROVE  StoreInv'
<1> USE DEF StoreInv
<1> DEFINE a == accounts[i].id
<1>1. /\ accounts' = Without(accounts, i) /\ edits' \in 0..MaxEdits
      /\ UNCHANGED <<storage, serial, used, imports, job>>
      /\ \A o \in Requests : ~ LocksAccount(o, a)
  BY BoundAssumption DEF DeleteAccount, MayEdit, RowTypes
<1>2. /\ holdings' \subseteq holdings /\ trades' \subseteq trades
      /\ storage = "postgres" => \A r \in holdings' \cup trades' : r.account # a
  BY DEF DeleteAccount
<1>3. /\ accounts' \in Seq(AccountRecords) /\ Len(accounts') = Len(accounts) - 1
      /\ Len(accounts) \in Nat
      /\ \A k \in 1..(Len(accounts) - 1) : accounts'[k] = accounts[IF k < i THEN k ELSE k + 1]
      /\ \A k \in 1..Len(accounts) : k # i =>
           \E m \in 1..(Len(accounts) - 1) : accounts'[m] = accounts[k]
  <2>1. accounts \in Seq(AccountRecords)
    BY DEF RowTypes
  <2>2. Len(accounts) \in Nat
    BY <2>1
  <2> QED BY <1>1, <2>1, <2>2, WithoutOne
<1> DEFINE at(k) == IF k < i THEN k ELSE k + 1
<1>4. /\ \A k \in 1..Len(accounts') : at(k) \in 1..Len(accounts) /\ accounts'[k] = accounts[at(k)]
      /\ \A k, m \in 1..Len(accounts') : at(k) = at(m) => k = m
  BY <1>3
<1>5. \A b \in AccountIds : b # a => b \in AccountIds'
  <2>1. ASSUME NEW b \in AccountIds, b # a PROVE b \in {accounts'[m].id : m \in 1..Len(accounts')}
    <3>1. PICK k \in 1..Len(accounts) : accounts[k].id = b
      BY DEF AccountIds
    <3>2. PICK m \in 1..(Len(accounts) - 1) : accounts'[m] = accounts[k]
      BY <1>3, <2>1, <3>1
    <3> QED BY <1>3, <3>1, <3>2
  <2> QED BY <2>1 DEF AccountIds
<1> HIDE DEF at, a
<1>6. RowTypes' /\ JobTypes'
  BY <1>1, <1>2, <1>3 DEF RowTypes, JobTypes
<1>7. AllFinite'
  BY <1>2, FS_Subset DEF AllFinite
<1>8. Unique'
  <2>1. \A k, m \in 1..Len(accounts') : accounts'[k].id = accounts'[m].id => k = m
    BY <1>4 DEF Unique
  <2> QED BY <1>2, <2>1 DEF Unique
<1>9. Numbers'
  <2>1. \A k \in 1..Len(accounts') : accounts'[k].id <= used
    BY <1>4 DEF Numbers
  <2>2. \A o \in Requests : Numbered(o) /\ job[o].pc \in {"ensure", "open"} =>
          \A k \in 1..Len(accounts') : accounts'[k].id # job[o].number
    BY <1>4 DEF Numbers
  <2> QED BY <1>1, <1>2, <2>1, <2>2 DEF Numbers, Numbered
<1>10. Unshown'
  <2>1. ASSUME NEW o \in Requests, InTx(o) PROVE TxOK(job[o])'
    <3>1. TxOK(job[o])
      BY <2>1 DEF Unshown
    <3>2. job[o].new \cup job[o].newTrades # {} => job[o].account # a
      BY <1>1, <2>1 DEF LocksAccount, InTx
    <3> QED BY <1>1, <1>5, <3>1, <3>2 DEF TxOK
  <2> QED BY <1>1, <2>1 DEF Unshown, InTx
<1>11. Patching'
  <2>1. \A o \in Requests : job[o].pc = "patch" => PatchOK(job[o].row)'
    BY <1>1, <1>2 DEF Patching, PatchOK, Numbered
  <2> QED BY <1>1, <2>1 DEF Patching
<1>12. NothingHalfImported'
  BY <1>1, <1>2 DEF NothingHalfImported
<1>13. NoOrphans'
  BY <1>1, <1>2, <1>5 DEF NoOrphans
<1> QED BY <1>6, <1>7, <1>8, <1>9, <1>10, <1>11, <1>12, <1>13

(***************************************************************************)
(* The store.                                                              *)
(***************************************************************************)
(* Every step that a request takes for an import or a holding.             *)
LEMMA ImportStepStep ==
  ASSUME StoreInv, NEW q \in Requests, ImportStep(q) PROVE StoreInv'
BY FindStep, OpenDefaultStep, CreateHoldingStep, ImportToMemoryStep, BeginTxStep,
   DeleteAndInsertStep, WaitStep, InsertTradeStep, CommitStep, FailStep, WritePatchStep
   DEF ImportStep

(* Every step of the portfolio keeps the invariant.                        *)
LEMMA PortfolioStep ==
  ASSUME StoreInv, PortfolioNext PROVE StoreInv'
<1>1. PICK q \in Requests :
        \/ ImportStep(q)
        \/ \E what \in Imports \cup Manual : Begin(q, what)
        \/ \E type \in Types : CreateAccount(q, type)
        \/ \E i \in 1..Len(accounts) : DeleteAccount(q, i)
        \/ \E h \in holdings :
             \/ DeleteHolding(q, h)
             \/ \E p \in Patches : PatchInMemory(q, h, p) \/ ReadToPatch(q, h, p)
  BY DEF PortfolioNext
<1> QED
  BY <1>1, ImportStepStep, SetBegins, CreateAccountStep, DeleteAccountStep, DeleteHoldingStep,
     PatchStep

(* What is stored or changed of the transactions takes a number or an edit.*)
LEMMA CountStep ==
  ASSUME StoreInv, UNCHANGED <<storage, serial, rows, job>>,
         used' \in 0..MaxNumber, used <= used', edits' \in 0..MaxEdits
  PROVE  StoreInv'
<1> USE DEF StoreInv
<1>1. RowTypes' /\ JobTypes' /\ AllFinite' /\ Unique' /\ NothingHalfImported' /\ NoOrphans'
  BY DEF rows, RowTypes, JobTypes, AllFinite, Unique, NothingHalfImported, NoOrphans, AccountIds
<1>2. used \in Int /\ used' \in Int
  BY BoundAssumption DEF RowTypes
<1>3. Numbers'
  <2>1. \A i \in 1..Len(accounts) : accounts[i].id \in Int
    <3>1. \A i \in 1..Len(accounts) : accounts[i] \in AccountRecords
      BY DEF RowTypes
    <3> QED BY <3>1 DEF AccountRecords
  <2>2. \A r \in holdings \cup trades : r.id[1] \in Int
    BY DEF RowTypes, HoldingRecords, TradeRecords, Ids
  <2>3. \A q \in Requests : Numbered(q) => job[q].number \in Int
    BY Shapes DEF JobTypes, Numbered, AskingJobs, ReadyJobs, TxJobs, InTx
  <2>4. \A i \in 1..Len(accounts) : accounts[i].id <= used'
    BY <1>2, <2>1 DEF Numbers
  <2>5. \A r \in holdings \cup trades : r.id[1] <= used'
    BY <1>2, <2>2 DEF Numbers
  <2>6. \A q \in Requests : Numbered(q) => job[q].number <= used'
    BY <1>2, <2>3 DEF Numbers
  <2> QED BY <2>4, <2>5, <2>6 DEF Numbers, Numbered, rows
<1>4. Unshown'
  BY DEF Unshown, InTx, TxOK, AccountIds, rows
<1>5. Patching'
  <2>1. ASSUME NEW q \in Requests, job[q].pc = "patch" PROVE PatchOK(job[q].row)'
    <3>1. PatchOK(job[q].row) /\ job[q].row.id[1] \in Int
      BY <2>1, Shapes DEF Patching, PatchJobs, HoldingRecords, Ids
    <3> QED BY <1>2, <3>1 DEF PatchOK, Numbered, rows
  <2> QED BY <2>1 DEF Patching
<1> QED BY <1>1, <1>3, <1>4, <1>5

(* It holds when nothing is stored.                                        *)
LEMMA StoreInvInit == FinanceInit => StoreInv
<1> SUFFICES ASSUME FinanceInit PROVE StoreInv
  OBVIOUS
<1> USE DEF FinanceInit, PortfolioInit
<1>1. RowTypes
  BY BoundAssumption DEF RowTypes
<1>2. JobTypes
  BY IdleIsJob DEF JobTypes
<1>3. \A q \in Requests : ~ Numbered(q) /\ ~ InTx(q) /\ job[q].pc # "patch"
  BY DEF Numbered, InTx, Idle
<1>4. AllFinite
  BY FS_EmptySet DEF AllFinite
<1>5. Numbers /\ Unique /\ Unshown /\ Patching
  BY <1>3 DEF Numbers, Unique, Unshown, Patching
<1>6. NothingHalfImported /\ NoOrphans
  BY DEF NothingHalfImported, NoOrphans
<1> QED BY <1>1, <1>2, <1>4, <1>5, <1>6 DEF StoreInv

(* Statements, entries and changes of transactions leave the portfolio.    *)
LEMMA BooksStep ==
  ASSUME StoreInv, NEW q \in Requests,
         \/ \E rs : Store(q, rs)
         \/ \E t : DeleteTransaction(q, t) \/ \E c : PatchCategory(q, t, c)
  PROVE  /\ UNCHANGED <<storage, serial, rows, job>>
         /\ used' \in 0..MaxNumber /\ used <= used' /\ edits' \in 0..MaxEdits
BY BoundAssumption, ReadAssumption
   DEF Store, DeleteTransaction, PatchCategory, MayEdit, StoreInv, RowTypes

(* And every step keeps it, those on the transactions included.            *)
LEMMA StoreInvStep ==
  ASSUME StoreInv, [FinanceNext]_financeVars PROVE StoreInv'
<1>1. CASE PortfolioNext
  BY <1>1, PortfolioStep
<1>2. ASSUME NEW q \in Requests,
             \/ \E rs : Store(q, rs)
             \/ \E t : DeleteTransaction(q, t) \/ \E c : PatchCategory(q, t, c)
      PROVE  StoreInv'
  BY <1>2, BooksStep, CountStep
<1>3. CASE UNCHANGED financeVars
  <2>1. UNCHANGED <<storage, serial, used, edits, rows, job>>
    BY <1>3 DEF financeVars, portfolioVars
  <2>2. used' \in 0..MaxNumber /\ used <= used' /\ edits' \in 0..MaxEdits
    BY <2>1, BoundAssumption DEF StoreInv, RowTypes
  <2> QED BY <2>1, <2>2, CountStep
<1> QED BY <1>1, <1>2, <1>3 DEF FinanceNext, ImportTransactions, CreateTransaction

(* It says all that StoreOK says.                                          *)
LEMMA StoreInvType == ASSUME StoreInv PROVE StoreOK
<1> USE DEF StoreInv, RowTypes
<1>1. \A i \in 1..Len(accounts) : AccountOK(accounts[i])
  <2>1. \A i \in 1..Len(accounts) : accounts[i] \in AccountRecords
    OBVIOUS
  <2> QED BY <2>1 DEF AccountRecords, AccountOK
<1>2. /\ \A h \in holdings : h.id \in Ids /\ h.account \in 1..MaxNumber
      /\ \A t \in trades : t.id \in Ids /\ t.account \in 1..MaxNumber
      /\ \A m \in imports : m.bad \in Nat /\ m.good \in Nat /\ m.number \in 1..MaxNumber
  BY DEF HoldingRecords, TradeRecords, ImportRecords
<1>3. \A q \in Requests : job[q].pc \in
        {"idle", "ensure", "open", "ready", "store", "delete", "patch"}
  BY DEF JobTypes, Jobs, AskingJobs, ReadyJobs, TxJobs, PatchJobs, Idle
<1> QED BY <1>1, <1>2, <1>3 DEF StoreOK, PortfolioTypeOK, Unique

(* Whatever requests overlap and wherever one fails, over either storage:  *)
(* the tables have rows of their types, an import is recorded if one of    *)
(* its rows is there, and no row of Postgres is without its account.       *)
THEOREM StoreStaysWhole == FinanceSpec => []StoreOK
<1>1. FinanceInit => StoreInv
  BY StoreInvInit
<1>2. StoreInv /\ [FinanceNext]_financeVars => StoreInv'
  BY StoreInvStep
<1>3. StoreInv => StoreOK
  BY StoreInvType
<1> QED BY <1>1, <1>2, <1>3, PTL DEF FinanceSpec

(***************************************************************************)
(* Requests that come one by one.                                          *)
(***************************************************************************)
(* What any step of the system does to the requests: it is of one of them. *)
Worked(q) ==
  /\ serial' = serial /\ storage' = storage
  /\ \/ job' = job /\ MayBegin(q)
     \/ (AtWork(q) \/ MayBegin(q)) /\ \E j : Becomes(q, j)

(* A step of an import is one of a request at work.                        *)
LEMMA ImportWorks ==
  ASSUME NEW q \in Requests, ImportStep(q) PROVE Worked(q) /\ AtWork(q)
<1>1. CASE FindDefault(q) \/ FindNone(q) \/ OpenDefault(q)
  BY <1>1 DEF FindDefault, FindNone, OpenDefault, Worked, AtWork
<1>2. CASE CreateHolding(q) \/ ImportToMemory(q) \/ BeginTx(q)
  BY <1>2 DEF CreateHolding, ImportToMemory, BeginTx, Worked, AtWork
<1>3. CASE ReplaceHolding(q) \/ WaitForLock(q) \/ LockGone(q)
  BY <1>3 DEF ReplaceHolding, WaitForLock, LockGone, Worked, AtWork
<1>4. CASE InsertTrade(q) \/ Commit(q)
  BY <1>4 DEF InsertTrade, Commit, Worked, AtWork
<1>5. CASE Fail(q) \/ WritePatch(q)
  BY <1>5 DEF Fail, WritePatch, Worked, AtWork
<1> QED BY <1>1, <1>2, <1>3, <1>4, <1>5 DEF ImportStep

(* Every other step is the whole of a request or its begin.                *)
LEMMA BeginWorks ==
  ASSUME NEW q \in Requests,
         \/ \E what : Begin(q, what)
         \/ \E type : CreateAccount(q, type)
         \/ \E i : DeleteAccount(q, i)
         \/ \E h : DeleteHolding(q, h) \/ \E p : PatchInMemory(q, h, p) \/ ReadToPatch(q, h, p)
         \/ \E rs : Store(q, rs)
         \/ \E t : DeleteTransaction(q, t) \/ \E c : PatchCategory(q, t, c)
  PROVE  Worked(q) /\ MayBegin(q)
<1>1. CASE \/ \E what : Begin(q, what)
           \/ \E type : CreateAccount(q, type)
           \/ \E i : DeleteAccount(q, i)
  BY <1>1 DEF Begin, CreateAccount, DeleteAccount, MayEdit, Worked
<1>2. CASE \E h : DeleteHolding(q, h) \/ \E p : PatchInMemory(q, h, p) \/ ReadToPatch(q, h, p)
  BY <1>2 DEF DeleteHolding, PatchInMemory, ReadToPatch, MayEdit, Worked
<1>3. CASE \/ \E rs : Store(q, rs)
           \/ \E t : DeleteTransaction(q, t) \/ \E c : PatchCategory(q, t, c)
  BY <1>3 DEF Store, DeleteTransaction, PatchCategory, MayEdit, Worked
<1> QED BY <1>1, <1>2, <1>3

(* If requests come one by one, at most one is at work.                    *)
LEMMA WorkStep ==
  ASSUME JobTypes, OneAtWork, NEW q \in Requests, Worked(q) PROVE OneAtWork'
<1>1. CASE job' = job
  BY <1>1 DEF Worked, OneAtWork, AtWork
<1>2. ASSUME NEW j, Becomes(q, j), AtWork(q) \/ MayBegin(q) PROVE OneAtWork'
  <2>1. \A o \in Requests \ {q} : job'[o] = job[o]
    BY <1>2 DEF Becomes, JobTypes
  <2>2. serial => \A o \in Requests \ {q} : ~ AtWork(o)
    BY <1>2 DEF OneAtWork, MayBegin
  <2> QED BY <2>1, <2>2 DEF Worked, OneAtWork, AtWork
<1> QED BY <1>1, <1>2 DEF Worked

(* Nobody else is at work.                                                 *)
LEMMA Alone ==
  ASSUME OneAtWork, serial, NEW q \in Requests, AtWork(q) \/ MayBegin(q)
  PROVE  /\ \A o \in Requests \ {q} : job[o].pc = "idle"
         /\ LockedByOther(q) = {}
<1>1. \A o \in Requests \ {q} : job[o].pc = "idle"
  BY DEF OneAtWork, MayBegin, AtWork
<1>2. \A o \in Requests \ {q} : Locked(o) = {}
  BY <1>1 DEF Locked
<1> QED BY <1>1, <1>2 DEF LockedByOther

(* A step that leaves the accounts as they are opens none.                 *)
LEMMA SameAccounts ==
  ASSUME JobTypes, Opening, OneDefault, NEW q \in Requests, Worked(q), accounts' = accounts,
         job'[q].pc = "open" => storage = "postgres" /\ accounts = <<>>
  PROVE  Opening' /\ OneDefault'
<1>1. \A o \in Requests \ {q} : job'[o] = job[o]
  BY DEF Worked, Becomes, JobTypes
<1>2. OneDefault'
  BY DEF Worked, OneDefault
<1>3. ASSUME NEW o \in Requests, job'[o].pc = "open"
      PROVE  storage' = "postgres" /\ (serial' => accounts' = <<>>)
  BY <1>1, <1>3 DEF Worked, Opening
<1> QED BY <1>2, <1>3 DEF Opening

(* The steps that change accounts make no second default account.          *)
LEMMA AccountsStep ==
  ASSUME StoreInv, OneAtWork, Opening, OneDefault, NEW q \in Requests,
         \/ \E type \in Types : CreateAccount(q, type)
         \/ \E i \in 1..Len(accounts) : DeleteAccount(q, i)
         \/ OpenDefault(q)
  PROVE  Opening' /\ OneDefault'
<1>1. RowTypes /\ JobTypes /\ Len(accounts) \in Nat
  <2>1. RowTypes /\ JobTypes /\ accounts \in Seq(AccountRecords)
    BY DEF StoreInv, RowTypes
  <2> QED BY <2>1
<1>2. ASSUME NEW type \in Types, CreateAccount(q, type) PROVE Opening' /\ OneDefault'
  <2> DEFINE a == [id |-> used + 1, type |-> type, default |-> FALSE]
  <2>1. /\ MayBegin(q) /\ accounts' = Append(accounts, a)
        /\ UNCHANGED <<storage, serial, job>> /\ used + 1 \in 1..MaxNumber
    BY <1>1, <1>2, BoundAssumption DEF CreateAccount, RowTypes
  <2>2. a \in AccountRecords /\ a.default = FALSE
    BY <2>1 DEF AccountRecords
  <2> HIDE DEF a
  <2>3. /\ Len(accounts') = Len(accounts) + 1 /\ accounts'[Len(accounts) + 1] = a
        /\ \A i \in 1..Len(accounts) : accounts'[i] = accounts[i]
    BY <1>1, <2>1, <2>2, AccountAdded
  <2>4. OneDefault'
    BY <1>1, <2>1, <2>2, <2>3 DEF OneDefault
  <2>5. Opening'
    <3>1. serial => \A o \in Requests : job[o].pc # "open"
      BY <2>1 DEF MayBegin, AtWork
    <3> QED BY <2>1, <3>1 DEF Opening
  <2> QED BY <2>4, <2>5
<1>3. ASSUME NEW i \in 1..Len(accounts), DeleteAccount(q, i) PROVE Opening' /\ OneDefault'
  <2>1. /\ MayBegin(q) /\ accounts' = Without(accounts, i)
        /\ UNCHANGED <<storage, serial, job>>
    BY <1>3 DEF DeleteAccount, MayEdit
  <2> DEFINE at(k) == IF k < i THEN k ELSE k + 1
  <2>2. /\ Len(accounts') = Len(accounts) - 1
        /\ \A k \in 1..(Len(accounts) - 1) : accounts'[k] = accounts[at(k)]
    <3>1. accounts \in Seq(AccountRecords)
      BY <1>1 DEF RowTypes
    <3> QED BY <1>1, <2>1, <3>1, WithoutOne
  <2>3. /\ \A k \in 1..Len(accounts') : at(k) \in 1..Len(accounts) /\ accounts'[k] = accounts[at(k)]
        /\ \A k, m \in 1..Len(accounts') : at(k) = at(m) => k = m
    BY <1>1, <2>2
  <2> HIDE DEF at
  <2>4. OneDefault'
    <3> SUFFICES ASSUME serial \/ storage = "memory", NEW k \in 1..Len(accounts'),
                        NEW m \in 1..Len(accounts'),
                        accounts'[k].default, accounts'[m].default
                 PROVE  k = m
      BY <2>1 DEF OneDefault
    <3>1. at(k) = at(m)
      BY <2>3 DEF OneDefault
    <3> QED BY <2>3, <3>1
  <2>5. Opening'
    <3>1. serial => \A o \in Requests : job[o].pc # "open"
      BY <2>1 DEF MayBegin, AtWork
    <3> QED BY <2>1, <3>1 DEF Opening
  <2> QED BY <2>4, <2>5
<1>4. CASE OpenDefault(q)
  <2> DEFINE a == [id |-> job[q].number, type |-> "TFSA", default |-> TRUE]
             j == Ready(job[q], job[q].number)
  <2>1. /\ accounts' = Append(accounts, a) /\ Becomes(q, j) /\ UNCHANGED <<storage, serial>>
        /\ AtWork(q) /\ job[q].pc \in {"ensure", "open"}
    BY <1>4 DEF OpenDefault, AtWork
  <2>2. serial \/ storage = "memory" => accounts = <<>>
    BY <1>4 DEF OpenDefault, Opening
  <2>3. a \in AccountRecords
    BY <1>1, <2>1, Shapes DEF AccountRecords, AskingJobs
  <2> HIDE DEF a
  <2>4. Len(accounts') = Len(accounts) + 1
    BY <1>1, <2>1, <2>3, AccountAdded
  <2>5. OneDefault'
    BY <1>1, <2>1, <2>2, <2>4 DEF OneDefault
  <2>6. job'[q].pc = "ready" /\ \A o \in Requests \ {q} : job'[o] = job[o]
    BY <1>1, <2>1 DEF Ready, Becomes, JobTypes
  <2>7. serial => \A o \in Requests \ {q} : job[o].pc = "idle"
    BY <2>1, Alone
  <2>8. Opening'
    BY <2>1, <2>6, <2>7 DEF Opening
  <2> QED BY <2>5, <2>8
<1> QED BY <1>2, <1>3, <1>4

(* Holdings that are rewritten or go, and trades that go, stay different.  *)
LEMMA FewerSingle ==
  ASSUME NEW hs, NEW ks, Single(hs), \A h, k \in ks : h.id = k.id => h = k,
         \A k \in ks : \E h \in hs :
           h.id = k.id /\ h.account = k.account /\ h.symbol = k.symbol /\ h.manual = k.manual
  PROVE  Single(ks)
<1>1. SUFFICES ASSUME NEW j \in ks, NEW k \in ks,
                      ~ j.manual, ~ k.manual, j.account = k.account, j.symbol = k.symbol
               PROVE  j = k
  BY DEF Single
<1>2. PICK g \in hs : g.id = j.id /\ g.account = j.account /\ g.symbol = j.symbol /\ g.manual = j.manual
  OBVIOUS
<1>3. PICK h \in hs : h.id = k.id /\ h.account = k.account /\ h.symbol = k.symbol /\ h.manual = k.manual
  OBVIOUS
<1>4. g = h
  BY <1>1, <1>2, <1>3 DEF Single
<1> QED BY <1>2, <1>3, <1>4

(* Between imports there is nothing but the rows to look at.               *)
LEMMA RowsInTurn ==
  ASSUME storage' = storage, serial' = serial,
         serial /\ storage = "postgres" =>
           /\ Single(holdings') /\ Different(trades')
           /\ \A q \in Requests : job'[q].pc # "delete" /\ job'[q].pc # "store"
  PROVE  InTurn'
BY DEF InTurn

(* A step that leaves holdings and trades alone keeps the turn, if what    *)
(* its own transaction would leave is right.                               *)
LEMMA SameInTurn ==
  ASSUME StoreInv, InTurn, OneAtWork, NEW q \in Requests, Worked(q),
         holdings' = holdings, trades' = trades,
         serial /\ storage = "postgres" =>
           (job'[q].pc \in {"delete", "store"} =>
              /\ job'[q].pc = "store"
              /\ Single(Visible(q)') /\ Different(trades \cup job'[q].newTrades))
  PROVE  InTurn'
<1>1. SUFFICES ASSUME serial, storage = "postgres" PROVE InTurn'
  BY DEF InTurn, Worked
<1>2. \A o \in Requests \ {q} : job'[o] = job[o]
  BY DEF Worked, Becomes, StoreInv, JobTypes
<1>3. \A o \in Requests \ {q} : job[o].pc = "idle"
  BY <1>1, Alone DEF Worked
<1>4. Single(holdings') /\ Different(trades')
  BY <1>1 DEF InTurn
<1>5. ASSUME NEW o \in Requests
      PROVE  /\ job'[o].pc # "delete"
             /\ job'[o].pc = "store" => Single(Visible(o)') /\ Different(trades' \cup job'[o].newTrades)
  <2>1. CASE o = q
    BY <1>1, <2>1
  <2>2. CASE o # q
    BY <1>2, <1>3, <2>2
  <2> QED BY <2>1, <2>2
<1> QED BY <1>4, <1>5 DEF InTurn

(* A request that begins is not in a transaction.                          *)
LEMMA BeginsJob ==
  ASSUME JobTypes, NEW q \in Requests,
         (\E what : Begin(q, what)) \/ (\E h, p : ReadToPatch(q, h, p))
  PROVE  job'[q].pc \in {"ensure", "patch"} /\ accounts' = accounts
<1>1. \A j : Becomes(q, j) => job'[q] = j
  BY DEF JobTypes, Becomes
<1>2. ASSUME NEW what, Begin(q, what) PROVE job'[q].pc = "ensure" /\ accounts' = accounts
  BY <1>1, <1>2 DEF Begin, rows
<1>3. ASSUME NEW h, NEW p, ReadToPatch(q, h, p) PROVE job'[q].pc = "patch" /\ accounts' = accounts
  <2>1. job'[q] = [pc |-> "patch", row |-> Patched(h, p)]
    BY <1>1, <1>3 DEF ReadToPatch
  <2> QED BY <1>3, <2>1 DEF ReadToPatch, rows
<1> QED BY <1>2, <1>3

(* Requests that ask for an account, wait, fail or begin to import.        *)
LEMMA QuietInTurn ==
  ASSUME StoreInv, InTurn, OneAtWork, NEW q \in Requests,
         \/ FindDefault(q) \/ FindNone(q) \/ OpenDefault(q) \/ BeginTx(q) \/ Fail(q)
         \/ WaitForLock(q) \/ LockGone(q)
         \/ \E what : Begin(q, what)
         \/ \E type : CreateAccount(q, type)
         \/ \E h, p : ReadToPatch(q, h, p)
  PROVE  InTurn'
<1>1. JobTypes /\ \A j : Becomes(q, j) => job'[q] = j
  BY DEF StoreInv, JobTypes, Becomes
<1>2. CASE FindDefault(q) \/ FindNone(q) \/ OpenDefault(q) \/ Fail(q)
  <2>1. Worked(q)
    BY <1>2, ImportWorks DEF ImportStep
  <2>2. holdings' = holdings /\ trades' = trades
    BY <1>2 DEF FindDefault, FindNone, OpenDefault, Fail, rows
  <2>3. job'[q].pc \in {"ready", "open", "idle"}
    <3>1. CASE FindDefault(q)
      BY <1>1, <3>1 DEF FindDefault, Ready
    <3>2. CASE FindNone(q)
      <4>1. job[q] \in AskingJobs
        BY <1>1, <3>2, Shapes DEF FindNone
      <4> QED BY <1>1, <3>2, <4>1 DEF FindNone, AskingJobs
    <3>3. CASE OpenDefault(q)
      BY <1>1, <3>3 DEF OpenDefault, Ready
    <3>4. CASE Fail(q)
      BY <1>1, <3>4 DEF Fail, Idle
    <3> QED BY <1>2, <3>1, <3>2, <3>3, <3>4
  <2> QED BY <2>1, <2>2, <2>3, SameInTurn
<1>3. CASE BeginTx(q)
  <2>1. Worked(q)
    BY <1>3, ImportWorks DEF ImportStep
  <2>2. /\ holdings' = holdings /\ trades' = trades /\ job'[q].pc = "store"
        /\ job'[q].gone = {} /\ job'[q].new = {} /\ job'[q].newTrades = {}
    BY <1>1, <1>3 DEF BeginTx, rows
  <2>3. Visible(q)' = holdings /\ trades \cup job'[q].newTrades = trades
    BY <2>2 DEF Visible
  <2>4. serial /\ storage = "postgres" =>
          Single(Visible(q)') /\ Different(trades \cup job'[q].newTrades)
    BY <2>3 DEF InTurn
  <2> QED BY <2>1, <2>2, <2>4, SameInTurn
<1>4. CASE WaitForLock(q) \/ LockGone(q)
  <2>1. Worked(q) /\ AtWork(q)
    BY <1>4, ImportWorks DEF ImportStep
  <2>2. ~ (serial /\ storage = "postgres")
    BY <1>4, <2>1, Alone DEF WaitForLock, LockGone, InTurn
  <2> QED BY <2>1, <2>2 DEF InTurn, Worked
<1>5. CASE \E type : CreateAccount(q, type)
  <2>1. Worked(q) /\ MayBegin(q)
    BY <1>5, BeginWorks
  <2>2. UNCHANGED <<storage, serial, holdings, trades, job>>
    BY <1>5 DEF CreateAccount
  <2>3. job'[q].pc = "idle"
    BY <2>1, <2>2 DEF MayBegin, AtWork
  <2> QED BY <2>1, <2>2, <2>3, SameInTurn
<1>6. CASE \/ \E what : Begin(q, what)
           \/ \E h, p : ReadToPatch(q, h, p)
  <2>1. Worked(q)
    BY <1>6, BeginWorks
  <2>2. holdings' = holdings /\ trades' = trades
    BY <1>6 DEF Begin, ReadToPatch, rows
  <2>3. job'[q].pc \in {"ensure", "patch"}
    BY <1>1, <1>6, BeginsJob
  <2> QED BY <2>1, <2>2, <2>3, SameInTurn
<1> QED BY <1>2, <1>3, <1>4, <1>5, <1>6

(* DELETE and INSERT: what is seen of an account and a symbol is one row.  *)
LEMMA ReplaceInTurn ==
  ASSUME StoreInv, InTurn, OneAtWork, NEW q \in Requests, ReplaceHolding(q) PROVE InTurn'
<1>1. JobTypes /\ Worked(q)
  BY ImportWorks DEF StoreInv, ImportStep
<1>2. job[q] \in TxJobs /\ job[q].pc = "store" /\ job[q].i <= Len(job[q].what.holdings)
  BY <1>1, Shapes DEF ReplaceHolding, InTx
<1> DEFINE row == HoldingOf(Line(job[q]), job[q].number, job[q].i, job[q].account, FALSE)
<1>3. /\ holdings' = holdings /\ trades' = trades
      /\ job'[q] = Replaced(job[q], Matching(q))
  BY <1>1 DEF ReplaceHolding, rows, Becomes, JobTypes
<1>4. /\ job'[q].pc = "store" /\ job'[q].gone = job[q].gone \cup (Matching(q) \cap holdings)
      /\ job'[q].new = (job[q].new \ Matching(q)) \cup {row}
      /\ job'[q].newTrades = job[q].newTrades
  <2>1. holdings \subseteq HoldingRecords
    BY DEF StoreInv, RowTypes
  <2> DEFINE seen == Matching(q)
             j == job[q]
             j1 == Replaced(j, seen)
  <2> HIDE DEF seen, j
  <2>2. /\ j1.pc = "store" /\ j1.gone = j.gone \cup (seen \cap holdings)
        /\ j1.new = (j.new \ seen) \cup {HoldingOf(Line(j), j.number, j.i, j.account, FALSE)}
        /\ j1.newTrades = j.newTrades
    BY <1>2, <2>1, ReplacedJob DEF j
  <2> QED BY <1>3, <2>2 DEF j, seen
<1>5. row.account = job[q].account /\ row.symbol = Line(job[q]).symbol
  BY DEF HoldingOf
<1> HIDE DEF row
<1>6. Visible(q)' \subseteq (Visible(q) \ Matching(q)) \cup {row}
  BY <1>3, <1>4 DEF Visible
<1>7. \A h \in Visible(q) \ Matching(q) : ~ (h.account = row.account /\ h.symbol = row.symbol)
  BY <1>5 DEF Matching
<1>8. Single(Visible(q)) => Single(Visible(q)')
  BY <1>6, <1>7 DEF Single
<1>9. serial /\ storage = "postgres" =>
        Single(Visible(q)') /\ Different(trades \cup job'[q].newTrades)
  BY <1>2, <1>4, <1>8 DEF InTurn
<1> QED BY <1>1, <1>3, <1>4, <1>9, SameInTurn

(* A trade is inserted unless the same is seen.                            *)
LEMMA TradeInTurn ==
  ASSUME StoreInv, InTurn, OneAtWork, NEW q \in Requests, InsertTrade(q) PROVE InTurn'
<1>1. JobTypes /\ Worked(q)
  BY ImportWorks DEF StoreInv, ImportStep
<1>2. job[q] \in TxJobs /\ job[q].pc = "store"
  BY <1>1, Shapes DEF InsertTrade, InTx
<1> DEFINE t == TradeOf(job[q].what.trades[job[q].k], job[q].number, job[q].k, job[q].account)
           ts == trades \cup job[q].newTrades
<1>3. holdings' = holdings /\ trades' = trades
  BY DEF InsertTrade, rows
<1>4. /\ job'[q].pc = "store" /\ job'[q].gone = job[q].gone /\ job'[q].new = job[q].new
      /\ \/ job'[q].newTrades = job[q].newTrades
         \/ job'[q].newTrades = job[q].newTrades \cup {t} /\ \A s \in ts : ~ SameTrade(s, t)
  <2>1. CASE \E s \in ts : SameTrade(s, t)
    <3>1. job'[q] = [job[q] EXCEPT !.k = @ + 1]
      BY <1>1, <2>1 DEF InsertTrade, Becomes, JobTypes
    <3> QED BY <1>2, <3>1 DEF TxJobs
  <2>2. CASE \A s \in ts : ~ SameTrade(s, t)
    <3>1. job'[q] = [job[q] EXCEPT !.k = @ + 1, !.newTrades = @ \cup {t}]
      BY <1>1, <2>2 DEF InsertTrade, Becomes, JobTypes
    <3> HIDE DEF t
    <3> QED BY <1>2, <2>2, <3>1 DEF TxJobs
  <2> QED BY <2>1, <2>2
<1> HIDE DEF t
<1>5. Visible(q)' = Visible(q)
  BY <1>3, <1>4 DEF Visible
<1>6. Different(ts) => Different(trades \cup job'[q].newTrades)
  <2>1. CASE job'[q].newTrades = job[q].newTrades
    BY <2>1
  <2>2. CASE job'[q].newTrades = job[q].newTrades \cup {t} /\ \A s \in ts : ~ SameTrade(s, t)
    BY <2>2 DEF Different, SameTrade
  <2> QED BY <1>4, <2>1, <2>2
<1>7. serial /\ storage = "postgres" =>
        Single(Visible(q)') /\ Different(trades \cup job'[q].newTrades)
  BY <1>2, <1>5, <1>6 DEF InTurn
<1> QED BY <1>1, <1>3, <1>4, <1>7, SameInTurn

(* The rows change: an import commits, or a request changes what is there. *)
LEMMA StoredInTurn ==
  ASSUME StoreInv, StoreInv', InTurn, OneAtWork, NEW q \in Requests,
         \/ CreateHolding(q) \/ ImportToMemory(q) \/ Commit(q) \/ WritePatch(q)
         \/ \E i \in 1..Len(accounts) : DeleteAccount(q, i)
         \/ \E h \in holdings : DeleteHolding(q, h) \/ \E p \in Patches : PatchInMemory(q, h, p)
  PROVE  InTurn'
<1>1. JobTypes /\ Unique' /\ \A j : Becomes(q, j) => job'[q] = j
  BY DEF StoreInv, JobTypes, Becomes
<1>2. Worked(q) /\ (AtWork(q) \/ MayBegin(q))
  BY ImportWorks, BeginWorks DEF ImportStep
<1>3. SUFFICES ASSUME serial, storage = "postgres", Single(holdings), Different(trades)
               PROVE  InTurn'
  BY <1>2 DEF InTurn, Worked
<1>4. \A o \in Requests \ {q} : job'[o].pc = "idle"
  BY <1>1, <1>2, <1>3, Alone DEF Worked, Becomes, JobTypes
<1>5. job'[q].pc = "idle"
  <2>1. CASE CreateHolding(q) \/ ImportToMemory(q) \/ Commit(q) \/ WritePatch(q)
    <3>1. job'[q] = Idle
      BY <1>1, <2>1 DEF CreateHolding, ImportToMemory, Commit, WritePatch
    <3> QED BY <3>1 DEF Idle
  <2>2. CASE \/ \E i \in 1..Len(accounts) : DeleteAccount(q, i)
             \/ \E h \in holdings : DeleteHolding(q, h) \/ \E p \in Patches : PatchInMemory(q, h, p)
    BY <2>2 DEF DeleteAccount, DeleteHolding, PatchInMemory, MayEdit, MayBegin, AtWork
  <2> QED BY <2>1, <2>2
<1>6. Single(holdings') /\ Different(trades')
  <2>1. CASE CreateHolding(q)
    <3>1. \A r, n, a : HoldingOf(r, n, 0, a, TRUE).manual = TRUE
      BY DEF HoldingOf
    <3>2. \A h \in holdings' : h \in holdings \/ h.manual = TRUE
      BY <2>1, <3>1 DEF CreateHolding
    <3> QED BY <1>3, <2>1, <3>2 DEF CreateHolding, Single
  <2>2. CASE ImportToMemory(q)
    BY <1>3, <2>2 DEF ImportToMemory
  <2>3. CASE Commit(q)
    <3>1. holdings' = Visible(q) /\ trades' = trades \cup job[q].newTrades /\ job[q].pc = "store"
      BY <2>3 DEF Commit, Visible
    <3> QED BY <1>3, <3>1 DEF InTurn
  <2>4. CASE WritePatch(q)
    <3> DEFINE row == job[q].row
    <3>1. PatchOK(row) /\ holdings' = Rewritten(row) /\ trades' = trades
      BY <2>4 DEF WritePatch, StoreInv, Patching
    <3> HIDE DEF row
    <3>2. \A k \in holdings' : \E h \in holdings :
            h.id = k.id /\ h.account = k.account /\ h.symbol = k.symbol /\ h.manual = k.manual
      BY <3>1 DEF Rewritten, PatchOK
    <3> QED BY <1>1, <1>3, <3>1, <3>2, FewerSingle DEF Unique
  <2>5. CASE \/ \E i \in 1..Len(accounts) : DeleteAccount(q, i)
             \/ \E h \in holdings : DeleteHolding(q, h)
    <3>1. holdings' \subseteq holdings /\ trades' \subseteq trades
      BY <1>3, <2>5 DEF DeleteAccount, DeleteHolding
    <3> QED BY <1>3, <3>1 DEF Single, Different
  <2>6. CASE \E h \in holdings, p \in Patches : PatchInMemory(q, h, p)
    BY <1>3, <2>6 DEF PatchInMemory
  <2> QED BY <2>1, <2>2, <2>3, <2>4, <2>5, <2>6
<1> QED BY <1>2, <1>3, <1>4, <1>5, <1>6, RowsInTurn DEF Worked

(* Opening and the default, and the rows that are looked for.              *)
LEMMA DefaultsStep ==
  ASSUME StoreInv, OneAtWork, Opening, OneDefault, NEW q \in Requests,
         \/ ImportStep(q)
         \/ \E what \in Imports \cup Manual : Begin(q, what)
         \/ \E type \in Types : CreateAccount(q, type)
         \/ \E i \in 1..Len(accounts) : DeleteAccount(q, i)
         \/ \E h \in holdings :
              \/ DeleteHolding(q, h)
              \/ \E p \in Patches : PatchInMemory(q, h, p) \/ ReadToPatch(q, h, p)
  PROVE  Opening' /\ OneDefault'
<1>1. JobTypes /\ \A j : Becomes(q, j) => job'[q] = j
  BY DEF StoreInv, JobTypes, Becomes
<1>2. Worked(q)
  BY ImportWorks, BeginWorks
<1>3. CASE \/ \E type \in Types : CreateAccount(q, type)
           \/ \E i \in 1..Len(accounts) : DeleteAccount(q, i)
           \/ OpenDefault(q)
  BY <1>3, AccountsStep
<1>4. CASE FindDefault(q) \/ FindNone(q)
  <2>1. accounts' = accounts
    BY <1>4 DEF FindDefault, FindNone, rows
  <2>2. job'[q].pc = "open" => storage = "postgres" /\ accounts = <<>>
    <3>1. CASE FindNone(q)
      BY <3>1 DEF FindNone
    <3>2. CASE FindDefault(q)
      <4>1. PICK a : job'[q] = Ready(job[q], a)
        BY <1>1, <3>2 DEF FindDefault
      <4> QED BY <4>1 DEF Ready
    <3> QED BY <1>4, <3>1, <3>2
  <2> QED BY <1>1, <1>2, <2>1, <2>2, SameAccounts
<1>5. CASE \/ CreateHolding(q) \/ ImportToMemory(q) \/ Commit(q) \/ Fail(q) \/ WritePatch(q)
  <2>1. job'[q] = Idle
    BY <1>1, <1>5 DEF CreateHolding, ImportToMemory, Commit, Fail, WritePatch
  <2>2. accounts' = accounts
    BY <1>5 DEF CreateHolding, ImportToMemory, Commit, Fail, WritePatch, rows
  <2> QED BY <1>1, <1>2, <2>1, <2>2, SameAccounts DEF Idle
<1>6. CASE BeginTx(q)
  BY <1>1, <1>2, <1>6, SameAccounts DEF BeginTx, rows
<1>7. CASE ReplaceHolding(q) \/ WaitForLock(q) \/ LockGone(q) \/ InsertTrade(q)
  <2>1. job[q] \in TxJobs
    BY <1>1, <1>7, Shapes DEF ReplaceHolding, WaitForLock, LockGone, InsertTrade, InTx
  <2>2. accounts' = accounts
    BY <1>7 DEF ReplaceHolding, WaitForLock, LockGone, InsertTrade, rows
  <2>3. job[q].pc # "open" /\ job[q].pc \in {"store", "delete"}
    BY <2>1 DEF TxJobs
  <2>4. job'[q].pc \in {"store", "delete"}
    <3>1. CASE ReplaceHolding(q) \/ LockGone(q)
      <4>1. PICK seen : job'[q] = Replaced(job[q], seen)
        BY <1>1, <3>1 DEF ReplaceHolding, LockGone
      <4> QED BY <2>1, <4>1 DEF Replaced, TxJobs
    <3>2. CASE WaitForLock(q)
      <4>1. job'[q] = [job[q] EXCEPT !.pc = "delete", !.seen = Matching(q)]
        BY <1>1, <3>2 DEF WaitForLock
      <4> QED BY <2>1, <4>1 DEF TxJobs
    <3>3. CASE InsertTrade(q)
      <4>1. \/ job'[q] = [job[q] EXCEPT !.k = @ + 1]
            \/ \E t : job'[q] = [job[q] EXCEPT !.k = @ + 1, !.newTrades = @ \cup {t}]
        BY <1>1, <3>3 DEF InsertTrade
      <4> QED BY <2>1, <4>1 DEF TxJobs
    <3> QED BY <1>7, <3>1, <3>2, <3>3
  <2> QED BY <1>1, <1>2, <2>2, <2>4, SameAccounts
<1>8. CASE \/ \E what \in Imports \cup Manual : Begin(q, what)
           \/ \E h \in holdings, p \in Patches : ReadToPatch(q, h, p)
  BY <1>1, <1>2, <1>8, BeginsJob, SameAccounts
<1>9. CASE \E h \in holdings : DeleteHolding(q, h) \/ \E p \in Patches : PatchInMemory(q, h, p)
  <2>1. job'[q].pc = "idle" /\ accounts' = accounts
    BY <1>9 DEF DeleteHolding, PatchInMemory, MayEdit, MayBegin, AtWork
  <2> QED BY <1>1, <1>2, <2>1, SameAccounts
<1> QED BY <1>3, <1>4, <1>5, <1>6, <1>7, <1>8, <1>9 DEF ImportStep

(* Every step of the portfolio keeps the turn.                             *)
LEMMA PortfolioTurns ==
  ASSUME StoreInv, StoreInv', Turns, PortfolioNext PROVE Turns'
<1>1. PICK q \in Requests :
        \/ ImportStep(q)
        \/ \E what \in Imports \cup Manual : Begin(q, what)
        \/ \E type \in Types : CreateAccount(q, type)
        \/ \E i \in 1..Len(accounts) : DeleteAccount(q, i)
        \/ \E h \in holdings :
             \/ DeleteHolding(q, h)
             \/ \E p \in Patches : PatchInMemory(q, h, p) \/ ReadToPatch(q, h, p)
  BY DEF PortfolioNext
<1>2. OneAtWork'
  <2>1. Worked(q)
    BY <1>1, ImportWorks, BeginWorks
  <2> QED BY <2>1, WorkStep DEF StoreInv, Turns
<1>3. Opening' /\ OneDefault'
  BY <1>1, DefaultsStep DEF Turns
<1>4. InTurn'
  BY <1>1, QuietInTurn, ReplaceInTurn, TradeInTurn, StoredInTurn DEF Turns, ImportStep
<1> QED BY <1>2, <1>3, <1>4 DEF Turns

(* The transactions are none of its business.                              *)
LEMMA BooksTurns ==
  ASSUME Turns, UNCHANGED <<storage, serial, rows, job>> PROVE Turns'
<1>1. OneAtWork' /\ Opening' /\ OneDefault'
  BY DEF Turns, OneAtWork, Opening, OneDefault, AtWork, rows
<1>2. InTurn'
  BY DEF Turns, InTurn, Visible, rows
<1> QED BY <1>1, <1>2 DEF Turns

(* It holds when nothing is stored.                                        *)
LEMMA TurnsInit == FinanceInit => Turns
<1> SUFFICES ASSUME FinanceInit PROVE Turns
  OBVIOUS
<1>1. \A q \in Requests : job[q].pc = "idle"
  BY DEF FinanceInit, PortfolioInit, Idle
<1>2. OneAtWork /\ Opening
  BY <1>1 DEF OneAtWork, Opening, AtWork
<1>3. OneDefault /\ InTurn
  BY <1>1 DEF FinanceInit, PortfolioInit, OneDefault, InTurn, Single, Different
<1> QED BY <1>2, <1>3 DEF Turns

(* A trade that is there once counts once, whoever brought it.             *)
LEMMA TradeAmounts ==
  ASSUME RowTypes, NEW t \in trades PROVE t.trade.amount \in Int
<1>1. t.trade \in TradeValues
  BY DEF RowTypes, TradeRecords
<1>2. PICK w \in Imports : t.trade \in Lines(w, "trades")
  BY <1>1 DEF TradeValues
<1>3. PICK i \in DOMAIN w.trades : t.trade = w.trades[i]
  BY <1>2 DEF Lines
<1>4. w.trades \in Seq(Lines(w, "trades")) /\ \A k \in 1..Len(w.trades) : w.trades[k].amount \in Int
  BY ImportTypes
<1>5. DOMAIN w.trades = 1..Len(w.trades)
  <2> DEFINE T == Lines(w, "trades")
  <2> HIDE DEF T
  <2>1. w.trades \in Seq(T)
    BY <1>4 DEF T
  <2> QED BY <2>1
<1> QED BY <1>3, <1>4, <1>5

(* If no two trades are the same, their flow is that of the trades without *)
(* identifiers.                                                            *)
LEMMA FlowOnce ==
  ASSUME NEW ts, IsFiniteSet(ts), Different(ts), \A t \in ts : t.trade.amount \in Int, NEW kinds
  PROVE  Flow({[trade |-> t.trade, account |-> t.account] : t \in ts}, kinds) = Flow(ts, kinds)
<1> DEFINE S == {u \in ts : u.trade.kind \in kinds}
           m == [t \in ts |-> [trade |-> t.trade, account |-> t.account]]
           f == [t \in S |-> Size(t.trade.amount)]
           T == {m[t] : t \in S}
           e == [t \in T |-> Size(t.trade.amount)]
<1>1. IsFiniteSet(S)
  BY FS_Subset
<1>2. \A t \in S : f[t] \in Int
  BY DEF Size
<1>3. \A s, t \in S : m[s] = m[t] => s = t
  <2>1. \A s, t \in ts : m[s] = m[t] => s.trade = t.trade /\ s.account = t.account
    OBVIOUS
  <2> QED BY <2>1 DEF Different, SameTrade
<1>4. \A t \in S : e[m[t]] = f[t]
  OBVIOUS
<1>5. {u \in {[trade |-> t.trade, account |-> t.account] : t \in ts} : u.trade.kind \in kinds} = T
  OBVIOUS
<1>6. Flow({[trade |-> t.trade, account |-> t.account] : t \in ts}, kinds) = SumOver(e)
  BY <1>5 DEF Flow
<1>7. Flow(ts, kinds) = SumOver(f)
  BY DEF Flow
<1>8. Part(e, T) = SumOver(e) /\ Part(f, S) = SumOver(f)
  BY DEF Part
<1>9. Part(e, T) = Part(f, S)
  <2> HIDE DEF S, m, f, e
  <2> QED BY <1>1, <1>2, <1>3, <1>4, PartRenamed
<1> QED BY <1>6, <1>7, <1>8, <1>9

(* In turn, nothing is there twice.                                        *)
LEMMA TurnsOnce ==
  ASSUME StoreInv, Turns PROVE NoDuplicates
<1>1. OneDefault /\ OneImported
  BY DEF Turns, InTurn, Single, OneImported
<1>2. ASSUME serial, storage = "postgres" PROVE ContributedOnce
  <2> DEFINE plain(ts) == {[trade |-> t.trade, account |-> t.account] : t \in ts}
             in == {t \in trades : t.trade.amount >= 0}
  <2>1. IsFiniteSet(trades) /\ Different(trades) /\ \A t \in trades : t.trade.amount \in Int
    BY <1>2, TradeAmounts DEF Turns, InTurn, StoreInv, AllFinite
  <2>2. IsFiniteSet(in) /\ Different(in) /\ \A t \in in : t.trade.amount \in Int
    BY <2>1, FS_Subset DEF Different
  <2>3. {t \in plain(trades) : t.trade.amount >= 0} = plain(in)
    OBVIOUS
  <2>4. \A kinds : Flow(plain(in), kinds) = Flow(in, kinds)
    <3> HIDE DEF in
    <3> QED BY <2>2, FlowOnce
  <2>5. \A kinds : Flow(plain(trades), kinds) = Flow(trades, kinds)
    BY <2>1, FlowOnce
  <2>6. Performance(Held, trades).contributions =
          Flow(in, {"deposit", "transfer"}) - Flow(trades, {"withdrawal"})
    BY DEF Performance
  <2>7. Performance(Held, plain(trades)).contributions =
          Flow(plain(in), {"deposit", "transfer"}) - Flow(plain(trades), {"withdrawal"})
    BY <2>3 DEF Performance
  <2> QED BY <2>4, <2>5, <2>6, <2>7 DEF ContributedOnce
<1>3. ContributedOnce
  BY <1>2 DEF ContributedOnce
<1> QED BY <1>1, <1>3 DEF NoDuplicates

(* If requests do not overlap, whatever is imported again and in any       *)
(* order: there is one default account, over Postgres one imported holding *)
(* of a symbol in an account, and a deposit counts once in the             *)
(* contributions.                                                          *)
THEOREM NothingComesTwice == FinanceSpec => []NoDuplicates
<1>1. FinanceInit => StoreInv /\ Turns
  BY StoreInvInit, TurnsInit
<1>2. StoreInv /\ Turns /\ [FinanceNext]_financeVars => (StoreInv /\ Turns)'
  <2> SUFFICES ASSUME StoreInv, Turns, [FinanceNext]_financeVars PROVE (StoreInv /\ Turns)'
    OBVIOUS
  <2>1. StoreInv'
    BY StoreInvStep
  <2>2. CASE PortfolioNext
    BY <2>1, <2>2, PortfolioTurns
  <2>3. ASSUME NEW q \in Requests,
               \/ \E rs : Store(q, rs)
               \/ \E t : DeleteTransaction(q, t) \/ \E c : PatchCategory(q, t, c)
        PROVE  Turns'
    BY <2>3, BooksStep, BooksTurns
  <2>4. CASE UNCHANGED financeVars
    <3>1. UNCHANGED <<storage, serial, rows, job>>
      BY <2>4 DEF financeVars, portfolioVars
    <3> QED BY <2>1, <3>1, BooksTurns
  <2> QED BY <2>1, <2>2, <2>3, <2>4 DEF FinanceNext, ImportTransactions, CreateTransaction
<1>3. StoreInv /\ Turns => NoDuplicates
  BY TurnsOnce
<1> QED BY <1>1, <1>2, <1>3, PTL DEF FinanceSpec

(***************************************************************************)
(* Transactions, and what a second import of a statement does.             *)
(***************************************************************************)
LEMMA NormalizedOK ==
  ASSUME NEW r, r.amount \in Int, r.day \in Int, NEW id, NEW name \in NormalizeMerchant(r.text)
  PROVE  TransactionOK(Normalized(r, id, name))
<1> DEFINE t == Normalized(r, id, name)
<1>1. t = [id |-> t.id, text |-> t.text, merchant |-> t.merchant, day |-> t.day,
           category |-> t.category, direction |-> t.direction, amount |-> t.amount]
  BY DEF Normalized
<1>2. t.day = r.day /\ t.text = r.text /\ t.merchant = name
  BY DEF Normalized
<1>3. t.amount \in Int
  <2>1. t.amount = IF r.direction = "" THEN Size(r.amount) ELSE r.amount
    BY DEF Normalized
  <2>2. Size(r.amount) \in Int
    BY DEF Size
  <2> QED BY <2>1, <2>2
<1> QED BY <1>1, <1>2, <1>3 DEF TransactionOK

(* The rows of a statement have numbers for amounts and days.              *)
LEMMA StatementOK ==
  ASSUME NEW f \in Statements
  PROVE  /\ Len(StatementRows(f)) \in Nat
         /\ \A i \in 1..Len(StatementRows(f)) :
              StatementRows(f)[i].amount \in Int /\ StatementRows(f)[i].day \in Int
<1> DEFINE S == {f[i] : i \in {k \in 1..Len(f) : f[k].readable}}
           s == Readable(f)
<1>1. /\ IsSequence(f) /\ DOMAIN f = 1..Len(f)
      /\ \A i \in DOMAIN f : f[i].readable => {f[i].amount, f[i].day} \subseteq Int
  <2> DEFINE T == {f[i] : i \in DOMAIN f}
  <2>1. f \in Seq(T)
    BY StatementsAssumption DEF IsSequence
  <2> HIDE DEF T
  <2>2. DOMAIN f = 1..Len(f)
    BY <2>1
  <2> QED BY <2>2, StatementsAssumption
<1>2. s \in Seq(S)
  BY <1>1, ReadableLines
<1>3. \A l \in S : l.amount \in Int /\ l.day \in Int
  BY <1>1
<1> HIDE DEF S, s
<1>4. Len(s) \in Nat /\ DOMAIN s = 1..Len(s) /\ \A i \in 1..Len(s) : s[i] \in S
  BY <1>2
<1>5. StatementRows(f) = [i \in 1..Len(s) |-> StatementRow(s[i])]
  BY <1>4 DEF StatementRows, s
<1> DEFINE rs == StatementRows(f)
<1>6. Len(rs) = Len(s)
  <2> DEFINE n == Len(s)
  <2> HIDE DEF n
  <2>1. rs = [i \in 1..n |-> StatementRow(s[i])] /\ n \in Nat
    BY <1>4, <1>5 DEF n
  <2> HIDE DEF rs
  <2>2. Len(rs) = n
    BY <2>1
  <2> QED BY <2>2 DEF n
<1>7. ASSUME NEW i \in 1..Len(s) PROVE rs[i].amount \in Int /\ rs[i].day \in Int
  <2>1. rs[i] = StatementRow(s[i])
    BY <1>5
  <2>2. s[i].amount \in Int /\ s[i].day \in Int
    BY <1>3, <1>4
  <2> QED BY <2>1, <2>2 DEF StatementRow, Size
<1> QED BY <1>4, <1>6, <1>7

(* Rows that are stored together keep the books.                           *)
LEMMA StoredOK ==
  ASSUME TransactionsOK, NEW q \in Requests, NEW rs, Store(q, rs), Len(rs) \in Nat,
         \A i \in 1..Len(rs) : rs[i].amount \in Int /\ rs[i].day \in Int
  PROVE  TransactionsOK'
<1>1. PICK name :
        /\ \A i \in 1..Len(rs) : name[i] \in NormalizeMerchant(rs[i].text)
        /\ transactions' = transactions \cup
             {Normalized(rs[i], <<used + 1, i>>, name[i]) : i \in 1..Len(rs)}
  BY DEF Store
<1> DEFINE m == [i \in 1..Len(rs) |-> Normalized(rs[i], <<used + 1, i>>, name[i])]
           new == {m[i] : i \in 1..Len(rs)}
<1>2. transactions' = transactions \cup new
  BY <1>1
<1>3. \A i \in 1..Len(rs) : TransactionOK(m[i])
  BY <1>1, NormalizedOK
<1> HIDE DEF m
<1>4. IsFiniteSet(new)
  <2>1. IsFiniteSet(1..Len(rs))
    BY FS_Interval
  <2> QED BY <2>1, ImageFinite
<1>5. \A t \in new : TransactionOK(t)
  BY <1>3
<1> HIDE DEF new
<1>6. IsFiniteSet(transactions \cup new)
  BY <1>4, FS_Union DEF TransactionsOK
<1> QED BY <1>2, <1>5, <1>6 DEF TransactionsOK

(* A row that is changed or deleted keeps the books.                       *)
LEMMA ChangedOK ==
  ASSUME TransactionsOK, NEW q \in Requests, NEW t \in transactions,
         DeleteTransaction(q, t) \/ \E c : PatchCategory(q, t, c)
  PROVE  TransactionsOK'
<1>1. IsFiniteSet(transactions \ {t})
  BY FS_Subset DEF TransactionsOK
<1>2. CASE DeleteTransaction(q, t)
  BY <1>1, <1>2 DEF DeleteTransaction, TransactionsOK
<1>3. ASSUME NEW c, PatchCategory(q, t, c) PROVE TransactionsOK'
  <2> DEFINE u == [t EXCEPT !.category = c]
  <2>1. TransactionOK(t)
    BY DEF TransactionsOK
  <2>2. /\ u = [id |-> t.id, text |-> t.text, merchant |-> t.merchant, day |-> t.day,
                category |-> c, direction |-> t.direction, amount |-> t.amount]
    BY <2>1 DEF TransactionOK
  <2>3. transactions' = (transactions \ {t}) \cup {u}
    BY <1>3 DEF PatchCategory
  <2> HIDE DEF u
  <2>4. TransactionOK(u)
    BY <2>1, <2>2 DEF TransactionOK
  <2>5. IsFiniteSet((transactions \ {t}) \cup {u})
    BY <1>1, FS_AddElement
  <2> QED BY <2>3, <2>4, <2>5 DEF TransactionsOK
<1> QED BY <1>2, <1>3

(* The books are right when they are empty.                                *)
LEMMA BooksInit == FinanceInit => TransactionsOK
BY FS_EmptySet DEF FinanceInit, TransactionsOK

(* And every step keeps them.                                              *)
LEMMA BooksKept ==
  ASSUME TransactionsOK, [FinanceNext]_financeVars PROVE TransactionsOK'
<1>1. CASE PortfolioNext /\ UNCHANGED transactions
  BY <1>1 DEF TransactionsOK
<1>2. ASSUME NEW q \in Requests, NEW f \in Statements, ImportTransactions(q, f)
      PROVE  TransactionsOK'
  BY <1>2, StatementOK, StoredOK DEF ImportTransactions
<1>3. ASSUME NEW q \in Requests, NEW r \in Entries, CreateTransaction(q, r)
      PROVE  TransactionsOK'
  <2>1. r.amount \in Int /\ r.day \in Int
    BY EntriesAssumption
  <2>2. Len(<<r>>) \in Nat /\ \A i \in 1..Len(<<r>>) : <<r>>[i] = r
    OBVIOUS
  <2> QED BY <1>3, <2>1, <2>2, StoredOK DEF CreateTransaction
<1>4. ASSUME NEW q \in Requests, NEW t \in transactions,
             DeleteTransaction(q, t) \/ PatchCategory(q, t, "Other")
      PROVE  TransactionsOK'
  BY <1>4, ChangedOK
<1>5. CASE UNCHANGED financeVars
  BY <1>5 DEF financeVars, TransactionsOK
<1> QED BY <1>1, <1>2, <1>3, <1>4, <1>5 DEF FinanceNext

(* Two rows of a line have one merchant, if the rules leave no choice, and *)
(* so are a pair.                                                          *)
LEMMA FlaggedOK == ASSUME TransactionsOK PROVE ReimportIsFlagged
<1>1. SUFFICES ASSUME NEW s \in Expenses(transactions), NEW t \in Expenses(transactions),
                      s # t, s.text = t.text, s.amount = t.amount, s.day = t.day,
                      Cardinality(NormalizeMerchant(s.text)) = 1
               PROVE  <<s, t>> \in duplicates
  BY DEF ReimportIsFlagged
<1> DEFINE names == NormalizeMerchant(s.text)
<1>2. /\ s.merchant \in names /\ t.merchant \in names /\ s.day \in Int
  BY <1>1 DEF TransactionsOK, TransactionOK, Expenses
<1>3. IsFiniteSet(names)
  <2>1. CASE s.text \cap DOMAIN Rule = {}
    BY <2>1, FS_Singleton DEF NormalizeMerchant
  <2>2. CASE s.text \cap DOMAIN Rule # {}
    <3>1. IsFiniteSet(s.text \cap DOMAIN Rule)
      BY RuleAssumption, FS_Subset
    <3>2. IsFiniteSet({Rule[w] : w \in s.text \cap DOMAIN Rule})
      BY <3>1, ImageFinite
    <3> QED BY <2>2, <3>2 DEF NormalizeMerchant
  <2> QED BY <2>1, <2>2
<1>4. s.merchant = t.merchant
  <2> HIDE DEF names
  <2>1. Cardinality(names) = 1
    BY <1>1 DEF names
  <2>2. \E x : names = {x}
    BY <1>3, <2>1, FS_Singleton
  <2> QED BY <1>2, <2>2
<1>5. Distance(s.day, t.day) <= 3
  BY <1>1, <1>2 DEF Distance
<1> QED BY <1>1, <1>4, <1>5 DEF duplicates, DuplicateCharges

(* Neighbours are of different days, so a copy is nobody's neighbour in    *)
(* place of the row.                                                       *)
LEMMA SubscriptionsOK == ASSUME TransactionsOK PROVE ReimportKeepsSubscriptions
<1> DEFINE strip(t) == [t EXCEPT !.id = <<>>]
           ts == {strip(t) : t \in transactions}
           Of(us, m) == {u \in Expenses(us) : u.merchant = m}
<1>1. \A t \in transactions :
        /\ strip(t).merchant = t.merchant /\ strip(t).direction = t.direction
        /\ strip(t).day = t.day /\ strip(t).amount = t.amount
  BY DEF TransactionsOK, TransactionOK
<1> HIDE DEF strip
<1>2. Expenses(ts) = {strip(t) : t \in Expenses(transactions)}
  BY <1>1 DEF Expenses
<1>3. {u.merchant : u \in Expenses(ts)} = {t.merchant : t \in Expenses(transactions)}
  BY <1>1, <1>2 DEF Expenses
<1>4. \A m : Of(ts, m) = {strip(t) : t \in Of(transactions, m)}
  BY <1>1, <1>2 DEF Expenses
<1>5. ASSUME NEW m
      PROVE  (\E p \in Consecutive(Of(ts, m)) : Recurs(p[1], p[2])) <=>
             (\E p \in Consecutive(Of(transactions, m)) : Recurs(p[1], p[2]))
  <2> DEFINE a == Of(transactions, m)
             b == Of(ts, m)
  <2>1. /\ b = {strip(t) : t \in a} /\ a \subseteq transactions
    BY <1>4 DEF Expenses
  <2> HIDE DEF a, b
  <2>2. \A s, t \in a : <<strip(s), strip(t)>> \in Consecutive(b) <=> <<s, t>> \in Consecutive(a)
    BY <1>1, <2>1 DEF Consecutive
  <2>3. \A s, t \in a : Recurs(strip(s), strip(t)) <=> Recurs(s, t)
    BY <1>1, <2>1 DEF Recurs
  <2>4. \A p \in Consecutive(a) : p = <<p[1], p[2]>> /\ p[1] \in a /\ p[2] \in a
    BY DEF Consecutive
  <2>5. \A p \in Consecutive(b) : \E s, t \in a : p = <<strip(s), strip(t)>>
    BY <2>1 DEF Consecutive
  <2>6. (\E p \in Consecutive(b) : Recurs(p[1], p[2])) => \E p \in Consecutive(a) : Recurs(p[1], p[2])
    <3> SUFFICES ASSUME NEW p \in Consecutive(b), Recurs(p[1], p[2])
                 PROVE  \E o \in Consecutive(a) : Recurs(o[1], o[2])
      OBVIOUS
    <3>1. PICK s \in a, t \in a : p = <<strip(s), strip(t)>>
      BY <2>5
    <3>2. <<s, t>> \in Consecutive(a) /\ Recurs(s, t)
      BY <2>2, <2>3, <3>1
    <3> QED BY <3>2
  <2>7. (\E p \in Consecutive(a) : Recurs(p[1], p[2])) => \E p \in Consecutive(b) : Recurs(p[1], p[2])
    <3> SUFFICES ASSUME NEW p \in Consecutive(a), Recurs(p[1], p[2])
                 PROVE  \E o \in Consecutive(b) : Recurs(o[1], o[2])
      OBVIOUS
    <3>1. p = <<p[1], p[2]>> /\ p[1] \in a /\ p[2] \in a
      BY <2>4
    <3>2. <<strip(p[1]), strip(p[2])>> \in Consecutive(b) /\ Recurs(strip(p[1]), strip(p[2]))
      BY <2>2, <2>3, <3>1
    <3> QED BY <3>2
  <2> QED BY <2>6, <2>7 DEF a, b
<1>6. Subscriptions(ts) = subscriptions
  <2> DEFINE again(us, m) == \E p \in Consecutive(Of(us, m)) : Recurs(p[1], p[2])
  <2>1. Subscriptions(ts) = {m \in {u.merchant : u \in Expenses(ts)} : again(ts, m)}
    BY DEF Subscriptions
  <2>2. subscriptions =
          {m \in {u.merchant : u \in Expenses(transactions)} : again(transactions, m)}
    BY DEF Subscriptions, subscriptions
  <2>3. \A m : again(ts, m) <=> again(transactions, m)
    BY <1>5
  <2> HIDE DEF again, ts
  <2> QED BY <1>3, <2>1, <2>2, <2>3
<1> QED BY <1>6 DEF ReimportKeepsSubscriptions, strip

(* A statement that is imported twice has its expenses reported as         *)
(* possible duplicates, and changes nothing in what is taken for a         *)
(* subscription.                                                           *)
THEOREM SecondImportIsSeen == FinanceSpec => []ReimportIsSeen
<1>1. FinanceInit => TransactionsOK
  BY BooksInit
<1>2. TransactionsOK /\ [FinanceNext]_financeVars => TransactionsOK'
  BY BooksKept
<1>3. TransactionsOK => ReimportIsSeen
  BY FlaggedOK, SubscriptionsOK DEF ReimportIsSeen
<1> QED BY <1>1, <1>2, <1>3, PTL DEF FinanceSpec

(***************************************************************************)
(* What the engine reports.                                                *)
(***************************************************************************)
(* A factor is taken away from both sides.                                 *)
LEMMA Cancelled ==
  ASSUME NEW d \in Int, d > 0, NEW x \in Int, NEW y \in Int, d * x <= d * y
  PROVE  x <= y
<1>1. SUFFICES ASSUME x > y PROVE FALSE
  OBVIOUS
<1>2. x - y \in Int /\ x - y >= 1
  BY <1>1
<1> DEFINE z == x - y
<1>3. d * z > 0
  <2> HIDE DEF z
  <2>1. z \in Int /\ z >= 1
    BY <1>2 DEF z
  <2> QED BY <2>1
<1>4. d * z = d * x - d * y
  OBVIOUS
<1> QED BY <1>3, <1>4

(* Rounding is off by half a unit at most.                                 *)
LEMMA NearestBounds ==
  ASSUME NEW n \in Int, NEW d \in Int, d > 0
  PROVE  /\ Nearest(n, d) \in Int
         /\ 2 * n - d <= (2 * d) * Nearest(n, d) /\ (2 * d) * Nearest(n, d) <= 2 * n + d
<1> DEFINE up == (2 * n + d) \div (2 * d)
           down == (d - 2 * n) \div (2 * d)
           e == 2 * d
<1>1. e \in Int /\ e > 0
  OBVIOUS
<1>2. /\ up \in Int /\ e * up <= 2 * n + d /\ 2 * n + d < e * up + e
  <2> DEFINE a == 2 * n + d
  <2>1. a \in Int
    OBVIOUS
  <2> HIDE DEF a, e
  <2>2. /\ a \div e \in Int /\ e * (a \div e) <= a /\ a < e * (a \div e) + e
    BY <1>1, <2>1
  <2> QED BY <2>2 DEF a, e
<1>3. /\ down \in Int /\ e * down <= d - 2 * n /\ d - 2 * n < e * down + e
  <2> DEFINE a == d - 2 * n
  <2>1. a \in Int
    OBVIOUS
  <2> HIDE DEF a, e
  <2>2. /\ a \div e \in Int /\ e * (a \div e) <= a /\ a < e * (a \div e) + e
    BY <1>1, <2>1
  <2> QED BY <2>2 DEF a, e
<1>4. CASE n >= 0
  <2>1. Nearest(n, d) = up
    BY <1>4 DEF Nearest
  <2> HIDE DEF up
  <2>2. e * up \in Int
    BY <1>1, <1>2
  <2>3. 2 * n - d <= e * up
    BY <1>2, <2>2
  <2> QED BY <1>2, <2>1, <2>2, <2>3
<1>5. CASE ~ (n >= 0)
  <2>1. Nearest(n, d) = -down
    BY <1>5 DEF Nearest
  <2> HIDE DEF down
  <2>2. e * down \in Int /\ e * (-down) = -(e * down)
    BY <1>1, <1>3
  <2>3. 2 * n - d <= -(e * down) /\ -(e * down) <= 2 * n + d
    BY <1>3, <2>2
  <2> QED BY <1>3, <2>1, <2>2, <2>3
<1> QED BY <1>4, <1>5

(* The groups of a grouping cover the total, and the percentages cover all *)
(* of it but for their rounding.                                           *)
LEMMA GroupsCover ==
  ASSUME NEW group, IsFiniteSet(DOMAIN group), \A h \in DOMAIN group : h.value \in Int
  PROVE  LET by == ValueBy(group)
             N == DOMAIN by
         IN  /\ IsFiniteSet(N) /\ N = {group[h] : h \in DOMAIN group}
             /\ \A k \in N : by[k] \in Int
             /\ SumOver(by) = Value(DOMAIN group) /\ Part(by, N) = Value(DOMAIN group)
             /\ Value(DOMAIN group) \in Int
<1> DEFINE by == ValueBy(group)
           H == DOMAIN group
           N == {group[h] : h \in H}
           val == [h \in H |-> h.value]
           In(n) == {h \in H : group[h] = n}
<1>1. IsFiniteSet(N)
  <2> HIDE DEF H
  <2> QED BY ImageFinite DEF H
<1>2. \A T \in SUBSET H : Value(T) = Part(val, T)
  <2> SUFFICES ASSUME NEW T \in SUBSET H PROVE Value(T) = Part(val, T)
    OBVIOUS
  <2>1. [h \in T |-> val[h]] = [h \in T |-> h.value]
    OBVIOUS
  <2> QED BY <2>1 DEF Value, Part
<1>3. by = [n \in N |-> Value(In(n))]
  BY DEF ValueBy
<1>4. by = [n \in N |-> Part(val, In(n))]
  BY <1>2, <1>3
<1>5. \A h \in H : val[h] \in Int /\ group[h] \in N
  OBVIOUS
<1>6. Part([n \in N |-> Part(val, In(n))], N) = Part(val, H)
  <2> HIDE DEF val, N, H
  <2> QED BY <1>1, <1>5, PartGroups DEF H
<1>7. \A n \in N : Part(val, In(n)) \in Int
  <2>1. \A n : IsFiniteSet(In(n))
    BY FS_Subset
  <2> HIDE DEF val
  <2> QED BY <1>5, <2>1, PartInt
<1>8. Part(val, H) \in Int
  <2> HIDE DEF val, N
  <2> QED BY <1>5, PartInt
<1>9. DOMAIN by = N /\ SumOver(by) = Part(by, N)
  <2>1. DOMAIN by = N /\ [n \in N |-> by[n]] = by
    BY <1>3
  <2> HIDE DEF by, N
  <2> QED BY <2>1 DEF Part
<1> HIDE DEF val, In
<1> QED BY <1>1, <1>2, <1>4, <1>6, <1>7, <1>8, <1>9

(* Each of the parts is rounded to the tenth of a percent.                 *)
LEMMA SharesCover ==
  ASSUME NEW N, IsFiniteSet(N), NEW T \in Int, T > 0,
         NEW by, \A k \in N : by[k] \in Int, Part(by, N) = T,
         NEW p, \A k \in N : p[k] = Nearest(by[k] * 1000, T)
  PROVE  /\ \A k \in N : p[k] \in Int /\ 2000 * by[k] - T <= (2 * T) * p[k]
         /\ Part(p, N) \in Int
         /\ 2000 - Cardinality(N) <= 2 * Part(p, N)
         /\ 2 * Part(p, N) <= 2000 + Cardinality(N)
<1> DEFINE n == Cardinality(N)
           P == Part(p, N)
           one == [k \in N |-> 1]
           twice == [k \in N |-> (2 * T) * p[k] + 0 * one[k]]
           low == [k \in N |-> 2000 * by[k] + (-T) * one[k]]
           high == [k \in N |-> 2000 * by[k] + T * one[k]]
<1>1. ASSUME NEW k \in N
      PROVE  /\ p[k] \in Int
             /\ 2000 * by[k] - T <= (2 * T) * p[k] /\ (2 * T) * p[k] <= 2000 * by[k] + T
  <2> DEFINE m == by[k] * 1000
  <2>1. m \in Int /\ 2 * m = 2000 * by[k] /\ p[k] = Nearest(m, T)
    OBVIOUS
  <2> HIDE DEF m
  <2>2. /\ Nearest(m, T) \in Int /\ 2 * m - T <= (2 * T) * Nearest(m, T)
        /\ (2 * T) * Nearest(m, T) <= 2 * m + T
    <3>1. T \in Int /\ T > 0 /\ m \in Int
      BY <2>1
    <3> QED BY ONLY <3>1, NearestBounds
  <2> QED BY <2>1, <2>2
<1>2. n \in Nat /\ P \in Int
  BY <1>1, FS_CardinalityType, PartInt
<1>3. Part(one, N) = n
  <2> DEFINE c == 1
  <2>1. c \in Int /\ \A k \in N : one[k] = c
    OBVIOUS
  <2>2. Part(one, N) = c * n
    <3> HIDE DEF one, c
    <3> QED BY <2>1, PartEqual
  <2> QED BY <1>2, <2>2
<1>4. \A k \in N : one[k] \in Int /\ by[k] \in Int /\ p[k] \in Int
  BY <1>1
<1>5. Part(twice, N) = (2 * T) * P + 0 * n
  <2> DEFINE a == 2 * T
             b == 0
  <2>1. /\ \A k \in N : p[k] \in Int /\ one[k] \in Int /\ twice[k] = a * p[k] + b * one[k]
        /\ a \in Int /\ b \in Int
    BY <1>4
  <2>2. Part(twice, N) = a * Part(p, N) + b * Part(one, N)
    <3> HIDE DEF one, twice, a, b
    <3> QED BY <2>1, PartLinear
  <2> HIDE DEF one, twice
  <2> QED BY <1>3, <2>2
<1>6. Part(low, N) = 2000 * T + (-T) * n
  <2> DEFINE a == 2000
             b == -T
  <2>1. /\ \A k \in N : by[k] \in Int /\ one[k] \in Int /\ low[k] = a * by[k] + b * one[k]
        /\ a \in Int /\ b \in Int /\ IsFiniteSet(N)
    BY <1>4
  <2>2. Part(low, N) = a * Part(by, N) + b * Part(one, N)
    <3> HIDE DEF one, low, a, b
    <3> QED BY ONLY <2>1, PartLinear
  <2> HIDE DEF one, low
  <2> QED BY <1>3, <2>2
<1>7. Part(high, N) = 2000 * T + T * n
  <2> DEFINE a == 2000
  <2>1. /\ \A k \in N : by[k] \in Int /\ one[k] \in Int /\ high[k] = a * by[k] + T * one[k]
        /\ a \in Int /\ T \in Int /\ IsFiniteSet(N)
    BY <1>4
  <2>2. Part(high, N) = a * Part(by, N) + T * Part(one, N)
    <3> HIDE DEF one, high, a
    <3> QED BY ONLY <2>1, PartLinear
  <2> HIDE DEF one, high
  <2> QED BY <1>3, <2>2
<1>8. ASSUME NEW k \in N
      PROVE  /\ low[k] \in Int /\ twice[k] \in Int /\ high[k] \in Int
             /\ low[k] <= twice[k] /\ twice[k] <= high[k]
  <2> DEFINE b == by[k]
             r == (2 * T) * p[k]
  <2>1. b \in Int /\ r \in Int /\ 2000 * b - T <= r /\ r <= 2000 * b + T
    BY <1>1
  <2>2. low[k] = 2000 * b - T /\ twice[k] = r /\ high[k] = 2000 * b + T
    BY <1>1
  <2> HIDE DEF b, r, low, twice, high
  <2> QED BY <2>1, <2>2
<1>9. Part(low, N) <= Part(twice, N) /\ Part(twice, N) <= Part(high, N)
  <2> HIDE DEF low, twice, high
  <2> QED BY <1>8, PartMono
<1>10. T * (2000 - n) <= T * (2 * P) /\ T * (2 * P) <= T * (2000 + n)
  <2>1. /\ T * (2000 - n) = 2000 * T + (-T) * n
        /\ T * (2000 + n) = 2000 * T + T * n
        /\ T * (2 * P) = (2 * T) * P + 0 * n
    BY <1>2
  <2> QED BY <1>5, <1>6, <1>7, <1>9, <2>1
<1>11. 2000 - n <= 2 * P /\ 2 * P <= 2000 + n
  <2>1. 2000 - n \in Int /\ 2000 + n \in Int /\ 2 * P \in Int
    BY <1>2
  <2> QED BY <1>10, <2>1, Cancelled
<1> QED BY <1>1, <1>2, <1>11

(* The two columns of an allocation.                                       *)
Values(x) == [k \in DOMAIN x |-> x[k].value]
Percents(x) == [k \in DOMAIN x |-> x[k].percent]

(* An allocation covers the total, and its percentages miss 100 by no more *)
(* than half a tenth for each name.                                        *)
LEMMA AllocationCovers ==
  ASSUME NEW group, IsFiniteSet(DOMAIN group), \A h \in DOMAIN group : h.value \in Int
  PROVE  LET T == Value(DOMAIN group)
             x == AllocationBy(group)
             N == DOMAIN x
             n == Cardinality(N)
             P == SumOver(Percents(x))
         IN  /\ IsFiniteSet(N) /\ n \in Nat /\ T \in Int
             /\ \A k \in N : x[k].value \in Int
             /\ SumOver(Values(x)) = T /\ Part(Values(x), N) = T
             /\ T > 0 => /\ \A k \in N : /\ x[k].percent \in Int
                                         /\ 2000 * x[k].value - T <= (2 * T) * x[k].percent
                         /\ Part(Percents(x), N) = P /\ P \in Int
                         /\ 2000 - n <= 2 * P /\ 2 * P <= 2000 + n
<1> DEFINE T == Value(DOMAIN group)
           x == AllocationBy(group)
           by == ValueBy(group)
           N == DOMAIN by
           n == Cardinality(N)
           p == Percents(x)
<1>1. x = [k \in N |-> [value |-> by[k], percent |-> IF T > 0 THEN Nearest(by[k] * 1000, T) ELSE 0]]
  BY DEF AllocationBy
<1>2. /\ IsFiniteSet(N) /\ \A k \in N : by[k] \in Int
      /\ SumOver(by) = T /\ Part(by, N) = T /\ T \in Int
  BY GroupsCover
<1>3. by = [k \in N |-> by[k]]
  BY DEF ValueBy
<1>4. n \in Nat
  BY <1>2, FS_CardinalityType
<1> HIDE DEF by, x, N, T
<1>5. DOMAIN x = N /\ Values(x) = by /\ \A k \in N : x[k].value = by[k]
  BY <1>1, <1>3 DEF Values
<1>6. ASSUME T > 0
      PROVE  /\ \A k \in N : /\ x[k].percent \in Int
                             /\ 2000 * x[k].value - T <= (2 * T) * x[k].percent
             /\ Part(p, N) \in Int
             /\ 2000 - n <= 2 * Part(p, N) /\ 2 * Part(p, N) <= 2000 + n
  <2>1. \A k \in N : p[k] = Nearest(by[k] * 1000, T) /\ p[k] = x[k].percent
    BY <1>1, <1>5, <1>6 DEF Percents
  <2> HIDE DEF p
  <2>2. /\ \A k \in N : p[k] \in Int /\ 2000 * by[k] - T <= (2 * T) * p[k]
        /\ Part(p, N) \in Int
        /\ 2000 - n <= 2 * Part(p, N) /\ 2 * Part(p, N) <= 2000 + n
    BY <1>2, <1>6, <2>1, SharesCover
  <2> QED BY <1>5, <2>1, <2>2
<1>7. Part(p, N) = SumOver(p)
  <2>1. p = [k \in N |-> p[k]]
    BY <1>5 DEF Percents
  <2> HIDE DEF p
  <2> QED BY <2>1 DEF Part
<1>8. /\ DOMAIN x = N /\ IsFiniteSet(N) /\ n \in Nat /\ T \in Int
      /\ \A k \in N : x[k].value \in Int
      /\ SumOver(Values(x)) = T /\ Part(Values(x), N) = T
  BY <1>2, <1>4, <1>5
<1> HIDE DEF p
<1> QED BY <1>6, <1>7, <1>8 DEF x, T, p

(* What is held at its quotes: finitely many rows, each with a value.      *)
LEMMA HeldRows ==
  ASSUME StoreInv PROVE IsFiniteSet(Held) /\ \A h \in Held : h.value \in Int
<1>1. IsFiniteSet(Held)
  <2> DEFINE m == [h \in holdings |-> Quoted(h)]
  <2>1. Held = {m[h] : h \in holdings}
    BY DEF Held, Priced
  <2> HIDE DEF m
  <2> QED BY <2>1, ImageFinite DEF StoreInv, AllFinite
<1>2. ASSUME NEW h \in holdings PROVE Quoted(h).value \in Int
  <2>1. h \in HoldingRecords
    BY DEF StoreInv, RowTypes
  <2>2. h.value \in Int /\ h.quantity \in Int /\ h.symbol \in DOMAIN Price
    BY <2>1 DEF HoldingRecords
  <2>3. h.quantity * Price[h.symbol] \in Int
    BY <2>2, PriceAssumption
  <2>4. CASE h.value = 0
    <3> DEFINE v == h.quantity * Price[h.symbol]
    <3> HIDE DEF v
    <3>1. [h EXCEPT !.value = v].value = v
      BY <2>1 DEF HoldingRecords
    <3> QED BY <2>3, <2>4, <3>1 DEF Quoted, v
  <2>5. CASE h.value # 0
    BY <2>2, <2>5 DEF Quoted
  <2> QED BY <2>4, <2>5
<1> QED BY <1>1, <1>2 DEF Held, Priced

(* The same of one allocation, as EngineAddsUp says it.                    *)
LEMMA ReportAddsUp ==
  ASSUME NEW group, IsFiniteSet(DOMAIN group), \A h \in DOMAIN group : h.value \in Int
  PROVE  LET x == AllocationBy(group)
             T == Value(DOMAIN group)
         IN  /\ SumOver(Values(x)) = T
             /\ T > 0 => 2 * Distance(SumOver(Percents(x)), 1000) <= Cardinality(DOMAIN x)
<1> DEFINE x == AllocationBy(group)
           T == Value(DOMAIN group)
           P == SumOver(Percents(x))
           n == Cardinality(DOMAIN x)
<1>1. /\ SumOver(Values(x)) = T /\ n \in Nat
      /\ T > 0 => P \in Int /\ 2000 - n <= 2 * P /\ 2 * P <= 2000 + n
  BY AllocationCovers
<1> HIDE DEF T, P, n
<1>2. T > 0 => 2 * Distance(P, 1000) <= n
  BY <1>1 DEF Distance
<1> QED BY <1>1, <1>2 DEF T, P, n

(* The summary is of the same holdings, divided by account and into cash   *)
(* and the rest.                                                           *)
LEMMA SummaryAddsUp == ASSUME StoreInv PROVE EngineAddsUp
<1> DEFINE s == Summary(Held, accounts)
           a == Allocation(Held, accounts)
           T == Value(Held)
           account == ByType(Held, accounts)
           kind == [h \in Held |-> Kind[h.symbol]]
           symbol == [h \in Held |-> h.symbol]
<1>1. IsFiniteSet(Held) /\ \A h \in Held : h.value \in Int
  BY HeldRows
<1>2. s.total = T /\ s.byAccount = ValueBy(account)
  BY DEF Summary
<1>3. s.total = s.cash + s.invested
  <2> DEFINE cash == {h \in Held : Kind[h.symbol] = "cash" \/ h.symbol \in Cash}
             val == [h \in Held |-> h.value]
  <2>1. s.cash = Value(cash) /\ s.invested = Value(Held \ cash)
    BY DEF Summary
  <2>2. \A S \in SUBSET Held : Value(S) = Part(val, S)
    <3> SUFFICES ASSUME NEW S \in SUBSET Held PROVE Value(S) = Part(val, S)
      OBVIOUS
    <3>1. [h \in S |-> val[h]] = [h \in S |-> h.value]
      OBVIOUS
    <3> QED BY <3>1 DEF Value, Part
  <2>3. \A h \in Held : val[h] \in Int
    BY <1>1
  <2>4. cash \in SUBSET Held /\ Held \ cash \in SUBSET Held /\ Held \cap cash = cash
    OBVIOUS
  <2> HIDE DEF cash, val
  <2>5. Part(val, Held) = Part(val, Held \cap cash) + Part(val, Held \ cash)
    BY <1>1, <2>3, PartSplit
  <2>6. T = Part(val, Held) /\ Value(cash) = Part(val, cash) /\ Value(Held \ cash) = Part(val, Held \ cash)
    BY <2>2, <2>4
  <2> HIDE DEF s, T
  <2> QED BY <1>2, <2>1, <2>4, <2>5, <2>6
<1>4. DOMAIN account = Held /\ DOMAIN kind = Held /\ DOMAIN symbol = Held
  BY DEF ByType
<1>5. s.total = SumOver(s.byAccount)
  <2> HIDE DEF account, s, T
  <2>1. SumOver(ValueBy(account)) = Value(DOMAIN account)
    BY <1>1, <1>4, GroupsCover
  <2> QED BY <1>2, <1>4, <2>1 DEF T
<1>6. /\ a.account = AllocationBy(account) /\ a.kind = AllocationBy(kind)
      /\ a.symbol = AllocationBy(symbol)
  BY DEF Allocation
<1>7. ASSUME NEW x \in {a.account, a.kind, a.symbol}
      PROVE  /\ SumOver(Values(x)) = T
             /\ T > 0 => 2 * Distance(SumOver(Percents(x)), 1000) <= Cardinality(DOMAIN x)
  <2> HIDE DEF account, kind, symbol, T, a
  <2>1. PICK group \in {account, kind, symbol} : x = AllocationBy(group)
    BY <1>6
  <2>2. DOMAIN group = Held
    BY <1>4
  <2> QED BY <1>1, <2>1, <2>2, ReportAddsUp DEF T
<1>8. \A x \in {a.account, a.kind, a.symbol} :
        /\ SumOver([k \in DOMAIN x |-> x[k].value]) = T
        /\ T > 0 => 2 * Distance(SumOver([k \in DOMAIN x |-> x[k].percent]), 1000)
                      <= Cardinality(DOMAIN x)
  <2> HIDE DEF a, T
  <2> QED BY <1>7 DEF Values, Percents
<1> HIDE DEF s, a, T
<1> QED BY <1>2, <1>3, <1>5, <1>8 DEF EngineAddsUp, s, a

(* Without the least of them the rest has more than its share.             *)
LEMMA WithoutLeast ==
  ASSUME NEW S, IsFiniteSet(S), S # {}, NEW f, \A x \in S : f[x] \in Int
  PROVE  \E x \in S : /\ Part(f, S) * (Cardinality(S) - 1) <= Part(f, S \ {x}) * Cardinality(S)
                      /\ Cardinality(S \ {x}) = Cardinality(S) - 1 /\ IsFiniteSet(S \ {x})
                      /\ Part(f, S) \in Int /\ Part(f, S \ {x}) \in Int
                      /\ Cardinality(S) \in Nat
<1>1. PICK x \in S : f[x] * Cardinality(S) <= Part(f, S)
  BY PartLeast
<1>2. Part(f, S) = f[x] + Part(f, S \ {x})
  BY PartStep
<1>3. Cardinality(S \ {x}) = Cardinality(S) - 1 /\ IsFiniteSet(S \ {x})
  BY FS_RemoveElement
<1>4. Part(f, S) \in Int /\ Part(f, S \ {x}) \in Int /\ Cardinality(S) \in Nat
  BY <1>3, PartInt, FS_CardinalityType
<1> DEFINE p == Part(f, S)
           r == Part(f, S \ {x})
           c == f[x]
           n == Cardinality(S)
<1>5. p * (n - 1) <= r * n
  <2>1. p \in Int /\ r \in Int /\ c \in Int /\ n \in Nat /\ p = c + r /\ c * n <= p
    BY <1>1, <1>2, <1>4
  <2> HIDE DEF p, r, c, n
  <2>2. p * (n - 1) = p * n - p /\ r * n = p * n - c * n
    BY <2>1
  <2>3. p * n \in Int /\ c * n \in Int
    BY <2>1
  <2> DEFINE u == p * n
             v == c * n
  <2> HIDE DEF u, v
  <2>4. u - p <= u - v
    BY <2>1, <2>3 DEF u, v
  <2> QED BY <2>2, <2>4 DEF u, v
<1> QED BY <1>3, <1>4, <1>5

(* Of up to eight parts of a thousand five have more than 600.             *)
LEMMA FiveOfEight ==
  ASSUME NEW N, IsFiniteSet(N), Cardinality(N) < 9, NEW p, \A k \in N : p[k] \in Int,
         2000 - Cardinality(N) <= 2 * Part(p, N)
  PROVE  \E top \in SUBSET N : Cardinality(top) <= 5 /\ Part(p, top) > 600
<1> DEFINE n == Cardinality(N)
<1>1. n \in Nat /\ Part(p, N) \in Int
  BY FS_CardinalityType, PartInt
<1>2. ASSUME NEW S \in SUBSET N, Cardinality(S) \in Nat, Cardinality(S) > 0
      PROVE  \E U \in SUBSET N :
               /\ Part(p, S) * (Cardinality(S) - 1) <= Part(p, U) * Cardinality(S)
               /\ Cardinality(U) = Cardinality(S) - 1 /\ Part(p, U) \in Int
  <2>1. IsFiniteSet(S) /\ S # {} /\ \A x \in S : p[x] \in Int
    BY <1>2, FS_Subset, FS_EmptySet
  <2>2. PICK x \in S : /\ Part(p, S) * (Cardinality(S) - 1) <= Part(p, S \ {x}) * Cardinality(S)
                       /\ Cardinality(S \ {x}) = Cardinality(S) - 1
                       /\ Part(p, S \ {x}) \in Int
    BY <2>1, WithoutLeast
  <2>3. S \ {x} \in SUBSET N
    OBVIOUS
  <2> QED BY <2>2, <2>3
<1> DEFINE size(S) == Cardinality(S)
           sum(S) == Part(p, S)
<1>3. CASE n <= 5
  <2>1. sum(N) > 600
    <3> HIDE DEF n
    <3>1. 2000 - n <= 2 * Part(p, N)
      BY DEF n
    <3> QED BY <1>1, <1>3, <3>1
  <2> QED BY <1>3, <2>1
<1>4. ASSUME NEW S \in SUBSET N, size(S) = 6, sum(S) \in Int, sum(S) > 722
      PROVE  \E top \in SUBSET N : size(top) <= 5 /\ sum(top) > 600
  <2>1. PICK U \in SUBSET N : sum(S) * 5 <= sum(U) * 6 /\ size(U) = 5 /\ sum(U) \in Int
    BY <1>2, <1>4
  <2>2. sum(U) > 600
    BY <1>4, <2>1
  <2> QED BY <2>1, <2>2
<1>5. ASSUME NEW S \in SUBSET N, size(S) = 7, sum(S) \in Int, sum(S) > 845
      PROVE  \E top \in SUBSET N : size(top) <= 5 /\ sum(top) > 600
  <2>1. PICK U \in SUBSET N : sum(S) * 6 <= sum(U) * 7 /\ size(U) = 6 /\ sum(U) \in Int
    BY <1>2, <1>5
  <2>2. sum(U) > 722
    BY <1>5, <2>1
  <2> QED BY <1>4, <2>1, <2>2
<1>6. ASSUME NEW S \in SUBSET N, size(S) = 8, sum(S) \in Int, sum(S) > 968
      PROVE  \E top \in SUBSET N : size(top) <= 5 /\ sum(top) > 600
  <2>1. PICK U \in SUBSET N : sum(S) * 7 <= sum(U) * 8 /\ size(U) = 7 /\ sum(U) \in Int
    BY <1>2, <1>6
  <2>2. sum(U) > 845
    BY <1>6, <2>1
  <2> QED BY <1>5, <2>1, <2>2
<1>7. CASE n \in 6..8
  <2>1. sum(N) \in Int /\ sum(N) > 990
    <3> HIDE DEF n
    <3>1. 2000 - n <= 2 * Part(p, N)
      BY DEF n
    <3> QED BY <1>1, <1>7, <3>1
  <2>2. size(N) = 6 \/ size(N) = 7 \/ size(N) = 8
    BY <1>7
  <2> HIDE DEF size, sum
  <2>3. N \in SUBSET N
    OBVIOUS
  <2>4. \E top \in SUBSET N : size(top) <= 5 /\ sum(top) > 600
    <3>1. sum(N) > 722 /\ sum(N) > 845 /\ sum(N) > 968
      BY <2>1
    <3> QED BY <1>4, <1>5, <1>6, <2>1, <2>2, <2>3, <3>1
  <2> QED BY <2>4 DEF size, sum
<1>8. n <= 5 \/ n \in 6..8
  BY <1>1
<1> QED BY <1>3, <1>7, <1>8

(* Of fewer than four symbols one has more than 25%, and of fewer than     *)
(* nine five have more than 60%, whatever is rounded.                      *)
LEMMA ConcentrationOK == ASSUME StoreInv PROVE SmallIsConcentrated
<1> DEFINE symbol == [h \in Held |-> h.symbol]
           x == AllocationBy(symbol)
           T == Value(Held)
           N == DOMAIN x
           n == Cardinality(N)
           value == Values(x)
           percent == Percents(x)
           P == Part(percent, N)
<1>1. SUFFICES ASSUME NEW p \in Profiles, T > 0, n = Cardinality({h.symbol : h \in Held})
               PROVE  /\ n < 4 => "single" \in portfolioRisk(p)
                      /\ n < 9 => "diversified" \notin Suggestions(portfolioRisk(p))
  <2>1. N = {h.symbol : h \in Held}
    BY DEF AllocationBy, ValueBy
  <2> HIDE DEF N, T
  <2> QED BY <2>1 DEF SmallIsConcentrated, T
<1>2. DOMAIN symbol = Held /\ IsFiniteSet(Held) /\ \A h \in Held : h.value \in Int
  BY HeldRows
<1>3. /\ IsFiniteSet(N) /\ T \in Int
      /\ \A k \in N : /\ x[k].value \in Int /\ x[k].percent \in Int
                      /\ 2000 * x[k].value - T <= (2 * T) * x[k].percent
      /\ Part(value, N) = T /\ P \in Int
      /\ 2000 - n <= 2 * P
  <2> HIDE DEF symbol
  <2> QED BY <1>1, <1>2, AllocationCovers
<1> DEFINE stock == Value({h \in Held : Kind[h.symbol] = "stock"})
           found(f) ==
             \/ f = "single" /\ SingleAbove25(x)
             \/ f = "top_five" /\ TopFiveAbove60(x)
             \/ f = "mismatch" /\ p.risk = "conservative"
                /\ IF T > 0 THEN 4 * stock > 3 * T ELSE 4 * stock < 3 * T
<1>4. portfolioRisk(p) = {f \in {"single", "top_five", "mismatch"} : found(f)}
  <2>1. Allocation(Held, <<>>).symbol = x
    BY DEF Allocation
  <2>2. T # 0
    BY <1>1, <1>3
  <2> HIDE DEF x
  <2> QED BY <2>1, <2>2 DEF portfolioRisk, Findings
<1>5. \A k \in N : value[k] = x[k].value /\ percent[k] = x[k].percent
  BY DEF Values, Percents
<1> HIDE DEF x, value, percent, found, symbol
<1>6. n \in Nat
  BY <1>3, FS_CardinalityType
<1>7. n < 4 => SingleAbove25(x)
  <2> SUFFICES ASSUME n < 4 PROVE \E k \in N : x[k].percent > 250
    BY DEF SingleAbove25
  <2> DEFINE less == [k \in N |-> (-1) * value[k] + 0 * value[k]]
  <2>1. Part(less, N) = -T
    <3> DEFINE a == -1
               b == 0
    <3>1. /\ a \in Int /\ b \in Int
          /\ \A k \in N : value[k] \in Int /\ less[k] = a * value[k] + b * value[k]
      BY <1>3, <1>5
    <3>2. Part(less, N) = a * Part(value, N) + b * Part(value, N)
      <4> HIDE DEF less, a, b
      <4> QED BY <1>3, <3>1, PartLinear
    <3> HIDE DEF less
    <3> QED BY <1>3, <3>2
  <2>2. \A k \in N : less[k] \in Int /\ less[k] = -x[k].value
    BY <1>3, <1>5
  <2>3. N # {}
    <3>1. Part(value, {}) = 0
      BY PartEmpty
    <3> HIDE DEF N, T
    <3> QED BY <1>1, <1>3, <3>1
  <2>4. PICK k \in N : less[k] * n <= -T
    <3> HIDE DEF less, N
    <3> QED BY <1>3, <2>1, <2>2, <2>3, PartLeast
  <2> DEFINE v == x[k].value
             r == x[k].percent
  <2>5. v \in Int /\ r \in Int /\ 2000 * v - T <= (2 * T) * r /\ (-v) * n <= -T
    <3>1. less[k] = -v
      BY <2>2
    <3> HIDE DEF less, N, T
    <3> QED BY <1>3, <2>4, <3>1
  <2> HIDE DEF v, r, n, T
  <2>6. n \in {0, 1, 2, 3}
    BY <1>6
  <2>7. T <= 3 * v
    BY <1>1, <1>3, <2>5, <2>6
  <2>8. T * 500 < T * (2 * r)
    <3>1. T * (2 * r) = (2 * T) * r
      BY <1>3, <2>5
    <3>2. (2 * T) * r \in Int
      BY <1>3, <2>5
    <3> DEFINE u == (2 * T) * r
    <3> HIDE DEF u
    <3>3. 2000 * v - T <= u /\ u \in Int
      BY <2>5, <3>2 DEF u
    <3>4. T * 500 < u
      BY <1>1, <1>3, <2>5, <2>7, <3>3
    <3> QED BY <3>1, <3>4 DEF u
  <2>9. r > 250
    <3>1. SUFFICES ASSUME r <= 250 PROVE FALSE
      BY <2>5
    <3>2. 2 * r <= 500
      BY <2>5, <3>1
    <3>3. T * (2 * r) <= T * 500
      <4> DEFINE s == 2 * r
      <4>1. s \in Int /\ s <= 500
        BY <2>5, <3>2
      <4> HIDE DEF s
      <4>2. 500 - s >= 0 /\ T > 0 /\ T \in Int
        BY <1>1, <1>3, <4>1
      <4>3. T * (500 - s) >= 0
        BY <4>1, <4>2
      <4>4. T * (500 - s) = T * 500 - T * s
        BY <4>1, <4>2
      <4>5. T * s \in Int
        BY <4>1, <4>2
      <4>6. T * s <= T * 500
        BY <4>2, <4>3, <4>4, <4>5
      <4> QED BY <4>6 DEF s
    <3>4. T * (2 * r) \in Int /\ T * 500 \in Int
      BY <1>3, <2>5
    <3> QED BY <2>8, <3>3, <3>4
  <2> QED BY <2>9 DEF r
<1>8. n < 9 => TopFiveAbove60(x)
  <2> SUFFICES ASSUME n < 9 PROVE TopFiveAbove60(x)
    OBVIOUS
  <2>1. \A k \in N : percent[k] \in Int
    BY <1>3, <1>5
  <2>2. PICK top \in SUBSET N : Cardinality(top) <= 5 /\ Part(percent, top) > 600
    <3> HIDE DEF N
    <3> QED BY <1>3, <2>1, FiveOfEight
  <2>3. Part(percent, top) = SumOver([s \in top |-> x[s].percent])
    <3>1. [s \in top |-> percent[s]] = [s \in top |-> x[s].percent]
      BY <1>5
    <3> QED BY <3>1 DEF Part
  <2> QED BY <2>2, <2>3 DEF TopFiveAbove60
<1>9. n < 4 => "single" \in portfolioRisk(p)
  BY <1>4, <1>7 DEF found
<1>10. n < 9 => "diversified" \notin Suggestions(portfolioRisk(p))
  <2> SUFFICES ASSUME n < 9 PROVE "diversified" \notin Suggestions(portfolioRisk(p))
    OBVIOUS
  <2>1. "top_five" \in portfolioRisk(p)
    BY <1>4, <1>8 DEF found
  <2>2. "diversified" \notin portfolioRisk(p)
    BY <1>4
  <2> QED BY <2>1, <2>2 DEF Suggestions
<1> QED BY <1>9, <1>10

(* In any state that interleaved requests leave, the summary, the          *)
(* allocations and the findings on concentration agree with the holdings   *)
(* and with each other.                                                    *)
THEOREM ReportsAgreeWithHoldings == FinanceSpec => []EngineAgrees
<1>1. FinanceInit => StoreInv
  BY StoreInvInit
<1>2. StoreInv /\ [FinanceNext]_financeVars => StoreInv'
  BY StoreInvStep
<1>3. StoreInv => EngineAgrees
  BY SummaryAddsUp, ConcentrationOK DEF EngineAgrees
<1> QED BY <1>1, <1>2, <1>3, PTL DEF FinanceSpec

(***************************************************************************)
(* What the advisor says.                                                  *)
(***************************************************************************)
Amounts(ts) == [t \in ts |-> t.amount]

(* A total is the sum of the amounts over that part of the rows.           *)
LEMMA Totals ==
  ASSUME NEW ts, IsFiniteSet(ts), \A t \in ts : t.amount \in Int, NEW S \in SUBSET ts
  PROVE  /\ Total(S) = Part(Amounts(ts), S) /\ Total(S) \in Int /\ IsFiniteSet(S)
<1>1. Total(S) = Part(Amounts(ts), S)
  <2>1. [t \in S |-> Amounts(ts)[t]] = [t \in S |-> t.amount]
    BY DEF Amounts
  <2> QED BY <2>1 DEF Total, Part
<1>2. \A t \in S : Amounts(ts)[t] \in Int
  BY DEF Amounts
<1>3. IsFiniteSet(S)
  BY FS_Subset
<1>4. Part(Amounts(ts), S) \in Int
  BY <1>2, <1>3, PartInt
<1> QED BY <1>1, <1>3, <1>4

(* Expenses are some of the transactions, and every total is a number.     *)
LEMMA Spent ==
  ASSUME TransactionsOK
  PROVE  LET E == Expenses(transactions) IN
         /\ E \subseteq transactions /\ IsFiniteSet(E) /\ \A t \in E : t.amount \in Int
         /\ \A S \in SUBSET transactions : Total(S) \in Int
<1>1. /\ IsFiniteSet(transactions) /\ \A t \in transactions : t.amount \in Int
      /\ Expenses(transactions) \subseteq transactions
  BY DEF TransactionsOK, TransactionOK, Expenses
<1> QED BY <1>1, Totals, FS_Subset

(* A breakdown covers what was spent.                                      *)
LEMMA BreakdownCovers ==
  ASSUME TransactionsOK, NEW field
  PROVE  SumOver(Breakdown(transactions, field)) = Total(Expenses(transactions))
<1> DEFINE E == Expenses(transactions)
           f == Amounts(E)
           group == [t \in E |-> t[field]]
           N == {group[t] : t \in E}
           In(k) == {t \in E : group[t] = k}
           by == [k \in N |-> Part(f, In(k))]
           b == Breakdown(transactions, field)
<1>1. IsFiniteSet(E) /\ \A t \in E : t.amount \in Int
  BY Spent
<1>2. \A t \in E : f[t] \in Int /\ group[t] \in N
  BY <1>1 DEF Amounts
<1>3. IsFiniteSet(N)
  <2> HIDE DEF group, E
  <2> QED BY <1>1, ImageFinite
<1>4. Part([k \in N |-> Part(f, {t \in E : group[t] = k})], N) = Part(f, E)
  <2> HIDE DEF f, E, N, group
  <2> QED BY <1>1, <1>2, <1>3, PartGroups
<1>5. \A S \in SUBSET E : Total(S) = Part(f, S)
  <2> HIDE DEF E
  <2> QED BY <1>1, Totals
<1>6. b = by
  <2>1. b = [k \in N |-> Total(In(k))]
    BY DEF Breakdown
  <2>2. \A k : Total(In(k)) = Part(f, In(k))
    <3> HIDE DEF f, group
    <3> QED BY <1>5
  <2> HIDE DEF In, f, b
  <2> QED BY <2>1, <2>2
<1>7. SumOver(by) = Part(by, N)
  <2>1. DOMAIN by = N /\ [k \in N |-> by[k]] = by
    OBVIOUS
  <2> HIDE DEF by, N
  <2> QED BY <2>1 DEF Part
<1>8. Total(E) = Part(f, E)
  BY <1>5
<1> HIDE DEF b, f, E, N, by
<1> QED BY <1>4, <1>6, <1>7, <1>8 DEF b, E, by

(* The breakdowns and the cash flow divide the same expenses.              *)
LEMMA SpendingOK == ASSUME TransactionsOK PROVE SpendingAddsUp
<1> DEFINE E == Expenses(transactions)
           F == {t \in E : t.category \in Fixed}
           V == {t \in E : t.category \notin Fixed}
           c == CashFlow(transactions)
           f == Amounts(E)
<1>1. IsFiniteSet(E) /\ \A t \in E : t.amount \in Int
  BY Spent
<1>2. \A t \in E : f[t] \in Int
  BY <1>1 DEF Amounts
<1>3. E \cap F = F /\ E \ F = V /\ F \in SUBSET E /\ V \in SUBSET E /\ E \in SUBSET E
  OBVIOUS
<1>4. c.fixed = Total(F) /\ c.variable = Total(V)
  BY DEF CashFlow
<1> HIDE DEF E, F, V
<1>5. Total(E) = Part(f, E) /\ Total(F) = Part(f, F) /\ Total(V) = Part(f, V)
  BY <1>1, <1>3, Totals
<1> HIDE DEF f
<1>6. Part(f, E) = Part(f, E \cap F) + Part(f, E \ F)
  BY <1>1, <1>2, PartSplit
<1>7. SumOver(categories) = Total(E) /\ SumOver(merchants) = Total(E)
  BY BreakdownCovers DEF categories, merchants, E
<1> HIDE DEF c
<1> QED BY <1>3, <1>4, <1>5, <1>6, <1>7 DEF SpendingAddsUp, c

(* The sum of the squares is at least what the one that is out takes: of   *)
(* numbers whose sum is 0, a and m others, m times the sum is (m + 1) * a^2*)
(* at least.                                                               *)
Squares(q, b, S) == \A s \in S : b[s] \in Int /\ q[s] = b[s] * b[s]

(* A deviation is bounded by the sum of their squares: the others have to  *)
(* make up for it, and their sum of squares is least if they are equal.    *)
LEMMA Spread ==
  ASSUME NEW S, IsFiniteSet(S), NEW b, NEW q, Squares(q, b, S), Part(b, S) = 0, NEW t \in S
  PROVE  /\ Cardinality(S) >= 1 /\ Part(q, S) \in Int
         /\ Cardinality(S) > 1 => Cardinality(S) * (b[t] * b[t]) <= (Cardinality(S) - 1) * Part(q, S)
<1>0. \A s \in S : b[s] \in Int /\ q[s] = b[s] * b[s]
  BY DEF Squares
<1> USE <1>0
<1> DEFINE n == Cardinality(S)
           m == n - 1
           a == b[t]
           O == S \ {t}
           aa == a * a
           V == Part(q, O)
<1>1. IsFiniteSet(O) /\ Cardinality(O) = m /\ n \in Nat /\ n >= 1
  <2>1. IsFiniteSet(O) /\ Cardinality(O) = m /\ n \in Nat /\ Cardinality(O) \in Nat
    BY FS_RemoveElement, FS_CardinalityType
  <2> QED BY <2>1
<1>2. \A s \in S : q[s] \in Int
  OBVIOUS
<1>3. V \in Int /\ Part(q, S) = aa + V /\ Part(q, S) \in Int
  <2>1. V \in Int /\ Part(q, S) \in Int
    BY <1>1, <1>2, PartInt
  <2>2. Part(q, S) = q[t] + V
    BY <1>2, PartStep
  <2> QED BY <2>1, <2>2
<1>4. Part(b, O) = -a
  <2>1. Part(b, S) = a + Part(b, O)
    BY PartStep
  <2>2. Part(b, O) \in Int
    BY <1>1, PartInt
  <2> QED BY <2>1, <2>2
<1>5. a \in Int /\ aa \in Int /\ m \in Int
  BY <1>1
<1> DEFINE u == m * m
           v == 2 * (m * a)
           one == [s \in O |-> 1]
           line == [s \in O |-> v * b[s] + aa * one[s]]
           h == [s \in O |-> u * q[s] + 1 * line[s]]
<1>6. u \in Int /\ v \in Int
  <2> HIDE DEF m, a
  <2> QED BY <1>5
<1> HIDE DEF aa, V, u, v, m, a
<1>7. Part(one, O) = m
  <2> DEFINE k == 1
  <2>1. k \in Int /\ \A s \in O : one[s] = k
    OBVIOUS
  <2>2. Part(one, O) = k * Cardinality(O)
    <3> HIDE DEF one, k, O
    <3> QED BY <1>1, <2>1, PartEqual
  <2> HIDE DEF one, O
  <2> QED BY <1>1, <1>5, <2>2
<1>8. Part(line, O) = v * Part(b, O) + aa * m
  <2>1. Combines(line, v, b, aa, one, O) /\ v \in Int /\ aa \in Int /\ IsFiniteSet(O)
    BY <1>1, <1>5, <1>6 DEF Combines
  <2>2. Part(line, O) = v * Part(b, O) + aa * Part(one, O)
    <3> HIDE DEF one, line, O
    <3> QED BY ONLY <2>1, PartCombined
  <2> QED BY <1>7, <2>2
<1>9. Part(h, O) = u * V + 1 * (v * (-a) + aa * m)
  <2> DEFINE k == 1
  <2>1. \A s \in O : line[s] \in Int
    <3> SUFFICES ASSUME NEW s \in O PROVE v * b[s] + aa * one[s] \in Int
      OBVIOUS
    <3> DEFINE y == b[s]
    <3>1. y \in Int /\ one[s] = 1
      OBVIOUS
    <3> HIDE DEF y, one
    <3> QED BY <1>5, <1>6, <3>1
  <2>2. /\ \A s \in O : q[s] \in Int /\ line[s] \in Int /\ h[s] = u * q[s] + k * line[s]
        /\ u \in Int /\ k \in Int /\ IsFiniteSet(O)
    BY <1>1, <1>2, <1>6, <2>1
  <2>3. Part(h, O) = u * Part(q, O) + k * Part(line, O)
    <3> HIDE DEF line, h, k, O
    <3> QED BY ONLY <2>2, PartLinear
  <2> HIDE DEF line, h
  <2> QED BY <1>4, <1>8, <2>3 DEF V
<1>10. Part(h, O) \in Nat
  <2>1. ASSUME NEW s \in O PROVE h[s] \in Nat
    <3> DEFINE y == b[s]
               z == m * y + a
    <3>1. y \in Int
      OBVIOUS
    <3>2. h[s] = u * (y * y) + 1 * (v * y + aa * 1)
      OBVIOUS
    <3> HIDE DEF y, h
    <3>3. z \in Int
      BY <1>5, <3>1
    <3>4. u * (y * y) + 1 * (v * y + aa * 1) = z * z
      <4>1. (m * m) * (y * y) + 1 * ((2 * (m * a)) * y + (a * a) * 1) = (m * y + a) * (m * y + a)
        BY <1>5, <3>1
      <4> QED BY <4>1 DEF u, v, aa
    <3> HIDE DEF z
    <3>5. z * z \in Nat
      BY <3>3
    <3> QED BY <3>2, <3>4, <3>5
  <2> HIDE DEF h, O
  <2> QED BY <1>1, <2>1, PartNat
<1>11. (m + 1) * aa <= m * (aa + V) \/ m <= 0
  <2> SUFFICES ASSUME m > 0 PROVE (m + 1) * aa <= m * (aa + V)
    BY <1>5
  <2>1. u * V + 1 * (v * (-a) + aa * m) = m * (m * V - aa)
    <3>1. (m * m) * V + 1 * ((2 * (m * a)) * (-a) + (a * a) * m) = m * (m * V - a * a)
      BY <1>3, <1>5
    <3> QED BY <3>1 DEF u, v, aa
  <2>2. m * 0 <= m * (m * V - aa)
    BY <1>5, <1>9, <1>10, <2>1
  <2>3. m * V \in Int
    BY <1>3, <1>5
  <2>4. 0 <= m * V - aa
    <3>1. m * V - aa \in Int
      BY <1>5, <2>3
    <3> QED BY <1>5, <2>2, <3>1, Cancelled
  <2>5. (m + 1) * aa = m * aa + aa /\ m * (aa + V) = m * aa + m * V /\ m * aa \in Int
    BY <1>3, <1>5
  <2> DEFINE r == m * V
             s == m * aa
  <2> HIDE DEF r, s
  <2>6. s + aa <= s + r
    BY <1>5, <2>3, <2>4, <2>5 DEF r, s
  <2> QED BY <2>5, <2>6 DEF r, s
<1>12. n > 1 => n * aa <= m * Part(q, S)
  <2>1. n = m + 1
    BY <1>1 DEF m
  <2> QED BY <1>1, <1>3, <1>11, <2>1 DEF m
<1> QED BY <1>1, <1>3, <1>12 DEF m, aa, a

(* With five transactions the bound is two standard deviations, so it      *)
(* takes six.                                                              *)
LEMMA SpikesOK == ASSUME TransactionsOK PROVE SpikeNeedsSix
<1> DEFINE E == Expenses(transactions)
<1>1. IsFiniteSet(E) /\ \A s \in E : s.amount \in Int
  BY Spent
<1>2. SUFFICES ASSUME NEW t \in anomalies
               PROVE  Cardinality({s \in E : s.category = t.category}) >= 6
  BY DEF SpikeNeedsSix
<1> DEFINE same == {s \in E : s.category = t.category}
           n == Cardinality(same)
           total == Total(same)
           above(s) == n * s.amount - total
           q == [s \in same |-> above(s) * above(s)]
           variance == SumOver(q)
           b == [s \in same |-> n * Amounts(E)[s] + (-total) * 1]
           one == [s \in same |-> 1]
<1>3. /\ t \in E /\ n >= 2 /\ variance > 0 /\ above(t) > 0
      /\ above(t) * above(t) * n > 4 * variance
  BY <1>2 DEF anomalies, Spikes
<1>4. t \in same /\ same \in SUBSET E
  BY <1>3
<1> HIDE DEF E
<1>5. /\ IsFiniteSet(same) /\ total \in Int /\ total = Part(Amounts(E), same)
  BY <1>1, <1>4, Totals
<1>6. \A s \in same : s.amount \in Int /\ Amounts(E)[s] = s.amount
  BY <1>1, <1>4 DEF Amounts
<1> HIDE DEF same
<1>7. n \in Nat
  BY <1>5, FS_CardinalityType
<1>8. Part(one, same) = n
  <2> DEFINE k == 1
  <2>1. k \in Int /\ \A s \in same : one[s] = k
    OBVIOUS
  <2>2. Part(one, same) = k * n
    <3> HIDE DEF one, k
    <3> QED BY <1>5, <2>1, PartEqual
  <2> HIDE DEF one
  <2> QED BY <1>7, <2>2
<1> HIDE DEF n, total
<1>9. ASSUME NEW s \in same PROVE b[s] = above(s) /\ b[s] \in Int /\ q[s] = b[s] * b[s]
  <2> DEFINE y == s.amount
  <2>1. y \in Int /\ b[s] = n * y + (-total) * 1 /\ q[s] = above(s) * above(s)
    BY <1>6
  <2> HIDE DEF y, b
  <2>2. n * y + (-total) * 1 = n * y - total /\ n * y - total \in Int
    BY <1>5, <1>7, <2>1
  <2> QED BY <2>1, <2>2 DEF y
<1>10. Part(b, same) = 0
  <2> DEFINE c == -total
  <2>1. /\ \A s \in same : /\ Amounts(E)[s] \in Int /\ one[s] \in Int
                           /\ b[s] = n * Amounts(E)[s] + c * one[s]
        /\ n \in Int /\ c \in Int /\ IsFiniteSet(same)
    BY <1>5, <1>6, <1>7
  <2>2. Part(b, same) = n * Part(Amounts(E), same) + c * Part(one, same)
    <3> HIDE DEF b, one, c
    <3> QED BY ONLY <2>1, PartLinear
  <2>3. n * total + (-total) * n = 0
    BY <1>5, <1>7
  <2> HIDE DEF b, one
  <2> QED BY <1>5, <1>8, <2>2, <2>3
<1>11. SumOver(q) = Part(q, same)
  <2>1. DOMAIN q = same /\ [s \in same |-> q[s]] = q
    OBVIOUS
  <2> HIDE DEF q
  <2> QED BY <2>1 DEF Part
<1> DEFINE a == b[t]
<1>12. a \in Int /\ variance \in Int /\ n * (a * a) <= (n - 1) * variance
  <2> HIDE DEF q, b, a
  <2>1. /\ n > 1 => n * (b[t] * b[t]) <= (n - 1) * Part(q, same)
        /\ Part(q, same) \in Int
    <3>1. /\ t \in same /\ IsFiniteSet(same) /\ Part(b, same) = 0
          /\ Squares(q, b, same)
      BY <1>4, <1>5, <1>9, <1>10 DEF Squares
    <3> QED BY ONLY <3>1, Spread DEF n
  <2>2. n > 1 /\ a \in Int
    BY <1>3, <1>4, <1>7, <1>9 DEF a
  <2> QED BY <1>11, <2>1, <2>2 DEF a
<1>13. a * a * n > 4 * variance /\ variance > 0
  BY <1>3, <1>4, <1>9
<1> HIDE DEF a, variance
<1>14. n >= 6
  <2>1. SUFFICES ASSUME n \in 0..5 PROVE FALSE
    BY <1>7
  <2>2. (n - 1) * variance <= 4 * variance
    BY <1>12, <1>13, <2>1
  <2>3. n * (a * a) = a * a * n /\ a * a * n \in Int
    BY <1>7, <1>12
  <2> QED BY <1>7, <1>12, <1>13, <2>2, <2>3
<1> QED BY <1>14 DEF n, same, E

(* A month's part of the net, and the profile's numbers.                   *)
LEMMA NumbersOfPlan ==
  ASSUME TransactionsOK
  PROVE  /\ CashFlow(transactions).net \in Int
         /\ MonthCount(transactions) \in Nat /\ MonthCount(transactions) >= 1
         /\ \A p \in Profiles : EmergencyFund(p, transactions).gap \in Nat
<1> DEFINE E == Expenses(transactions)
           months == MonthCount(transactions)
<1>1. /\ \A S \in SUBSET transactions : Total(S) \in Int
      /\ E \subseteq transactions
  BY Spent
<1>2. CashFlow(transactions).net \in Int
  <2> DEFINE i == Total({t \in transactions : t.direction = "income"})
             f == Total({t \in E : t.category \in Fixed})
             v == Total({t \in E : t.category \notin Fixed})
  <2>1. CashFlow(transactions).net = i - f - v
    BY DEF CashFlow
  <2>2. i \in Int /\ f \in Int /\ v \in Int
    <3>1. /\ {t \in transactions : t.direction = "income"} \in SUBSET transactions
          /\ {t \in E : t.category \in Fixed} \in SUBSET transactions
          /\ {t \in E : t.category \notin Fixed} \in SUBSET transactions
      BY <1>1
    <3> HIDE DEF E
    <3> QED BY <1>1, <3>1
  <2> HIDE DEF i, f, v
  <2> QED BY <2>1, <2>2
<1>3. months \in Nat /\ months >= 1
  <2>1. CASE transactions = {}
    BY <2>1 DEF MonthCount
  <2>2. CASE transactions # {}
    <3> DEFINE m == [t \in transactions |-> MonthOf[t.day]]
    <3>1. Months(transactions) = {m[t] : t \in transactions}
      BY DEF Months
    <3> HIDE DEF m
    <3>2. IsFiniteSet(Months(transactions)) /\ Months(transactions) # {}
      BY <2>2, <3>1, ImageFinite DEF TransactionsOK
    <3>3. Cardinality(Months(transactions)) \in Nat /\ Cardinality(Months(transactions)) # 0
      BY <3>2, FS_CardinalityType, FS_EmptySet
    <3> QED BY <2>2, <3>3 DEF MonthCount
  <2> QED BY <2>1, <2>2
<1>4. ASSUME NEW p \in Profiles PROVE EmergencyFund(p, transactions).gap \in Nat
  <2> DEFINE essential == Total({t \in E : t.category \in Essential})
             asked == IF p.targetMonths = 0 THEN 6 ELSE p.targetMonths
             g == 100 * essential * asked - 100 * months * p.fund
  <2>1. EmergencyFund(p, transactions).gap = Positive(g)
    BY DEF EmergencyFund
  <2>2. essential \in Int
    <3>1. {t \in E : t.category \in Essential} \in SUBSET transactions
      BY <1>1
    <3> HIDE DEF E
    <3> QED BY <1>1, <3>1
  <2>3. asked \in Int /\ p.fund \in Int
    BY ProfilesAssumption
  <2>4. g \in Int
    <3> DEFINE f == p.fund
    <3>1. f \in Int
      BY <2>3
    <3> HIDE DEF essential, asked, months, f
    <3>2. 100 * essential * asked - 100 * months * f \in Int
      BY <1>3, <2>2, <2>3, <3>1
    <3> QED BY <3>2 DEF f
  <2> HIDE DEF g
  <2> QED BY <2>1, <2>4 DEF Positive
<1> QED BY <1>2, <1>3, <1>4

(* Division that is rounded up: the last month is needed.                  *)
LEMMA FundOK == ASSUME TransactionsOK PROVE FundIsReached
<1> SUFFICES ASSUME NEW p \in Profiles, EmergencyFund(p, transactions).monthly > 0
             PROVE  LET e == EmergencyFund(p, transactions)
                    IN  e.monthly * e.months >= e.gap /\ e.monthly * (e.months - 1) < e.gap
  BY DEF FundIsReached
<1> DEFINE e == EmergencyFund(p, transactions)
           g == e.gap
           m == e.monthly
           c == (g + m - 1) \div m
           net == CashFlow(transactions).net
<1>1. m = Least(g, Positive(35 * net)) /\ e.months = IF m > 0 THEN c ELSE 0
  BY DEF EmergencyFund
<1>2. g \in Nat /\ net \in Int
  BY NumbersOfPlan
<1> HIDE DEF g, net, e
<1>3. m \in Int /\ m > 0
  <2>1. m > 0
    BY DEF e
  <2> HIDE DEF m
  <2> QED BY <1>1, <1>2, <2>1 DEF Least, Positive
<1> HIDE DEF m
<1>4. c \in Int /\ m * c <= g + m - 1 /\ g + m - 1 < m * c + m
  <2> DEFINE k == g + m - 1
  <2>1. k \in Int
    BY <1>2, <1>3
  <2> HIDE DEF k
  <2>2. /\ k \div m \in Int /\ m * (k \div m) <= k /\ k < m * (k \div m) + m
    BY <1>3, <2>1
  <2> QED BY <2>2 DEF k
<1> HIDE DEF c
<1>5. m * c \in Int /\ m * (c - 1) = m * c - m
  BY <1>3, <1>4
<1>6. m * c >= g /\ m * (c - 1) < g
  <2> DEFINE r == m * c
  <2> HIDE DEF r
  <2>1. r >= g /\ r - m < g
    BY <1>2, <1>3, <1>4, <1>5 DEF r
  <2> QED BY <1>5, <2>1 DEF r
<1>7. e.months = c
  BY <1>1, <1>3
<1> QED BY <1>6, <1>7 DEF m, g, e

(* Without debt 35 and 35 and 18 parts of 100 leave something for the      *)
(* buffer.                                                                 *)
LEMMA PlanOK == ASSUME TransactionsOK PROVE PlanFitsNet
<1> SUFFICES ASSUME NEW p \in Profiles, ~ p.debt
             PROVE  LET plan == AdvisorPlan(p)
                    IN  SumOver(plan.allocation) = 100 * Positive(plan.flow.net)
  BY DEF PlanFitsNet
<1> DEFINE net == Positive(CashFlow(transactions).net)
           gap == EmergencyFund(p, transactions).gap
           e == Least(35 * net, gap)
           b == Positive(100 * net - e - 0 - 35 * net - 18 * net)
           f == [emergency |-> e, debt |-> 0, investing |-> 35 * net, short |-> 18 * net, buffer |-> b]
           S == {"emergency", "debt", "investing", "short", "buffer"}
<1>1. MonthlyAllocation(p, transactions) = f
  BY DEF MonthlyAllocation
<1>2. net \in Nat /\ gap \in Nat
  <2>1. CashFlow(transactions).net \in Int /\ gap \in Nat
    BY NumbersOfPlan
  <2> QED BY <2>1 DEF Positive
<1> HIDE DEF net, gap
<1>3. e \in Int /\ e <= 35 * net
  BY <1>2 DEF Least
<1> HIDE DEF e
<1>4. b \in Int /\ e + 35 * net + 18 * net + b = 100 * net
  BY <1>2, <1>3 DEF Positive
<1> HIDE DEF b
<1>5. /\ DOMAIN f = S /\ f = [k \in S |-> f[k]]
      /\ f["emergency"] = e /\ f["debt"] = 0 /\ f["investing"] = 35 * net
      /\ f["short"] = 18 * net /\ f["buffer"] = b
  OBVIOUS
<1> HIDE DEF f
<1>6. \A k \in S : f[k] \in Int
  BY <1>2, <1>3, <1>4, <1>5
<1>7. Part(f, S) = e + (0 + (35 * net + (18 * net + (b + 0))))
  <2> DEFINE S1 == S \ {"emergency"}
             S2 == S1 \ {"debt"}
             S3 == S2 \ {"investing"}
             S4 == S3 \ {"short"}
             S5 == S4 \ {"buffer"}
  <2>1. IsFiniteSet(S) /\ IsFiniteSet(S1) /\ IsFiniteSet(S2) /\ IsFiniteSet(S3) /\ IsFiniteSet(S4)
    <3>1. IsFiniteSet({}) /\ \A T, x : IsFiniteSet(T) => IsFiniteSet(T \cup {x})
      BY FS_EmptySet, FS_AddElement
    <3>2. S = (((({} \cup {"emergency"}) \cup {"debt"}) \cup {"investing"}) \cup {"short"}) \cup {"buffer"}
      OBVIOUS
    <3>3. IsFiniteSet(S)
      <4>1. IsFiniteSet((((({} \cup {"emergency"}) \cup {"debt"}) \cup {"investing"}) \cup {"short"}) \cup {"buffer"})
        BY ONLY <3>1, Zenon
      <4> QED BY <3>2, <4>1
    <3> QED BY <3>3, FS_Subset
  <2>2. /\ "debt" \in S1 /\ "investing" \in S2 /\ "short" \in S3 /\ "buffer" \in S4 /\ S5 = {}
        /\ S1 \subseteq S /\ S2 \subseteq S /\ S3 \subseteq S /\ S4 \subseteq S
    OBVIOUS
  <2>3. Part(f, S) = f["emergency"] + Part(f, S1)
    BY <1>6, <2>1, PartStep
  <2>4. Part(f, S1) = f["debt"] + Part(f, S2)
    <3> HIDE DEF S1
    <3> QED BY <1>6, <2>1, <2>2, PartStep
  <2>5. Part(f, S2) = f["investing"] + Part(f, S3)
    <3> HIDE DEF S2
    <3> QED BY <1>6, <2>1, <2>2, PartStep
  <2>6. Part(f, S3) = f["short"] + Part(f, S4)
    <3> HIDE DEF S3
    <3> QED BY <1>6, <2>1, <2>2, PartStep
  <2>7. Part(f, S4) = f["buffer"] + Part(f, S5)
    <3> HIDE DEF S4
    <3> QED BY <1>6, <2>1, <2>2, PartStep
  <2>8. Part(f, S5) = 0
    BY <2>2, PartEmpty
  <2> QED BY <1>5, <2>3, <2>4, <2>5, <2>6, <2>7, <2>8
<1>8. SumOver(f) = Part(f, S)
  BY <1>5 DEF Part
<1>9. SumOver(f) = 100 * net
  BY <1>2, <1>3, <1>4, <1>7, <1>8
<1> QED BY <1>1, <1>9 DEF AdvisorPlan, net

-----------------------------------------------------------------------------
(***************************************************************************)
(* The projection.                                                         *)
(***************************************************************************)
(* One month: the interest is not negative, and a higher balance or a      *)
(* higher rate does not lead to less.                                      *)
LEMMA OneMonth ==
  ASSUME NEW x \in Int, NEW y \in Int, NEW m \in Int, NEW r \in Int, NEW s \in Int,
         0 <= x, x <= y, 0 <= m, 0 <= r, r <= s
  PROVE  LET low == ((x + m) * (1200 + r)) \div 1200
             high == ((y + m) * (1200 + s)) \div 1200
         IN  low \in Int /\ high \in Int /\ x + m <= low /\ low <= high
<1> DEFINE a == x + m
           b == y + m
           A == a * (1200 + r)
           B == b * (1200 + s)
           ar == a * r
           bs == b * s
<1>1. a \in Nat /\ b \in Nat /\ b - a \in Nat /\ s - r \in Nat /\ r \in Nat /\ s \in Nat
  OBVIOUS
<1> HIDE DEF a, b
<1>2. A = 1200 * a + ar /\ B = 1200 * b + bs /\ ar \in Nat /\ bs \in Int
  <2>1. A = 1200 * a + ar /\ B = 1200 * b + bs
    BY <1>1
  <2>2. a * r \in Nat /\ b * s \in Int
    BY <1>1
  <2> QED BY <2>1, <2>2
<1>3. ar <= bs
  <2>1. bs = ar + (b - a) * s + a * (s - r)
    BY <1>1
  <2>2. (b - a) * s \in Nat /\ a * (s - r) \in Nat
    <3> DEFINE u == b - a
               v == s - r
    <3>1. u \in Nat /\ v \in Nat
      BY <1>1
    <3> HIDE DEF u, v
    <3>2. u * s \in Nat /\ a * v \in Nat
      BY <1>1, <3>1
    <3> QED BY <3>2 DEF u, v
  <2> DEFINE f == (b - a) * s
             g == a * (s - r)
  <2> HIDE DEF f, g, ar, bs
  <2> QED BY <1>2, <2>1, <2>2 DEF f, g
<1> HIDE DEF ar, bs, A, B
<1>4. A \in Int /\ B \in Int /\ 1200 * a <= A /\ A <= B
  BY <1>1, <1>2, <1>3
<1>5. a <= A \div 1200 /\ A \div 1200 <= B \div 1200 /\ A \div 1200 \in Int /\ B \div 1200 \in Int
  BY <1>1, <1>4
<1> QED BY <1>5 DEF A, B, a, b

(* The balances b of n months.                                             *)
Grown(b, initial, monthly, rate, n) ==
  /\ b[0] = initial
  /\ \A i \in 0..n : b[i] \in Int
  /\ \A i \in 1..n : b[i] = ((b[i - 1] + monthly) * (1200 + rate)) \div 1200

(* What is projected is the last of them.                                  *)
LastOf(initial, monthly, rate, n) ==
  \E b : Grown(b, initial, monthly, rate, n) /\ Balance(initial, monthly, rate, n) = b[n]

(* There are such balances, and Balance is the last of them.               *)
LEMMA Balances ==
  ASSUME NEW initial \in Int, NEW monthly \in Int, NEW rate \in Int, NEW n \in Nat
  PROVE  LastOf(initial, monthly, rate, n)
<1> DEFINE next(x) == ((x + monthly) * (1200 + rate)) \div 1200
           step == [p \in (1..n) \X Int |-> next(p[2])]
           Kept(g) == g = [m \in 0..n |-> IF m = 0 THEN initial ELSE next(g[m - 1])]
           kept == CHOOSE g : Kept(g)
<1>1. ASSUME NEW x \in Int PROVE next(x) \in Int
  <2> DEFINE a == x + monthly
             c == 1200 + rate
  <2>1. a \in Int /\ c \in Int
    OBVIOUS
  <2> HIDE DEF a, c
  <2>2. a * c \in Int
    BY <2>1
  <2> DEFINE d == a * c
  <2> HIDE DEF d
  <2>3. d \div 1200 \in Int
    BY <2>2 DEF d
  <2> QED BY <2>3 DEF a, c, d
<1>2. \A i \in 1..n : \A x \in Int : step[<<i, x>>] = next(x) /\ step[<<i, x>>] \in Int
  <2> HIDE DEF next
  <2> QED BY <1>1
<1>3. PICK g : Iterates(g, n, Int, initial, step)
  <2> DEFINE Z == Int
  <2>1. n \in Nat /\ initial \in Z /\ \A i \in 1..n : \A x \in Z : step[<<i, x>>] \in Z
    BY <1>2
  <2> HIDE DEF step, Z
  <2>2. \E g : Iterates(g, n, Z, initial, step)
    BY ONLY <2>1, Recursion
  <2> QED BY <2>2 DEF Z
<1> HIDE DEF next
<1>4. ASSUME NEW i \in 1..n PROVE g[i - 1] \in Int /\ g[i] = next(g[i - 1])
  <2>1. g[i - 1] \in Int /\ g[i] = step[<<i, g[i - 1]>>]
    <3> HIDE DEF step
    <3>1. i - 1 \in 0..n
      OBVIOUS
    <3> QED BY <1>3, <3>1 DEF Iterates
  <2> HIDE DEF step
  <2> QED BY <1>2, <2>1
<1>5. Kept(g)
  <2>1. \A i \in 0..n : g[i] = IF i = 0 THEN initial ELSE next(g[i - 1])
    BY <1>3, <1>4 DEF Iterates
  <2> HIDE DEF step
  <2> QED BY <1>3, <2>1 DEF Iterates
<1>6. Kept(kept)
  <2> HIDE DEF Kept
  <2> QED BY <1>5
<1>7. kept[0] = initial /\ \A i \in 1..n : kept[i] = next(kept[i - 1])
  <2> HIDE DEF kept
  <2> QED BY <1>6
<1>8. \A i \in 0..n : kept[i] \in Int
  <2> DEFINE B == {i \in 0..n : kept[i] \notin Int}
  <2> HIDE DEF kept
  <2>1. 0 \notin B
    BY <1>7
  <2>2. ASSUME NEW i \in 1..n, i - 1 \notin B PROVE i \notin B
    <3>1. kept[i - 1] \in Int
      BY <2>2
    <3> QED BY <3>1, <1>1, <1>7
  <2>3. B \subseteq 0..n
    OBVIOUS
  <2>4. B = {}
    <3> HIDE DEF B
    <3> QED BY <2>1, <2>2, <2>3, UpTo
  <2> QED BY <2>4
<1>9. Balance(initial, monthly, rate, n) = kept[n]
  BY DEF Balance, next
<1> HIDE DEF kept
<1>10. Grown(kept, initial, monthly, rate, n)
  BY <1>7, <1>8 DEF Grown, next
<1> QED BY <1>9, <1>10 DEF LastOf

(* What was paid in is there, and a higher rate does not lead to less.     *)
LEMMA BalanceOrdered ==
  ASSUME NEW initial \in Nat, NEW monthly \in Nat, NEW r \in Nat, NEW s \in Nat, r <= s,
         NEW n \in Nat
  PROVE  /\ initial + monthly * n <= Balance(initial, monthly, r, n)
         /\ Balance(initial, monthly, r, n) <= Balance(initial, monthly, s, n)
<1>0. initial \in Int /\ monthly \in Int /\ r \in Int /\ s \in Int /\ n \in Nat
  OBVIOUS
<1>1. LastOf(initial, monthly, r, n) /\ LastOf(initial, monthly, s, n)
  BY ONLY <1>0, Balances
<1>2. PICK b : Grown(b, initial, monthly, r, n) /\ Balance(initial, monthly, r, n) = b[n]
  BY <1>1 DEF LastOf
<1>3. PICK c : Grown(c, initial, monthly, s, n) /\ Balance(initial, monthly, s, n) = c[n]
  BY <1>1 DEF LastOf
<1> DEFINE Ordered(i) == initial + monthly * i <= b[i] /\ b[i] <= c[i]
           B == {i \in 0..n : ~ Ordered(i)}
<1>4. 0 \notin B
  <2>1. b[0] = initial /\ c[0] = initial
    BY <1>2, <1>3 DEF Grown
  <2>2. monthly * 0 = 0
    OBVIOUS
  <2> QED BY <2>1, <2>2
<1>5. ASSUME NEW i \in 1..n, i - 1 \notin B PROVE i \notin B
  <2> DEFINE x == b[i - 1]
             y == c[i - 1]
             paid == monthly * (i - 1)
  <2>1. i - 1 \in 0..n /\ i \in 0..n
    OBVIOUS
  <2>2. /\ x \in Int /\ y \in Int
        /\ b[i] = ((x + monthly) * (1200 + r)) \div 1200
        /\ c[i] = ((y + monthly) * (1200 + s)) \div 1200
    BY <1>2, <1>3, <2>1 DEF Grown
  <2>3. initial + paid <= x /\ x <= y
    BY <1>5, <2>1
  <2>4. paid \in Nat /\ monthly * i = paid + monthly
    <3>1. i - 1 \in Nat /\ i \in Int
      OBVIOUS
    <3>2. monthly * (i - 1) \in Nat
      <4> DEFINE j == i - 1
      <4> HIDE DEF j
      <4>1. j \in Nat
        BY <3>1 DEF j
      <4>2. monthly * j \in Nat
        BY <4>1
      <4> QED BY <4>2 DEF j
    <3>3. monthly * i = monthly * (i - 1) + monthly
      BY <3>1
    <3> QED BY <3>2, <3>3
  <2> HIDE DEF x, y, paid
  <2>5. 0 <= x
    BY <2>2, <2>3, <2>4
  <2>6. x + monthly <= b[i] /\ b[i] <= c[i] /\ b[i] \in Int
    BY <2>2, <2>3, <2>5, OneMonth
  <2>7. initial + monthly * i <= b[i]
    BY <2>2, <2>3, <2>4, <2>6
  <2> QED BY <2>6, <2>7
<1>6. B = {}
  <2>1. B \subseteq 0..n
    OBVIOUS
  <2> HIDE DEF B
  <2> QED BY <1>4, <1>5, <2>1, UpTo
<1>7. Ordered(n)
  <2> HIDE DEF Ordered
  <2> QED BY <1>6
<1> QED BY <1>2, <1>7, <1>3

(* The worth of what is held is a number.                                  *)
LEMMA HeldValue == ASSUME StoreInv PROVE Value(Held) \in Int
<1> DEFINE f == [h \in Held |-> h.value]
<1>1. IsFiniteSet(Held) /\ \A h \in Held : f[h] \in Int
  BY HeldRows
<1>2. Value(Held) = Part(f, Held)
  <2>1. [h \in Held |-> f[h]] = f
    OBVIOUS
  <2> QED BY <2>1 DEF Value, Part
<1>3. Part(f, Held) \in Int
  <2> HIDE DEF f
  <2> QED BY <1>1, PartInt
<1> QED BY <1>2, <1>3

(* The monthly part is of a month, and the rates are 2 to 10 percent.      *)
LEMMA ProjectionOK ==
  ASSUME StoreInv, TransactionsOK PROVE ProjectionOrdered
<1>1. SUFFICES ASSUME Value(Held) >= 0, NEW p \in Profiles
               PROVE  LET monthly == Positive(CashFlow(transactions).net) \div (2 * MonthCount(transactions))
                          g == Projection(monthly, Value(Held), Years, p.risk)
                      IN  g.contributions <= g.lower /\ g.lower <= g.expected /\ g.expected <= g.upper
  BY DEF ProjectionOrdered
<1> DEFINE v == Value(Held)
           net == CashFlow(transactions).net
           months == MonthCount(transactions)
           monthly == Positive(net) \div (2 * months)
           r == ExpectedRate(p.risk)
           n == 12 * (IF Years <= 0 THEN 30 ELSE Years)
           g == Projection(monthly, v, Years, p.risk)
<1>2. v \in Nat
  BY <1>1, HeldValue
<1>3. net \in Int /\ months \in Nat /\ months >= 1
  BY NumbersOfPlan
<1> HIDE DEF v, net, months
<1>4. monthly \in Nat
  <2> DEFINE d == 2 * months
             a == Positive(net)
  <2>1. d \in Nat /\ d > 0 /\ a \in Nat
    BY <1>3 DEF Positive
  <2> HIDE DEF d, a
  <2>2. a \div d \in Nat
    BY <2>1
  <2> QED BY <2>2 DEF a, d
<1>5. r \in {4, 6, 8}
  BY DEF ExpectedRate
<1>6. n \in Nat
  BY ReadAssumption
<1>7. /\ g.lower = Balance(v, monthly, r - 2, n) /\ g.expected = Balance(v, monthly, r, n)
      /\ g.upper = Balance(v, monthly, r + 2, n) /\ g.contributions = v + monthly * n
  BY DEF Projection
<1> HIDE DEF monthly, r, n, g
<1>8. r - 2 \in Nat /\ r \in Nat /\ r + 2 \in Nat /\ r - 2 <= r /\ r <= r + 2
  BY <1>5
<1>9. /\ v + monthly * n <= Balance(v, monthly, r - 2, n)
      /\ Balance(v, monthly, r - 2, n) <= Balance(v, monthly, r, n)
  BY <1>2, <1>4, <1>6, <1>8, BalanceOrdered
<1>10. Balance(v, monthly, r, n) <= Balance(v, monthly, r + 2, n)
  BY <1>2, <1>4, <1>6, <1>8, BalanceOrdered
<1> QED BY <1>7, <1>9, <1>10 DEF v, net, months, monthly, g

(* In every state the advisor's statements about the same transactions     *)
(* agree: spending, spikes, the fund, the plan and the projection.         *)
THEOREM AdviceAgrees == FinanceSpec => []AdvisorAgrees
<1>1. FinanceInit => StoreInv /\ TransactionsOK
  BY StoreInvInit, BooksInit
<1>2. StoreInv /\ TransactionsOK /\ [FinanceNext]_financeVars => StoreInv' /\ TransactionsOK'
  BY StoreInvStep, BooksKept
<1>3. StoreInv /\ TransactionsOK => AdvisorAgrees
  BY SpendingOK, SpikesOK, FundOK, PlanOK, ProjectionOK DEF AdvisorAgrees
<1> QED BY <1>1, <1>2, <1>3, PTL DEF FinanceSpec
=============================================================================
