-------------------------- MODULE IngestionProofs --------------------------
(***************************************************************************)
(* Proofs about Ingestion and Insights: for any requests, days, loads and  *)
(* answers, over either storage and for either type of organization.       *)
(***************************************************************************)
EXTENDS Ingestion, SumsProofs

(***************************************************************************)
(* The sample data.                                                        *)
(***************************************************************************)
Data == {"student", "restaurant", "seed"}
Samples == {"student", "restaurant"}   \* what syncs bring
Lines(d) == DOMAIN Charges[d]

LEMMA ChargesOK ==
  ASSUME NEW d \in Data
  PROVE  /\ Lines(d) = IF d = "seed" THEN 1..3 ELSE 1..5
         /\ \A i \in Lines(d) : Charges[d][i][1] \in Nat /\ Charges[d][i][2] \in Nat
         /\ Refunded[d] \in Lines(d) /\ Arrived[d] \in Nat
         /\ DOMAIN Charges = Data
<1>1. CASE d = "student"
  BY <1>1 DEF Data, Lines, Charges, Refunded, Arrived
<1>2. CASE d = "restaurant"
  BY <1>2 DEF Data, Lines, Charges, Refunded, Arrived
<1>3. CASE d = "seed"
  BY <1>3 DEF Data, Lines, Charges, Refunded, Arrived
<1> QED BY <1>1, <1>2, <1>3 DEF Data

LEMMA UpToFinite == \A n \in Nat : IsFiniteSet(1..n)
BY FS_Interval

LEMMA LinesFinite ==
  ASSUME NEW d \in Data PROVE IsFiniteSet(Lines(d))
BY UpToFinite, ChargesOK

(* The total of rows is a sum.                                             *)
LEMMA TotalIsPart ==
  ASSUME NEW rows
  PROVE  Total(rows) = Part([r \in rows |-> r.amount], rows)
<1> DEFINE a == [r \in rows |-> r.amount]
<1>1. a = [r \in rows |-> a[r]]
  OBVIOUS
<1>2. Total(rows) = SumOver(a)
  BY DEF Total
<1> HIDE DEF a
<1>3. Total(rows) = SumOver([r \in rows |-> a[r]])
  BY <1>1, <1>2, Zenon
<1>4. Total(rows) = Part(a, rows)
  BY <1>3 DEF Part
<1> QED BY <1>4 DEF a

LEMMA TotalEmpty == Total({}) = 0
BY TotalIsPart, PartEmpty

LEMMA TotalSingle ==
  ASSUME NEW r, r.amount \in Int
  PROVE  Total({r}) = r.amount
<1> DEFINE a == [x \in {r} |-> x.amount]
<1>1. IsFiniteSet({r}) /\ \A x \in {r} : a[x] \in Int
  BY FS_Singleton
<1>2. Part(a, {r}) = a[r] + Part(a, {r} \ {r})
  <2> HIDE DEF a
  <2> QED BY <1>1, PartStep
<1>3. {r} \ {r} = {} /\ a[r] = r.amount
  OBVIOUS
<1>4. Part(a, {}) = 0
  BY PartEmpty
<1>5. Total({r}) = Part(a, {r})
  BY TotalIsPart
<1>6. Part(a, {r}) = a[r] + 0
  <2> HIDE DEF a
  <2> QED BY <1>2, <1>3, <1>4, Zenon
<1>7. a[r] = r.amount
  OBVIOUS
<1> HIDE DEF a
<1> QED BY <1>5, <1>6, <1>7

Sales(d) == Part([i \in Lines(d) |-> Charges[d][i][1]], Lines(d))
Costs(d) == Part([i \in Lines(d) |-> Charges[d][i][2]], Lines(d))
Back(d) == Charges[d][Refunded[d]][1]

(* Rows that stand one for one for lines add up to what the lines do.      *)
LEMMA RowsTotal ==
  ASSUME NEW d \in Data, NEW f, \A i \in Lines(d) : f[i] \in Int,
         NEW m, \A i, j \in Lines(d) : m[i] = m[j] => i = j,
         \A i \in Lines(d) : m[i].amount = f[i]
  PROVE  Total({m[i] : i \in Lines(d)}) = Part(f, Lines(d))
<1> DEFINE rows == {m[i] : i \in Lines(d)}
           a == [r \in rows |-> r.amount]
<1>1. \A i \in Lines(d) : a[m[i]] = f[i]
  OBVIOUS
<1>2. Total(rows) = Part(a, rows)
  BY TotalIsPart
<1>3. Part(a, {m[i] : i \in Lines(d)}) = Part(f, Lines(d))
  <2> HIDE DEF a
  <2> QED BY <1>1, LinesFinite, PartRenamed
<1> QED BY <1>2, <1>3

LEMMA PaidTotal ==
  ASSUME NEW d \in Data, NEW id
  PROVE  Total(Paid(d, id)) = Sales(d) /\ IsFiniteSet(Paid(d, id))
<1> DEFINE f == [i \in Lines(d) |-> Charges[d][i][1]]
           m == [i \in Lines(d) |-> Payment(d, i, id)]
<1>1. \A i \in Lines(d) : f[i] \in Int
  BY ChargesOK
<1>2. \A i, j \in Lines(d) : m[i] = m[j] => i = j
  BY DEF Payment
<1>3. \A i \in Lines(d) : m[i].amount = f[i]
  BY DEF Payment
<1>4. Paid(d, id) = {m[i] : i \in Lines(d)}
  BY DEF Paid, Lines
<1>5. Total({m[i] : i \in Lines(d)}) = Part(f, Lines(d))
  <2> HIDE DEF f, m
  <2> QED BY <1>1, <1>2, <1>3, RowsTotal
<1>6. IsFiniteSet({m[i] : i \in Lines(d)})
  <2> HIDE DEF f, m
  <2> QED BY LinesFinite, ImageFinite
<1> QED BY <1>4, <1>5, <1>6 DEF Sales

LEMMA ChargedTotal ==
  ASSUME NEW d \in Data, NEW id, NEW of
  PROVE  Total(Charged(d, id, of)) = Costs(d) /\ IsFiniteSet(Charged(d, id, of))
<1> DEFINE f == [i \in Lines(d) |-> Charges[d][i][2]]
           m == [i \in Lines(d) |-> Fee(d, i, id, of)]
<1>1. \A i \in Lines(d) : f[i] \in Int
  BY ChargesOK
<1>2. \A i, j \in Lines(d) : m[i] = m[j] => i = j
  BY DEF Fee
<1>3. \A i \in Lines(d) : m[i].amount = f[i]
  BY DEF Fee
<1>4. Charged(d, id, of) = {m[i] : i \in Lines(d)}
  BY DEF Charged, Lines
<1>5. Total({m[i] : i \in Lines(d)}) = Part(f, Lines(d))
  <2> HIDE DEF f, m
  <2> QED BY <1>1, <1>2, <1>3, RowsTotal
<1>6. IsFiniteSet({m[i] : i \in Lines(d)})
  <2> HIDE DEF f, m
  <2> QED BY LinesFinite, ImageFinite
<1> QED BY <1>4, <1>5, <1>6 DEF Costs

LEMMA RefundTotal ==
  ASSUME NEW d \in Data, NEW id, NEW of
  PROVE  Total({Refund(d, id, of)}) = Back(d) /\ Back(d) \in Nat
<1>1. Refund(d, id, of).amount = Back(d) /\ Back(d) \in Nat
  BY ChargesOK DEF Refund, Back
<1> QED BY <1>1, TotalSingle

(* The sum of the first numbers, written out.                              *)
LEMMA SumOfThree ==
  ASSUME NEW f, \A i \in 1..3 : f[i] \in Int
  PROVE  Part(f, 1..3) = f[1] + f[2] + f[3]
<1>1. IsFiniteSet(1..3) /\ IsFiniteSet(1..2) /\ IsFiniteSet(1..1)
  BY UpToFinite
<1>2. (1..3) \ {3} = 1..2 /\ (1..2) \ {2} = 1..1 /\ (1..1) \ {1} = {}
  OBVIOUS
<1>3. Part(f, 1..3) = f[3] + Part(f, 1..2)
  BY <1>1, <1>2, PartStep
<1>4. Part(f, 1..2) = f[2] + Part(f, 1..1)
  BY <1>1, <1>2, PartStep
<1>5. Part(f, 1..1) = f[1] + Part(f, {})
  BY <1>1, <1>2, PartStep
<1>6. f[1] \in Int /\ f[2] \in Int /\ f[3] \in Int
  OBVIOUS
<1> QED BY <1>3, <1>4, <1>5, <1>6, PartEmpty

LEMMA SumOfFive ==
  ASSUME NEW f, \A i \in 1..5 : f[i] \in Int
  PROVE  Part(f, 1..5) = f[1] + f[2] + f[3] + f[4] + f[5]
<1>1. IsFiniteSet(1..5) /\ IsFiniteSet(1..4)
  BY UpToFinite
<1>2. (1..5) \ {5} = 1..4 /\ (1..4) \ {4} = 1..3
  OBVIOUS
<1>3. Part(f, 1..5) = f[5] + Part(f, 1..4)
  BY <1>1, <1>2, PartStep
<1>4. Part(f, 1..4) = f[4] + Part(f, 1..3)
  BY <1>1, <1>2, PartStep
<1>5. Part(f, 1..3) = f[1] + f[2] + f[3]
  BY SumOfThree
<1>6. f[1] \in Int /\ f[2] \in Int /\ f[3] \in Int /\ f[4] \in Int /\ f[5] \in Int
  OBVIOUS
<1> QED BY <1>3, <1>4, <1>5, <1>6

(* What the sample data come to.                                           *)
LEMMA Amounts ==
  /\ Sales("student") = 175100 /\ Costs("student") = 5228 /\ Back("student") = 3500
  /\ Sales("restaurant") = 1624360 /\ Costs("restaurant") = 66011 /\ Back("restaurant") = 12675
  /\ Sales("seed") = 165500 /\ Costs("seed") = 4890 /\ Back("seed") = 3500
<1> DEFINE f(d) == [i \in Lines(d) |-> Charges[d][i][1]]
           g(d) == [i \in Lines(d) |-> Charges[d][i][2]]
<1>1. \A d \in Data : \A i \in Lines(d) : f(d)[i] \in Int /\ g(d)[i] \in Int
  BY ChargesOK
<1>2. Sales("student") = 175100 /\ Costs("student") = 5228 /\ Back("student") = 3500
  <2> DEFINE k == f("student")
             l == g("student")
  <2>1. Lines("student") = 1..5
    BY ChargesOK DEF Data
  <2>2. /\ k[1] = 4800 /\ k[2] = 4800 /\ k[3] = 3500 /\ k[4] = 12000 /\ k[5] = 150000
        /\ l[1] = 169 /\ l[2] = 169 /\ l[3] = 132 /\ l[4] = 378 /\ l[5] = 4380
    BY <2>1 DEF Charges
  <2>3. Part(k, 1..5) = k[1] + k[2] + k[3] + k[4] + k[5] /\ Part(l, 1..5) = l[1] + l[2] + l[3] + l[4] + l[5]
    <3>1. \A i \in 1..5 : k[i] \in Int /\ l[i] \in Int
      BY <1>1, <2>1 DEF Data
    <3> HIDE DEF k, l
    <3> QED BY <3>1, SumOfFive
  <2>4. Sales("student") = Part(k, 1..5) /\ Costs("student") = Part(l, 1..5)
    BY <2>1 DEF Sales, Costs
  <2>5. Back("student") = 3500
    BY DEF Back, Charges, Refunded
  <2> HIDE DEF k, l
  <2> QED BY <2>2, <2>3, <2>4, <2>5
<1>3. Sales("restaurant") = 1624360 /\ Costs("restaurant") = 66011 /\ Back("restaurant") = 12675
  <2> DEFINE k == f("restaurant")
             l == g("restaurant")
  <2>1. Lines("restaurant") = 1..5
    BY ChargesOK DEF Data
  <2>2. /\ k[1] = 842035 /\ k[2] = 389020 /\ k[3] = 214080 /\ k[4] = 166550 /\ k[5] = 12675
        /\ l[1] = 24419 /\ l[2] = 11282 /\ l[3] = 17270 /\ l[4] = 12675 /\ l[5] = 365
    BY <2>1 DEF Charges
  <2>3. Part(k, 1..5) = k[1] + k[2] + k[3] + k[4] + k[5] /\ Part(l, 1..5) = l[1] + l[2] + l[3] + l[4] + l[5]
    <3>1. \A i \in 1..5 : k[i] \in Int /\ l[i] \in Int
      BY <1>1, <2>1 DEF Data
    <3> HIDE DEF k, l
    <3> QED BY <3>1, SumOfFive
  <2>4. Sales("restaurant") = Part(k, 1..5) /\ Costs("restaurant") = Part(l, 1..5)
    BY <2>1 DEF Sales, Costs
  <2>5. Back("restaurant") = 12675
    BY DEF Back, Charges, Refunded
  <2> HIDE DEF k, l
  <2> QED BY <2>2, <2>3, <2>4, <2>5
<1>4. Sales("seed") = 165500 /\ Costs("seed") = 4890 /\ Back("seed") = 3500
  <2> DEFINE k == f("seed")
             l == g("seed")
  <2>1. Lines("seed") = 1..3
    BY ChargesOK DEF Data
  <2>2. k[1] = 12000 /\ k[2] = 150000 /\ k[3] = 3500 /\ l[1] = 378 /\ l[2] = 4380 /\ l[3] = 132
    BY <2>1 DEF Charges
  <2>3. Part(k, 1..3) = k[1] + k[2] + k[3] /\ Part(l, 1..3) = l[1] + l[2] + l[3]
    <3>1. \A i \in 1..3 : k[i] \in Int /\ l[i] \in Int
      BY <1>1, <2>1 DEF Data
    <3> HIDE DEF k, l
    <3> QED BY <3>1, SumOfThree
  <2>4. Sales("seed") = Part(k, 1..3) /\ Costs("seed") = Part(l, 1..3)
    BY <2>1 DEF Sales, Costs
  <2>5. Back("seed") = 3500
    BY DEF Back, Charges, Refunded
  <2> HIDE DEF k, l
  <2> QED BY <2>2, <2>3, <2>4, <2>5
<1> QED BY <1>2, <1>3, <1>4

LEMMA NetIs ==
  /\ \A d \in Data : Net[d] = Sales(d) - Costs(d) - Back(d)
  /\ Net["student"] = 166372 /\ Net["restaurant"] = 1545674 /\ Net["seed"] = 157110
<1>1. ASSUME NEW d \in Data PROVE Net[d] = Sales(d) - Costs(d) - Back(d)
  <2>1. d \in DOMAIN Charges
    BY ChargesOK
  <2>2. Refund(d, 1, 1).amount = Back(d)
    BY DEF Refund, Back
  <2> QED BY <2>1, <2>2, PaidTotal, ChargedTotal DEF Net
<1> QED BY <1>1, Amounts DEF Data

-----------------------------------------------------------------------------
(* The bank transactions of the sample data.                               *)
BankKeys ==
  [student |-> {"student_deposit", "venue", "unmatched"},
   restaurant |-> {"restaurant_deposit", "delivery", "branch", "supplier", "payroll"},
   seed |-> {"seed_deposit", "seed_unmatched", "seed_venue"}]

Three(a, b, c) == {a, b, c}
Five(a, b, c, e, f) == {a, b, c, e, f}

LEMMA ThreeFinite == \A a, b, c : IsFiniteSet(Three(a, b, c))
<1> TAKE a, b, c
<1>1. IsFiniteSet({a}) /\ IsFiniteSet({b}) /\ IsFiniteSet({c})
  BY FS_Singleton
<1>2. IsFiniteSet({a} \cup {b})
  BY <1>1, FS_Union
<1>3. IsFiniteSet(({a} \cup {b}) \cup {c})
  BY <1>1, <1>2, FS_Union
<1>4. Three(a, b, c) = ({a} \cup {b}) \cup {c}
  BY DEF Three
<1> QED BY <1>3, <1>4, Zenon

LEMMA FiveFinite == \A a, b, c, e, f : IsFiniteSet(Five(a, b, c, e, f))
<1> TAKE a, b, c, e, f
<1>1. IsFiniteSet(Three(a, b, c)) /\ IsFiniteSet(Three(c, e, f))
  BY ThreeFinite
<1>2. IsFiniteSet(Three(a, b, c) \cup Three(c, e, f))
  BY <1>1, FS_Union
<1>3. Five(a, b, c, e, f) = Three(a, b, c) \cup Three(c, e, f)
  BY DEF Three, Five
<1> QED BY <1>2, <1>3, Zenon

LEMMA EntriesAre ==
  ASSUME NEW n
  PROVE  /\ Entries("student", n) = OfStudents(n) /\ Entries("restaurant", n) = OfRestaurant(n)
         /\ Entries("seed", n) = OfSeed(n)
BY DEF Entries

Words == {"stripe", "venue", "food"}

(* e is a proper entry of one of the keys.                                 *)
EntryOK(e, keys) ==
  /\ e.key \in keys /\ e.amount \in Nat /\ e.direction \in {"credit", "debit"} /\ e.ago \in Nat
  /\ e.words \in SUBSET Words

LEMMA OfStudentsOK ==
  ASSUME NEW n \in Nat
  PROVE  /\ \A e \in OfStudents(n) : EntryOK(e, BankKeys["student"])
         /\ \A k \in Nat : \A e \in OfStudents(n), o \in OfStudents(k) : e.key = o.key =>
              e.direction = o.direction /\ e.words = o.words /\ e.ago = o.ago /\ (n = k => e = o)
         /\ \A k \in BankKeys["student"] : \E e \in OfStudents(n) : e.key = k
         /\ IsFiniteSet(OfStudents(n))
<1>1. BankKeys["student"] = {"student_deposit", "venue", "unmatched"}
  BY DEF BankKeys
<1>2. Deposit["student"] = "student_deposit"
  BY DEF Deposit
<1>3. OfStudents(n) = {Entry("student_deposit", n, "credit", {"stripe"}, 2), Entry("venue", 30000, "debit", {"venue"}, 1), Entry("unmatched", 21245, "credit", {}, 1)}
  BY <1>2 DEF OfStudents
<1>4. ASSUME NEW e \in OfStudents(n) PROVE EntryOK(e, BankKeys["student"])
  <2>1. e.words \in SUBSET Words
    BY <1>3, <1>4 DEF Entry, Words
  <2>2. /\ e.key \in BankKeys["student"] /\ e.amount \in Nat
        /\ e.direction \in {"credit", "debit"} /\ e.ago \in Nat
    BY <1>1, <1>3, <1>4 DEF Entry
  <2> QED BY <2>1, <2>2 DEF EntryOK
<1>5. ASSUME NEW k \in Nat, NEW e \in OfStudents(n), NEW o \in OfStudents(k), e.key = o.key
      PROVE  e.direction = o.direction /\ e.words = o.words /\ e.ago = o.ago /\ (n = k => e = o)
  BY <1>2, <1>5 DEF OfStudents, Entry
<1>6. ASSUME NEW k \in BankKeys["student"] PROVE \E e \in OfStudents(n) : e.key = k
  BY <1>1, <1>3 DEF Entry
<1>7. IsFiniteSet(OfStudents(n))
  <2>1. OfStudents(n) = Three(Entry("student_deposit", n, "credit", {"stripe"}, 2), Entry("venue", 30000, "debit", {"venue"}, 1), Entry("unmatched", 21245, "credit", {}, 1))
    BY <1>3 DEF Three
  <2> QED BY <2>1, ThreeFinite
<1> QED BY <1>4, <1>5, <1>6, <1>7

LEMMA OfRestaurantOK ==
  ASSUME NEW n \in Nat
  PROVE  /\ \A e \in OfRestaurant(n) : EntryOK(e, BankKeys["restaurant"])
         /\ \A k \in Nat : \A e \in OfRestaurant(n), o \in OfRestaurant(k) : e.key = o.key =>
              e.direction = o.direction /\ e.words = o.words /\ e.ago = o.ago /\ (n = k => e = o)
         /\ \A k \in BankKeys["restaurant"] : \E e \in OfRestaurant(n) : e.key = k
         /\ IsFiniteSet(OfRestaurant(n))
<1>1. BankKeys["restaurant"] = {"restaurant_deposit", "delivery", "branch", "supplier", "payroll"}
  BY DEF BankKeys
<1>2. Deposit["restaurant"] = "restaurant_deposit"
  BY DEF Deposit
<1>3. OfRestaurant(n) = {Entry("restaurant_deposit", n, "credit", {}, 1), Entry("delivery", 195610, "credit", {}, 1), Entry("branch", 141000, "credit", {}, 1), Entry("supplier", 287540, "debit", {"food"}, 0), Entry("payroll", 684500, "debit", {}, 0)}
  BY <1>2 DEF OfRestaurant
<1>4. ASSUME NEW e \in OfRestaurant(n) PROVE EntryOK(e, BankKeys["restaurant"])
  <2>1. e.words \in SUBSET Words
    BY <1>3, <1>4 DEF Entry, Words
  <2>2. /\ e.key \in BankKeys["restaurant"] /\ e.amount \in Nat
        /\ e.direction \in {"credit", "debit"} /\ e.ago \in Nat
    BY <1>1, <1>3, <1>4 DEF Entry
  <2> QED BY <2>1, <2>2 DEF EntryOK
<1>5. ASSUME NEW k \in Nat, NEW e \in OfRestaurant(n), NEW o \in OfRestaurant(k), e.key = o.key
      PROVE  e.direction = o.direction /\ e.words = o.words /\ e.ago = o.ago /\ (n = k => e = o)
  BY <1>2, <1>5 DEF OfRestaurant, Entry
<1>6. ASSUME NEW k \in BankKeys["restaurant"] PROVE \E e \in OfRestaurant(n) : e.key = k
  BY <1>1, <1>3 DEF Entry
<1>7. IsFiniteSet(OfRestaurant(n))
  <2>1. OfRestaurant(n) = Five(Entry("restaurant_deposit", n, "credit", {}, 1), Entry("delivery", 195610, "credit", {}, 1), Entry("branch", 141000, "credit", {}, 1), Entry("supplier", 287540, "debit", {"food"}, 0), Entry("payroll", 684500, "debit", {}, 0))
    BY <1>3 DEF Five
  <2> QED BY <2>1, FiveFinite
<1> QED BY <1>4, <1>5, <1>6, <1>7

LEMMA OfSeedOK ==
  ASSUME NEW n \in Nat
  PROVE  /\ \A e \in OfSeed(n) : EntryOK(e, BankKeys["seed"])
         /\ \A k \in Nat : \A e \in OfSeed(n), o \in OfSeed(k) : e.key = o.key =>
              e.direction = o.direction /\ e.words = o.words /\ e.ago = o.ago /\ (n = k => e = o)
         /\ \A k \in BankKeys["seed"] : \E e \in OfSeed(n) : e.key = k
         /\ IsFiniteSet(OfSeed(n))
<1>1. BankKeys["seed"] = {"seed_deposit", "seed_unmatched", "seed_venue"}
  BY DEF BankKeys
<1>2. Deposit["seed"] = "seed_deposit"
  BY DEF Deposit
<1>3. OfSeed(n) = {Entry("seed_deposit", n, "credit", {"stripe"}, 4), Entry("seed_unmatched", 21245, "credit", {}, 2), Entry("seed_venue", 30000, "debit", {"venue"}, 1)}
  BY <1>2 DEF OfSeed
<1>4. ASSUME NEW e \in OfSeed(n) PROVE EntryOK(e, BankKeys["seed"])
  <2>1. e.words \in SUBSET Words
    BY <1>3, <1>4 DEF Entry, Words
  <2>2. /\ e.key \in BankKeys["seed"] /\ e.amount \in Nat
        /\ e.direction \in {"credit", "debit"} /\ e.ago \in Nat
    BY <1>1, <1>3, <1>4 DEF Entry
  <2> QED BY <2>1, <2>2 DEF EntryOK
<1>5. ASSUME NEW k \in Nat, NEW e \in OfSeed(n), NEW o \in OfSeed(k), e.key = o.key
      PROVE  e.direction = o.direction /\ e.words = o.words /\ e.ago = o.ago /\ (n = k => e = o)
  BY <1>2, <1>5 DEF OfSeed, Entry
<1>6. ASSUME NEW k \in BankKeys["seed"] PROVE \E e \in OfSeed(n) : e.key = k
  BY <1>1, <1>3 DEF Entry
<1>7. IsFiniteSet(OfSeed(n))
  <2>1. OfSeed(n) = Three(Entry("seed_deposit", n, "credit", {"stripe"}, 4), Entry("seed_unmatched", 21245, "credit", {}, 2), Entry("seed_venue", 30000, "debit", {"venue"}, 1))
    BY <1>3 DEF Three
  <2> QED BY <2>1, ThreeFinite
<1> QED BY <1>4, <1>5, <1>6, <1>7

LEMMA EntriesOK ==
  ASSUME NEW d \in Data, NEW n \in Nat
  PROVE  /\ \A e \in Entries(d, n) : EntryOK(e, BankKeys[d])
         /\ \A k \in Nat : \A e \in Entries(d, n), o \in Entries(d, k) : e.key = o.key =>
              e.direction = o.direction /\ e.words = o.words /\ e.ago = o.ago /\ (n = k => e = o)
         /\ \A k \in BankKeys[d] : \E e \in Entries(d, n) : e.key = k
         /\ IsFiniteSet(Entries(d, n))
<1>1. CASE d = "student"
  BY <1>1, EntriesAre, OfStudentsOK
<1>2. CASE d = "restaurant"
  BY <1>2, EntriesAre, OfRestaurantOK
<1>3. CASE d = "seed"
  BY <1>3, EntriesAre, OfSeedOK
<1> QED BY <1>1, <1>2, <1>3 DEF Data

LEMMA KeysApart ==
  /\ \A d \in Data : "none" \notin BankKeys[d]
  /\ \A d \in {"student", "restaurant"} : BankKeys[d] \cap BankKeys["seed"] = {}
BY DEF Data, BankKeys

BankRow(e, id, day, cur) ==
  [key |-> e.key, id |-> id, amount |-> e.amount, direction |-> e.direction, words |-> e.words,
   currency |-> cur, day |-> day - e.ago]

LEMMA PostedRows ==
  ASSUME NEW d \in Data, NEW n \in Nat, NEW id, NEW day \in Nat, NEW cur
  PROVE  /\ Posted(d, n, id, day, cur) = {BankRow(e, id, day, cur) : e \in Entries(d, n)}
         /\ IsFiniteSet(Posted(d, n, id, day, cur))
         /\ {b.key : b \in Posted(d, n, id, day, cur)} = BankKeys[d]
         /\ \A b \in Posted(d, n, id, day, cur) :
              b.id = id /\ b.amount \in Nat /\ b.direction \in {"credit", "debit"} /\ b.day \in Int /\ b.day <= day
         /\ \A b, c \in Posted(d, n, id, day, cur) : b.key = c.key => b = c
<1> DEFINE m == [e \in Entries(d, n) |-> BankRow(e, id, day, cur)]
<1>1. Posted(d, n, id, day, cur) = {BankRow(e, id, day, cur) : e \in Entries(d, n)}
  BY DEF Posted, BankRow
<1>2. Posted(d, n, id, day, cur) = {m[e] : e \in Entries(d, n)}
  BY <1>1
<1>3. IsFiniteSet(Posted(d, n, id, day, cur))
  <2> HIDE DEF m
  <2> QED BY <1>2, EntriesOK, ImageFinite
<1>4. {b.key : b \in Posted(d, n, id, day, cur)} = BankKeys[d]
  <2>1. \A e \in Entries(d, n) : BankRow(e, id, day, cur).key = e.key
    BY DEF BankRow
  <2>2. \A k \in BankKeys[d] : \E e \in Entries(d, n) : e.key = k
    BY EntriesOK DEF EntryOK
  <2>3. \A e \in Entries(d, n) : e.key \in BankKeys[d]
    BY EntriesOK DEF EntryOK
  <2>4. \A b \in Posted(d, n, id, day, cur) : b.key \in BankKeys[d]
    BY <1>1, <2>1, <2>3
  <2>5. \A k \in BankKeys[d] : \E b \in Posted(d, n, id, day, cur) : b.key = k
    BY <1>1, <2>1, <2>2
  <2> QED BY <2>4, <2>5
<1>5. ASSUME NEW b \in Posted(d, n, id, day, cur)
      PROVE  b.id = id /\ b.amount \in Nat /\ b.direction \in {"credit", "debit"} /\ b.day \in Int /\ b.day <= day
  <2>1. PICK e \in Entries(d, n) : b = BankRow(e, id, day, cur)
    BY <1>1
  <2>2. e.amount \in Nat /\ e.direction \in {"credit", "debit"} /\ e.ago \in Nat
    BY EntriesOK DEF EntryOK
  <2> QED BY <2>1, <2>2 DEF BankRow
<1>6. ASSUME NEW b \in Posted(d, n, id, day, cur), NEW c \in Posted(d, n, id, day, cur), b.key = c.key
      PROVE  b = c
  <2>1. PICK e \in Entries(d, n) : b = BankRow(e, id, day, cur)
    BY <1>1
  <2>2. PICK o \in Entries(d, n) : c = BankRow(o, id, day, cur)
    BY <1>1
  <2>3. e.key = o.key
    BY <2>1, <2>2, <1>6 DEF BankRow
  <2>4. e = o
    BY <2>3, EntriesOK
  <2> QED BY <2>1, <2>2, <2>4
<1> QED BY <1>1, <1>3, <1>4, <1>5, <1>6

LEMMA PostedKeys ==
  ASSUME NEW d \in Data, NEW n \in Nat, NEW id, NEW day \in Nat, NEW cur
  PROVE  {b.key : b \in Posted(d, n, id, day, cur)} = BankKeys[d]
BY PostedRows

-----------------------------------------------------------------------------
(* What is stored over a table.                                            *)
LEMMA UpsertedNew ==
  ASSUME NEW rows PROVE Upserted({}, rows) = {[r EXCEPT !.id = r.id] : r \in rows}
<1>1. \A r : IdOf({}, r) = r.id
  BY DEF IdOf
<1> QED BY <1>1 DEF Upserted

(* Rows of one identifier give it to those that are stored over them.      *)
LEMMA UpsertedOver ==
  ASSUME NEW table, NEW rows, NEW a, \A x \in table : x.id = a,
         {x.key : x \in table} = {r.key : r \in rows}
  PROVE  Upserted(table, rows) = {[r EXCEPT !.id = a] : r \in rows}
<1>1. ASSUME NEW r \in rows PROVE IdOf(table, r) = a
  <2>1. \E x \in table : x.key = r.key
    OBVIOUS
  <2> DEFINE c == CHOOSE x \in table : x.key = r.key
  <2>2. c \in table
    BY <2>1
  <2>3. c.id = a
    <3> HIDE DEF c
    <3> QED BY <2>2
  <2> QED BY <2>1, <2>3 DEF IdOf
<1>2. {x \in table : x.key \notin {r.key : r \in rows}} = {}
  OBVIOUS
<1> QED BY <1>1, <1>2 DEF Upserted

LEMMA UpsertedPaid ==
  ASSUME NEW d \in Data, NEW a, NEW b
  PROVE  /\ Upserted({}, Paid(d, b)) = Paid(d, b)
         /\ Upserted(Paid(d, a), Paid(d, b)) = Paid(d, a)
<1>1. \A k, l, i : [Payment(d, i, l) EXCEPT !.id = k] = Payment(d, i, k)
                     /\ Payment(d, i, k).id = k /\ Payment(d, i, k).key = <<d, i>>
  BY DEF Payment
<1>2. \A k : Paid(d, k) = {Payment(d, i, k) : i \in Lines(d)}
  BY DEF Paid, Lines
<1>3. Upserted({}, Paid(d, b)) = {[r EXCEPT !.id = r.id] : r \in Paid(d, b)}
  BY UpsertedNew
<1>4. Upserted(Paid(d, a), Paid(d, b)) = {[r EXCEPT !.id = a] : r \in Paid(d, b)}
  <2>1. \A x \in Paid(d, a) : x.id = a
    BY <1>1, <1>2
  <2>2. {x.key : x \in Paid(d, a)} = {r.key : r \in Paid(d, b)}
    BY <1>1, <1>2
  <2> QED BY <2>1, <2>2, UpsertedOver
<1>5. {[r EXCEPT !.id = r.id] : r \in Paid(d, b)} = Paid(d, b)
  BY <1>1, <1>2
<1>6. {[r EXCEPT !.id = a] : r \in Paid(d, b)} = Paid(d, a)
  BY <1>1, <1>2
<1> QED BY <1>3, <1>4, <1>5, <1>6

LEMMA UpsertedCharged ==
  ASSUME NEW d \in Data, NEW a, NEW b, NEW x, NEW y
  PROVE  /\ Upserted({}, Charged(d, b, y)) = Charged(d, b, y)
         /\ Upserted(Charged(d, a, x), Charged(d, b, y)) = Charged(d, a, y)
<1>1. \A k, l, i, z : [Fee(d, i, l, z) EXCEPT !.id = k] = Fee(d, i, k, z)
                     /\ Fee(d, i, k, z).id = k /\ Fee(d, i, k, z).key = <<d, i>>
  BY DEF Fee
<1>2. \A k, z : Charged(d, k, z) = {Fee(d, i, k, z) : i \in Lines(d)}
  BY DEF Charged, Lines
<1>3. Upserted({}, Charged(d, b, y)) = {[r EXCEPT !.id = r.id] : r \in Charged(d, b, y)}
  BY UpsertedNew
<1>4. Upserted(Charged(d, a, x), Charged(d, b, y)) = {[r EXCEPT !.id = a] : r \in Charged(d, b, y)}
  <2>1. \A r \in Charged(d, a, x) : r.id = a
    BY <1>1, <1>2
  <2>2. {r.key : r \in Charged(d, a, x)} = {r.key : r \in Charged(d, b, y)}
    BY <1>1, <1>2
  <2> QED BY <2>1, <2>2, UpsertedOver
<1>5. {[r EXCEPT !.id = r.id] : r \in Charged(d, b, y)} = Charged(d, b, y)
  BY <1>1, <1>2
<1>6. {[r EXCEPT !.id = a] : r \in Charged(d, b, y)} = Charged(d, a, y)
  BY <1>1, <1>2
<1> QED BY <1>3, <1>4, <1>5, <1>6

LEMMA UpsertedRefund ==
  ASSUME NEW d \in Data, NEW a, NEW b, NEW x, NEW y
  PROVE  /\ Upserted({}, {Refund(d, b, y)}) = {Refund(d, b, y)}
         /\ Upserted({Refund(d, a, x)}, {Refund(d, b, y)}) = {Refund(d, a, y)}
<1>1. \A k, l, z : [Refund(d, l, z) EXCEPT !.id = k] = Refund(d, k, z)
                     /\ Refund(d, k, z).id = k /\ Refund(d, k, z).key = <<d, Refunded[d]>>
  BY DEF Refund
<1>2. Upserted({}, {Refund(d, b, y)}) = {[r EXCEPT !.id = r.id] : r \in {Refund(d, b, y)}}
  BY UpsertedNew
<1>3. Upserted({Refund(d, a, x)}, {Refund(d, b, y)}) = {[r EXCEPT !.id = a] : r \in {Refund(d, b, y)}}
  <2>1. \A r \in {Refund(d, a, x)} : r.id = a
    BY <1>1
  <2>2. {r.key : r \in {Refund(d, a, x)}} = {r.key : r \in {Refund(d, b, y)}}
    BY <1>1
  <2> DEFINE S == {Refund(d, a, x)}
             R == {Refund(d, b, y)}
  <2>3. (\A r \in S : r.id = a) /\ {r.key : r \in S} = {r.key : r \in R}
    BY <2>1, <2>2
  <2> HIDE DEF S, R
  <2>4. Upserted(S, R) = {[r EXCEPT !.id = a] : r \in R}
    BY <2>3, UpsertedOver
  <2> QED BY <2>4 DEF S, R
<1>4. {[r EXCEPT !.id = r.id] : r \in {Refund(d, b, y)}} = {Refund(d, b, y)}
  BY <1>1
<1>5. {[r EXCEPT !.id = a] : r \in {Refund(d, b, y)}} = {Refund(d, a, y)}
  BY <1>1
<1> QED BY <1>2, <1>3, <1>4, <1>5

LEMMA RefundNew ==
  ASSUME NEW d \in Data, NEW b, NEW y
  PROVE  Upserted({}, {Refund(d, b, y)}) = {Refund(d, b, y)}
BY UpsertedRefund

LEMMA RefundOver ==
  ASSUME NEW d \in Data, NEW a, NEW b, NEW x, NEW y
  PROVE  Upserted({Refund(d, a, x)}, {Refund(d, b, y)}) = {Refund(d, a, y)}
BY UpsertedRefund

LEMMA UpsertedPayout ==
  ASSUME NEW d \in Data, NEW e \in Data, PayoutKey[e] = PayoutKey[d], NEW a, NEW b, NEW x, NEW y, NEW c, NEW w
  PROVE  /\ Upserted({}, {Payout(d, b, y, w)}) = {Payout(d, b, y, w)}
         /\ Upserted({Payout(e, a, x, c)}, {Payout(d, b, y, w)}) = {Payout(d, a, y, w)}
         /\ IdOf({}, Payout(d, b, y, w)) = b /\ IdOf({Payout(e, a, x, c)}, Payout(d, b, y, w)) = a
<1>1. \A k, l, z, v : /\ [Payout(d, l, z, v) EXCEPT !.id = k] = Payout(d, k, z, v)
                     /\ Payout(d, k, z, v).id = k /\ Payout(d, k, z, v).key = PayoutKey[d]
                     /\ Payout(e, k, z, v).id = k /\ Payout(e, k, z, v).key = PayoutKey[d]
  BY DEF Payout
<1>2. Upserted({}, {Payout(d, b, y, w)}) = {[r EXCEPT !.id = r.id] : r \in {Payout(d, b, y, w)}}
  BY UpsertedNew
<1>3. Upserted({Payout(e, a, x, c)}, {Payout(d, b, y, w)}) = {[r EXCEPT !.id = a] : r \in {Payout(d, b, y, w)}}
  <2>1. \A r \in {Payout(e, a, x, c)} : r.id = a
    BY <1>1
  <2>2. {r.key : r \in {Payout(e, a, x, c)}} = {r.key : r \in {Payout(d, b, y, w)}}
    BY <1>1
  <2> DEFINE S == {Payout(e, a, x, c)}
             R == {Payout(d, b, y, w)}
  <2>3. (\A r \in S : r.id = a) /\ {r.key : r \in S} = {r.key : r \in R}
    BY <2>1, <2>2
  <2> HIDE DEF S, R
  <2>4. Upserted(S, R) = {[r EXCEPT !.id = a] : r \in R}
    BY <2>3, UpsertedOver
  <2> QED BY <2>4 DEF S, R
<1>4. {[r EXCEPT !.id = r.id] : r \in {Payout(d, b, y, w)}} = {Payout(d, b, y, w)}
  BY <1>1
<1>5. {[r EXCEPT !.id = a] : r \in {Payout(d, b, y, w)}} = {Payout(d, a, y, w)}
  BY <1>1
<1>6. (CHOOSE p \in {Payout(e, a, x, c)} : p.key = Payout(d, b, y, w).key) = Payout(e, a, x, c)
  BY <1>1
<1>7. IdOf({}, Payout(d, b, y, w)) = b
  BY <1>1 DEF IdOf
<1>8. IdOf({Payout(e, a, x, c)}, Payout(d, b, y, w)) = a
  BY <1>1, <1>6 DEF IdOf
<1> QED BY <1>2, <1>3, <1>4, <1>5, <1>7, <1>8

LEMMA UpsertedPosted ==
  ASSUME NEW d \in Data, NEW a, NEW b, NEW k \in Nat, NEW n \in Nat, NEW x \in Nat, NEW y \in Nat,
         NEW cur, NEW was
  PROVE  /\ Upserted({}, Posted(d, n, b, y, cur)) = Posted(d, n, b, y, cur)
         /\ Upserted(Posted(d, k, a, x, was), Posted(d, n, b, y, cur)) = Posted(d, n, a, y, cur)
<1>1. \A e, i, j : [BankRow(e, i, y, cur) EXCEPT !.id = j] = BankRow(e, j, y, cur) /\ BankRow(e, i, y, cur).id = i
  BY DEF BankRow
<1>2. \A i : Posted(d, n, i, y, cur) = {BankRow(e, i, y, cur) : e \in Entries(d, n)}
  BY PostedRows
<1>3. Upserted({}, Posted(d, n, b, y, cur)) = {[r EXCEPT !.id = r.id] : r \in Posted(d, n, b, y, cur)}
  BY UpsertedNew
<1>4. Upserted(Posted(d, k, a, x, was), Posted(d, n, b, y, cur)) = {[r EXCEPT !.id = a] : r \in Posted(d, n, b, y, cur)}
  <2>1. \A r \in Posted(d, k, a, x, was) : r.id = a
    BY PostedRows
  <2>2. {r.key : r \in Posted(d, k, a, x, was)} = BankKeys[d]
    BY PostedKeys
  <2>4. {r.key : r \in Posted(d, n, b, y, cur)} = BankKeys[d]
    BY PostedKeys
  <2>3. {r.key : r \in Posted(d, k, a, x, was)} = {r.key : r \in Posted(d, n, b, y, cur)}
    BY <2>2, <2>4
  <2> QED BY <2>1, <2>3, UpsertedOver
<1>5. {[r EXCEPT !.id = r.id] : r \in Posted(d, n, b, y, cur)} = Posted(d, n, b, y, cur)
  BY <1>1, <1>2
<1>6. {[r EXCEPT !.id = a] : r \in Posted(d, n, b, y, cur)} = Posted(d, n, a, y, cur)
  BY <1>1, <1>2
<1> QED BY <1>3, <1>4, <1>5, <1>6

-----------------------------------------------------------------------------
(* New identifiers.                                                        *)
LEMMA MinIn ==
  ASSUME NEW S, S \subseteq Nat, S # {}
  PROVE  Min(S) \in S
<1>1. \E x \in S : \A y \in S : x <= y
  BY LeastNumber
<1> QED BY <1>1 DEF Min

Tables == {"payments", "fees", "refunds", "payouts", "banks", "runs"}

LEMMA TablesUsed == DOMAIN Used = Tables
BY DEF Used, Tables

LEMMA NewInIds ==
  ASSUME Room, NEW table \in Tables
  PROVE  NewIn(table) \in Ids /\ NewIn(table) \notin Used[table]
<1>1. Ids \ Used[table] # {} /\ Ids \ Used[table] \subseteq Nat
  BY TablesUsed DEF Room, Ids
<1>2. Min(Ids \ Used[table]) \in Ids \ Used[table]
  BY <1>1, MinIn
<1> QED BY <1>2 DEF NewIn

LEMMA UsedIds ==
  /\ \A r \in payouts : r.id \in Used["payouts"]
  /\ \A r \in banks : r.id \in Used["banks"]
BY DEF Used

-----------------------------------------------------------------------------
(* Rows by their fields.                                                   *)
PaymentRows == [key : Data \X Nat, id : Ids, amount : Nat, status : {"succeeded", "refunded"}]
ChargeRows == [key : Data \X Nat, id : Ids, amount : Nat, of : Ids \cup {0}]
Currencies == DOMAIN Folded
PayoutRows ==
  [key : {"po_demo", "po_demo_seed"}, id : Ids, amount : Nat, currency : Currencies,
   status : {"paid"}, day : Int]
BankNames == BankKeys["student"] \cup BankKeys["restaurant"] \cup BankKeys["seed"]
BankRows ==
  [key : BankNames, id : Ids, amount : Nat, direction : {"credit", "debit"},
   words : SUBSET Words, currency : Currencies, day : Int]

LEMMA RowFields ==
  /\ \A r \in PaymentRows : r.id \in Ids /\ \A i \in Ids : [r EXCEPT !.id = i] \in PaymentRows
  /\ \A r \in ChargeRows : r.id \in Ids /\ \A i \in Ids : [r EXCEPT !.id = i] \in ChargeRows
  /\ \A r \in PayoutRows : r.id \in Ids /\ \A i \in Ids : [r EXCEPT !.id = i] \in PayoutRows
  /\ \A r \in BankRows : r.id \in Ids /\ \A i \in Ids : [r EXCEPT !.id = i] \in BankRows
  /\ \A r \in PayoutRows \cup BankRows : \A i :
       [r EXCEPT !.id = i].id = i /\ [r EXCEPT !.id = i].key = r.key
  /\ \A r \in BankRows : \A i :
       [r EXCEPT !.id = i].amount = r.amount /\ [r EXCEPT !.id = i].direction = r.direction
         /\ [r EXCEPT !.id = i].day = r.day
BY DEF PaymentRows, ChargeRows, PayoutRows, BankRows

LEMMA SampleRows ==
  ASSUME NEW d \in Data, NEW id \in Ids, NEW of \in Ids \cup {0}
  PROVE  /\ Paid(d, id) \subseteq PaymentRows
         /\ Charged(d, id, of) \subseteq ChargeRows
         /\ Refund(d, id, of) \in ChargeRows
<1>1. \A i \in Lines(d) : i \in Nat /\ Charges[d][i][1] \in Nat /\ Charges[d][i][2] \in Nat
  BY ChargesOK
<1>2. Refunded[d] \in Lines(d)
  BY ChargesOK
<1>3. Paid(d, id) \subseteq PaymentRows
  BY <1>1 DEF Paid, Payment, PaymentRows, Lines
<1>4. Charged(d, id, of) \subseteq ChargeRows
  BY <1>1 DEF Charged, Fee, ChargeRows, Lines
<1>5. Refund(d, id, of) \in ChargeRows
  BY <1>1, <1>2 DEF Refund, ChargeRows
<1> QED BY <1>3, <1>4, <1>5

LEMMA NetNat == \A d \in Data : Net[d] \in Nat
BY NetIs DEF Data

LEMMA PayoutRow ==
  ASSUME NEW d \in Data, NEW id \in Ids, NEW day \in Nat, NEW cur \in Currencies
  PROVE  Payout(d, id, day, cur) \in PayoutRows /\ Payout(d, id, day, cur).key = PayoutKey[d]
<1>1. Arrived[d] \in Nat /\ Net[d] \in Nat /\ PayoutKey[d] \in {"po_demo", "po_demo_seed"}
  BY ChargesOK, NetNat DEF PayoutKey, Data
<1> QED BY <1>1 DEF Payout, PayoutRows

LEMMA PostedIn ==
  ASSUME NEW d \in Data, NEW n \in Nat, NEW id \in Ids, NEW day \in Nat, NEW cur \in Currencies
  PROVE  Posted(d, n, id, day, cur) \subseteq BankRows
<1>1. ASSUME NEW e \in Entries(d, n) PROVE BankRow(e, id, day, cur) \in BankRows
  <2>1. EntryOK(e, BankKeys[d])
    BY EntriesOK
  <2>2. BankKeys[d] \subseteq BankNames
    BY DEF Data, BankNames
  <2> QED BY <2>1, <2>2 DEF EntryOK, BankRow, BankRows
<1> QED BY <1>1 DEF Posted, BankRow

-----------------------------------------------------------------------------
(* What is stored over a table of any rows.                                *)
LEMMA UpsertedIn ==
  ASSUME NEW R, NEW table \in SUBSET R, NEW rows \in SUBSET R,
         \A r \in R : r.id \in Ids /\ \A i \in Ids : [r EXCEPT !.id = i] \in R
  PROVE  Upserted(table, rows) \in SUBSET R
<1>1. ASSUME NEW r \in rows PROVE IdOf(table, r) \in Ids
  BY DEF IdOf
<1> QED BY <1>1 DEF Upserted

LEMMA UpsertedFinite ==
  ASSUME NEW table, NEW rows, IsFiniteSet(table), IsFiniteSet(rows)
  PROVE  IsFiniteSet(Upserted(table, rows))
<1> DEFINE old == {x \in table : x.key \notin {r.key : r \in rows}}
           m == [r \in rows |-> [r EXCEPT !.id = IdOf(table, r)]]
<1>1. IsFiniteSet(old)
  BY FS_Subset
<1>2. IsFiniteSet({m[r] : r \in rows})
  <2> HIDE DEF m
  <2> QED BY ImageFinite
<1>3. Upserted(table, rows) = old \cup {m[r] : r \in rows}
  BY DEF Upserted
<1> HIDE DEF old, m
<1> QED BY <1>1, <1>2, <1>3, FS_Union

(* A row that was stored still is, under its identifier, if the table had  *)
(* no other with its key.                                                  *)
LEMMA UpsertedStored ==
  ASSUME NEW table, NEW rows, NEW ref, Stored(ref, table),
         \A x, y \in table : x.key = y.key /\ x.key \in {r.key : r \in rows} => x = y,
         \A r \in rows : \A i : [r EXCEPT !.id = i].id = i /\ [r EXCEPT !.id = i].key = r.key
  PROVE  Stored(ref, Upserted(table, rows))
<1>1. PICK x \in table : <<x.key, x.id>> = ref
  BY DEF Stored, Ref
<1>2. CASE x.key \notin {r.key : r \in rows}
  <2>1. x \in Upserted(table, rows)
    BY <1>2 DEF Upserted
  <2> QED BY <1>1, <2>1 DEF Stored, Ref
<1>3. CASE x.key \in {r.key : r \in rows}
  <2>1. PICK r \in rows : r.key = x.key
    BY <1>3
  <2>2. (CHOOSE y \in table : y.key = r.key) = x
    BY <1>3, <2>1
  <2>3. IdOf(table, r) = x.id
    BY <2>1, <2>2 DEF IdOf
  <2> DEFINE z == [r EXCEPT !.id = IdOf(table, r)]
  <2>4. z \in Upserted(table, rows)
    BY DEF Upserted
  <2>5. z.key = x.key /\ z.id = x.id
    BY <2>1, <2>3
  <2> QED BY <1>1, <2>4, <2>5 DEF Stored, Ref
<1> QED BY <1>2, <1>3

(* Rows with keys of their own stay apart.                                 *)
LEMMA UpsertedApart ==
  ASSUME NEW table, NEW rows,
         \A x, y \in table : x.key = y.key /\ x.id = y.id => x = y,
         \A r, o \in rows : r.key = o.key => r = o,
         \A r \in rows : \A i : [r EXCEPT !.id = i].id = i /\ [r EXCEPT !.id = i].key = r.key
  PROVE  /\ \A x, y \in Upserted(table, rows) : x.key = y.key /\ x.id = y.id => x = y
         /\ \A x, y \in Upserted(table, rows) : x.key = y.key /\ x.key \in {r.key : r \in rows} => x = y
         /\ \A x \in Upserted(table, rows) :
              \/ x \in table /\ x.key \notin {r.key : r \in rows}
              \/ \E r \in rows : x = [r EXCEPT !.id = IdOf(table, r)] /\ x.key = r.key
<1>1. ASSUME NEW x \in Upserted(table, rows)
      PROVE  \/ x \in table /\ x.key \notin {r.key : r \in rows}
             \/ \E r \in rows : x = [r EXCEPT !.id = IdOf(table, r)] /\ x.key = r.key
  <2>1. CASE x \in {y \in table : y.key \notin {r.key : r \in rows}}
    BY <2>1
  <2>2. CASE x \in {[r EXCEPT !.id = IdOf(table, r)] : r \in rows}
    <3>1. PICK r \in rows : x = [r EXCEPT !.id = IdOf(table, r)]
      BY <2>2
    <3> QED BY <3>1
  <2> QED BY <1>1, <2>1, <2>2 DEF Upserted
<1>2. ASSUME NEW x \in Upserted(table, rows), NEW y \in Upserted(table, rows), x.key = y.key,
             x.key \in {r.key : r \in rows}
      PROVE  x = y
  <2>1. PICK r \in rows : x = [r EXCEPT !.id = IdOf(table, r)] /\ x.key = r.key
    BY <1>1, <1>2
  <2>2. PICK o \in rows : y = [o EXCEPT !.id = IdOf(table, o)] /\ y.key = o.key
    BY <1>1, <1>2
  <2>3. r = o
    BY <1>2, <2>1, <2>2
  <2> QED BY <2>1, <2>2, <2>3
<1>3. ASSUME NEW x \in Upserted(table, rows), NEW y \in Upserted(table, rows), x.key = y.key, x.id = y.id
      PROVE  x = y
  <2>1. CASE x.key \in {r.key : r \in rows}
    BY <1>2, <1>3, <2>1
  <2>2. CASE x.key \notin {r.key : r \in rows}
    <3>1. x \in table /\ y \in table
      BY <1>1, <1>3, <2>2
    <3> QED BY <1>3, <3>1
  <2> QED BY <2>1, <2>2
<1> QED BY <1>1, <1>2, <1>3

LEMMA UpsertedHas ==
  ASSUME NEW table, NEW rows, NEW r \in rows,
         \A i : [r EXCEPT !.id = i].key = r.key
  PROVE  \E x \in Upserted(table, rows) : x.key = r.key
<1>1. [r EXCEPT !.id = IdOf(table, r)] \in Upserted(table, rows)
  BY DEF Upserted
<1>2. [r EXCEPT !.id = IdOf(table, r)].key = r.key
  OBVIOUS
<1> QED BY <1>1, <1>2

-----------------------------------------------------------------------------
(***************************************************************************)
(* The inductive invariant: what the rows are, over Postgres in which sets *)
(* they come, what runs refer to, and what each request holds.             *)
(***************************************************************************)
Distinct(rows) == \A x, y \in rows : x.key = y.key /\ x.id = y.id => x = y
Sole(rows, keys) == \A x, y \in rows : x.key = y.key /\ x.key \in keys => x = y

PayoutsOK(rows) == rows \subseteq PayoutRows /\ IsFiniteSet(rows) /\ Distinct(rows)
BanksOK(rows, day) ==
  /\ rows \subseteq BankRows /\ IsFiniteSet(rows) /\ Distinct(rows)
  /\ \A b \in rows : b.day <= day
  /\ \A b, c \in rows : b.key = c.key =>
       b.amount = c.amount /\ b.direction = c.direction /\ b.currency = c.currency

Seeded(b, cur) ==
  \E e \in Entries("seed", Net["seed"]) :
    e.key = b.key /\ e.amount = b.amount /\ e.direction = b.direction /\ b.currency = cur

(* A bank transaction is one that a sync brings, or as it was seeded.      *)
SyncedKeys == BankKeys["student"] \cup BankKeys["restaurant"]
ExternalOK(b, cur) == b.key \in SyncedKeys \/ (b.key \in BankKeys["seed"] /\ Seeded(b, cur))
AllExternal(rows, cur) == \A b \in rows : ExternalOK(b, cur)

RowsOK ==
  /\ payments \subseteq PaymentRows /\ fees \subseteq ChargeRows /\ refunds \subseteq ChargeRows
  /\ PayoutsOK(payouts) /\ Sole(payouts, {"po_demo"})
  /\ BanksOK(banks, today) /\ Sole(banks, SyncedKeys) /\ AllExternal(banks, deployment.currency)

Placed == deployment \in Deployments /\ date \in DOMAIN Days

SetupOK ==
  /\ setup.scenario \in {Blank} \cup {a.scenario : a \in Answers}
  /\ setup.business \in {Blank, deployment.type} \cup {a.business : a \in Answers}
  /\ setup.checklist \in {Blank} \cup {a.checklist : a \in Answers}
  /\ DOMAIN setup = {"scenario", "business", "checklist", "done"} /\ setup.done \in BOOLEAN

LEMMA Places ==
  ASSUME Placed
  PROVE  /\ today \in Nat
         /\ deployment.type \in Samples /\ deployment.currency \in Currencies
         /\ \A d \in Samples : d \in Data
         /\ "seed" \in Data /\ "student" \in Samples
<1>1. today \in Nat
  <2>1. Days \in Seq(Nat)
    BY DaysAssumption
  <2>2. Days[date] \in Nat
    BY <2>1 DEF Placed
  <2> QED BY <2>2 DEF today
<1>2. deployment.type \in Samples /\ deployment.currency \in Currencies
  BY DeploymentsAssumption DEF Placed, Samples, Currencies
<1> QED BY <1>1, <1>2 DEF Data, Samples

(* What a request syncs, and in which currency.                            *)
LEMMA SampleOK ==
  ASSUME Placed, NEW q \in Requests
  PROVE  /\ SampleOf(q) \in Samples /\ SampleOf(q) \in Data /\ CurrencyOf(q) \in Currencies
         /\ PayoutKey[SampleOf(q)] = "po_demo" /\ BankKeys[SampleOf(q)] \subseteq SyncedKeys
         /\ deployment.type = "student" \/ ~ Postgres => SampleOf(q) = "student"
         /\ Postgres /\ job[q].kind = "reset" => SampleOf(q) = deployment.type
<1>1. SampleOf(q) \in Samples
  BY Places DEF SampleOf, Samples
<1>2. CurrencyOf(q) \in Currencies
  BY Places DEF CurrencyOf, Currencies, Folded
<1>3. PayoutKey[SampleOf(q)] = "po_demo" /\ BankKeys[SampleOf(q)] \subseteq SyncedKeys
  BY <1>1 DEF Samples, PayoutKey, SyncedKeys
<1> QED BY <1>1, <1>2, <1>3, Places DEF SampleOf, OfWorker

-----------------------------------------------------------------------------
(* The rows stay what they are.                                            *)
LineKeys(d) == {<<d, i>> : i \in Lines(d)}

LEMMA PaidKeys ==
  ASSUME NEW d \in Data, NEW k, NEW o
  PROVE  /\ {p.key : p \in Paid(d, k)} = LineKeys(d)
         /\ {r.key : r \in Charged(d, k, o)} = LineKeys(d)
         /\ Refund(d, k, o).key \in LineKeys(d)
<1>1. Refunded[d] \in Lines(d)
  BY ChargesOK
<1>2. \A l : Payment(d, l, k).key = <<d, l>> /\ Fee(d, l, k, o).key = <<d, l>>
  BY DEF Payment, Fee
<1>3. Refund(d, k, o).key = <<d, Refunded[d]>>
  BY DEF Refund
<1>4. Paid(d, k) = {Payment(d, i, k) : i \in Lines(d)} /\ Charged(d, k, o) = {Fee(d, i, k, o) : i \in Lines(d)}
  BY DEF Paid, Charged, Lines
<1>a. \A l \in Lines(d) : Payment(d, l, k) \in Paid(d, k) /\ Fee(d, l, k, o) \in Charged(d, k, o)
  BY <1>4
<1>b. \A x \in LineKeys(d) : \E l \in Lines(d) : x = <<d, l>>
  BY DEF LineKeys
<1>c. \A l \in Lines(d) : <<d, l>> \in LineKeys(d)
  BY DEF LineKeys
<1>5. {p.key : p \in Paid(d, k)} = LineKeys(d)
  <2>1. \A p \in Paid(d, k) : p.key \in LineKeys(d)
    BY <1>2, <1>4, <1>c
  <2>2. \A x \in LineKeys(d) : \E p \in Paid(d, k) : p.key = x
    BY <1>2, <1>a, <1>b
  <2> QED BY <2>1, <2>2
<1>6. {r.key : r \in Charged(d, k, o)} = LineKeys(d)
  <2>1. \A r \in Charged(d, k, o) : r.key \in LineKeys(d)
    BY <1>2, <1>4, <1>c
  <2>2. \A x \in LineKeys(d) : \E r \in Charged(d, k, o) : r.key = x
    BY <1>2, <1>a, <1>b
  <2> QED BY <2>1, <2>2
<1>7. Refund(d, k, o).key \in LineKeys(d)
  BY <1>1, <1>3 DEF LineKeys
<1> QED BY <1>5, <1>6, <1>7

LEMMA OfStoredIn ==
  ASSUME NEW rows \in SUBSET ChargeRows, payments' \subseteq PaymentRows,
         \A r \in rows : \E p \in payments' : p.key = r.key
  PROVE  OfStored(rows) \in SUBSET ChargeRows
<1>1. ASSUME NEW r \in rows
      PROVE  [r EXCEPT !.of = (CHOOSE p \in payments' : p.key = r.key).id] \in ChargeRows
  <2> DEFINE c == CHOOSE p \in payments' : p.key = r.key
  <2>1. c \in payments'
    OBVIOUS
  <2>2. c.id \in Ids
    <3> HIDE DEF c
    <3> QED BY <2>1, RowFields
  <2> HIDE DEF c
  <2>3. [r EXCEPT !.of = c.id] \in ChargeRows
    BY <2>2 DEF ChargeRows
  <2> QED BY <2>3 DEF c
<1> QED BY <1>1 DEF OfStored

LEMMA PayoutsUpserted ==
  ASSUME NEW table, PayoutsOK(table), NEW d \in Samples, Sole(table, {"po_demo"}), NEW id \in Ids, NEW day \in Nat,
         NEW cur \in Currencies
  PROVE  /\ PayoutsOK(Upserted(table, {Payout(d, id, day, cur)}))
         /\ Sole(Upserted(table, {Payout(d, id, day, cur)}), {"po_demo"})
         /\ \A ref : Stored(ref, table) => Stored(ref, Upserted(table, {Payout(d, id, day, cur)}))
<1> DEFINE rows == {Payout(d, id, day, cur)}
<1>a. Payout(d, id, day, cur) \in PayoutRows /\ Payout(d, id, day, cur).key = "po_demo"
  <2>1. d \in Data /\ PayoutKey[d] = "po_demo"
    BY DEF Data, Samples, PayoutKey
  <2> QED BY <2>1, PayoutRow
<1>b. IsFiniteSet(rows)
  BY FS_Singleton
<1>1. rows \subseteq PayoutRows /\ IsFiniteSet(rows) /\ {r.key : r \in rows} = {"po_demo"}
      /\ \A r, o \in rows : r.key = o.key => r = o
  BY <1>a, <1>b
<1> HIDE DEF rows
<1>2. /\ \A r \in PayoutRows : r.id \in Ids /\ \A i \in Ids : [r EXCEPT !.id = i] \in PayoutRows
      /\ \A r \in rows : \A i : [r EXCEPT !.id = i].id = i /\ [r EXCEPT !.id = i].key = r.key
  BY <1>1, RowFields
<1>3. Upserted(table, rows) \subseteq PayoutRows
  BY <1>1, <1>2, UpsertedIn DEF PayoutsOK
<1>4. IsFiniteSet(Upserted(table, rows))
  BY <1>1, UpsertedFinite DEF PayoutsOK
<1>5. \A x, y \in table : x.key = y.key /\ x.id = y.id => x = y
  BY DEF PayoutsOK, Distinct
<1>6. Distinct(Upserted(table, rows)) /\ Sole(Upserted(table, rows), {"po_demo"})
  BY <1>1, <1>2, <1>5, UpsertedApart DEF Distinct, Sole
<1>7. ASSUME NEW ref, Stored(ref, table) PROVE Stored(ref, Upserted(table, rows))
  BY <1>1, <1>2, <1>7, UpsertedStored DEF Sole
<1> QED BY <1>3, <1>4, <1>6, <1>7 DEF PayoutsOK, rows

LEMMA BanksUpserted ==
  ASSUME NEW table, NEW day \in Nat, BanksOK(table, day), NEW d \in Samples,
         Sole(table, SyncedKeys), NEW own, AllExternal(table, own),
         NEW n \in Nat, NEW id \in Ids, NEW cur \in Currencies,
         NEW new, new = Upserted(table, Posted(d, n, id, day, cur))
  PROVE  /\ BanksOK(new, day) /\ Sole(new, SyncedKeys) /\ AllExternal(new, own)
         /\ \A ref : Stored(ref, table) => Stored(ref, new)
<1> DEFINE rows == Posted(d, n, id, day, cur)
<1>0. d \in Data /\ BankKeys[d] \subseteq SyncedKeys
  BY DEF Data, Samples, SyncedKeys
<1>e. {r.key : r \in rows} = BankKeys[d] /\ rows \subseteq BankRows
  BY <1>0, PostedIn, PostedKeys
<1>1. /\ rows \subseteq BankRows /\ IsFiniteSet(rows) /\ {r.key : r \in rows} = BankKeys[d]
      /\ \A r, o \in rows : r.key = o.key => r = o
      /\ \A r \in rows : r.day <= day
  BY <1>0, <1>e, PostedRows
<1>a. new = Upserted(table, rows)
  OBVIOUS
<1> HIDE DEF rows
<1>2. /\ \A r \in BankRows : r.id \in Ids /\ \A i \in Ids : [r EXCEPT !.id = i] \in BankRows
      /\ \A r \in rows : \A i : /\ [r EXCEPT !.id = i].id = i /\ [r EXCEPT !.id = i].key = r.key
                                /\ [r EXCEPT !.id = i].day = r.day
  BY <1>1, RowFields
<1>3. Upserted(table, rows) \subseteq BankRows
  BY <1>1, <1>2, UpsertedIn DEF BanksOK
<1>4. IsFiniteSet(Upserted(table, rows))
  BY <1>1, UpsertedFinite DEF BanksOK
<1>5. \A x, y \in table : x.key = y.key /\ x.id = y.id => x = y
  BY DEF BanksOK, Distinct
<1>6. /\ \A x, y \in new : x.key = y.key /\ x.id = y.id => x = y
      /\ \A x, y \in new : x.key = y.key /\ x.key \in BankKeys[d] => x = y
      /\ \A x \in new : \/ x \in table /\ x.key \notin BankKeys[d]
                        \/ \E r \in rows : x = [r EXCEPT !.id = IdOf(table, r)] /\ x.key = r.key
  BY <1>1, <1>2, <1>5, <1>a, UpsertedApart
<1>f. \A x, y \in table : x.key = y.key /\ x.key \in {r.key : r \in rows} => x = y
  BY <1>0, <1>1 DEF Sole
<1>g. \A r \in rows : \A i : [r EXCEPT !.id = i].id = i /\ [r EXCEPT !.id = i].key = r.key
  BY <1>2
<1>7. ASSUME NEW ref, Stored(ref, table) PROVE Stored(ref, new)
  BY <1>7, <1>a, <1>f, <1>g, UpsertedStored
<1>b. \A r \in rows : r.key \in BankKeys[d]
  BY <1>1
<1>8. ASSUME NEW b \in new
      PROVE  /\ b.day <= day
             /\ b.key \in BankKeys[d] \/ b \in table
  <2>1. CASE b \in table /\ b.key \notin BankKeys[d]
    BY <2>1 DEF BanksOK
  <2>2. CASE \E r \in rows : b = [r EXCEPT !.id = IdOf(table, r)] /\ b.key = r.key
    <3>1. PICK r \in rows : b = [r EXCEPT !.id = IdOf(table, r)] /\ b.key = r.key
      BY <2>2
    <3>2. b.day = r.day
      BY <3>1, <1>2
    <3>3. r.day <= day /\ b.key \in BankKeys[d]
      BY <3>1, <1>1, <1>b
    <3> QED BY <3>2, <3>3, Zenon
  <2> QED BY <1>6, <2>1, <2>2
<1>9. \A b \in new : b.key \in BankKeys[d] \/ b \in table
  BY <1>8
<1>c. AllExternal(new, own)
  BY <1>0, <1>9 DEF ExternalOK, AllExternal
<1>d. Sole(new, SyncedKeys)
  BY <1>6, <1>9 DEF Sole
<1>10. ASSUME NEW b \in new, NEW c \in new, b.key = c.key
       PROVE  b.amount = c.amount /\ b.direction = c.direction /\ b.currency = c.currency
  <2>1. CASE b.key \in BankKeys[d]
    BY <1>6, <1>10, <2>1
  <2>2. CASE b.key \notin BankKeys[d]
    <3>1. b \in table /\ c \in table
      BY <1>9, <1>10, <2>2
    <3> QED BY <1>10, <3>1 DEF BanksOK
  <2> QED BY <2>1, <2>2
<1> QED BY <1>3, <1>4, <1>6, <1>7, <1>8, <1>10, <1>a, <1>c, <1>d DEF BanksOK, Distinct

LEMMA Unmoved ==
  ASSUME UNCHANGED <<deployment, date>>
  PROVE  today' = today /\ (Postgres' <=> Postgres)
BY DEF today, Postgres

LEMMA RowsStay ==
  ASSUME RowsOK, UNCHANGED <<deployment, date, tables>>
  PROVE  RowsOK'
<1>1. today' = today
  BY Unmoved
<1> QED BY <1>1 DEF RowsOK, tables

(* What a sync stores from Stripe is good over either storage.             *)
LEMMA RowsSync ==
  ASSUME RowsOK, Placed, NEW q \in Requests, SyncStripeDemo(q) \/ syncStripeMock(q)
  PROVE  RowsOK' /\ \A ref : Stored(ref, payouts) => Stored(ref, payouts')
<1>1. /\ UNCHANGED <<deployment, date, banks>> /\ today' = today
      /\ Room
  BY Unmoved DEF SyncStripeDemo, syncStripeMock
<1> DEFINE d == SampleOf(q)
           p == NewIn("payments")
           f == NewIn("fees")
           r == NewIn("refunds")
<1>2. p \in Ids /\ f \in Ids /\ r \in Ids /\ NewIn("payouts") \in Ids
  BY <1>1, NewInIds DEF Tables
<1>3. d \in Data /\ d \in Samples /\ CurrencyOf(q) \in Currencies /\ today \in Nat
  BY Places, SampleOK
<1>4. /\ payments' = Upserted(payments, Paid(d, p))
      /\ payouts' = Upserted(payouts, {Payout(d, NewIn("payouts"), today, CurrencyOf(q))})
  BY <1>3 DEF SyncStripeDemo, syncStripeMock
<1>5. \/ /\ fees' = Upserted(fees, OfStored(Charged(d, f, p)))
         /\ refunds' = Upserted(refunds, OfStored({Refund(d, r, p)}))
      \/ fees' = fees \cup Charged(d, f, p) /\ refunds' = refunds \cup {Refund(d, r, p)}
  BY <1>3 DEF SyncStripeDemo, syncStripeMock
<1> HIDE DEF d, p, f, r
<1>6. /\ Paid(d, p) \subseteq PaymentRows
      /\ Charged(d, f, p) \subseteq ChargeRows /\ {Refund(d, r, p)} \subseteq ChargeRows
  BY <1>2, <1>3, SampleRows
<1>7. payments' \subseteq PaymentRows
  BY <1>4, <1>6, RowFields, UpsertedIn DEF RowsOK
<1>8. /\ \A x \in Charged(d, f, p) : \E y \in payments' : y.key = x.key
      /\ \A x \in {Refund(d, r, p)} : \E y \in payments' : y.key = x.key
  <2>1. \A y \in Paid(d, p) : \A i : [y EXCEPT !.id = i].key = y.key
    BY <1>6 DEF PaymentRows
  <2>2. \A y \in Paid(d, p) : \E z \in payments' : z.key = y.key
    BY <1>4, <2>1, UpsertedHas
  <2>a. /\ {y.key : y \in Paid(d, p)} = LineKeys(d)
        /\ {x.key : x \in Charged(d, f, p)} = LineKeys(d) /\ Refund(d, r, p).key \in LineKeys(d)
    BY <1>3, PaidKeys
  <2>3. \A x \in Charged(d, f, p) : \E y \in Paid(d, p) : y.key = x.key
    BY <2>a
  <2>4. \E y \in Paid(d, p) : y.key = Refund(d, r, p).key
    BY <2>a
  <2>5. \E y \in payments' : y.key = Refund(d, r, p).key
    BY <2>2, <2>4
  <2>6. \A x \in {Refund(d, r, p)} : \E y \in payments' : y.key = x.key
    BY <2>5
  <2> QED BY <2>2, <2>3, <2>6
<1>9. OfStored(Charged(d, f, p)) \subseteq ChargeRows /\ OfStored({Refund(d, r, p)}) \subseteq ChargeRows
  BY <1>6, <1>7, <1>8, OfStoredIn
<1>10. fees' \subseteq ChargeRows /\ refunds' \subseteq ChargeRows
  <2>1. CASE fees' = fees \cup Charged(d, f, p) /\ refunds' = refunds \cup {Refund(d, r, p)}
    BY <1>6, <2>1 DEF RowsOK
  <2>2. CASE /\ fees' = Upserted(fees, OfStored(Charged(d, f, p)))
             /\ refunds' = Upserted(refunds, OfStored({Refund(d, r, p)}))
    BY <1>9, <2>2, RowFields, UpsertedIn DEF RowsOK
  <2> QED BY <1>5, <2>1, <2>2
<1>11. PayoutsOK(payouts) /\ Sole(payouts, {"po_demo"})
  BY DEF RowsOK
<1>12. /\ PayoutsOK(payouts') /\ Sole(payouts', {"po_demo"})
       /\ \A ref : Stored(ref, payouts) => Stored(ref, payouts')
  BY <1>2, <1>3, <1>4, <1>11, PayoutsUpserted
<1>13. BanksOK(banks', today') /\ Sole(banks', SyncedKeys) /\ AllExternal(banks', deployment.currency)
  BY <1>1 DEF RowsOK
<1> QED BY <1>1, <1>7, <1>10, <1>12, <1>13 DEF RowsOK

LEMMA RowsBank ==
  ASSUME RowsOK, Placed, NEW q \in Requests, SyncBank(q), job[q].amount \in Nat
  PROVE  RowsOK' /\ \A ref : Stored(ref, banks) => Stored(ref, banks')
<1>1. /\ UNCHANGED <<deployment, date, payments, fees, refunds, payouts>>
      /\ today' = today
      /\ Room
  BY Unmoved DEF SyncBank
<1>2. NewIn("banks") \in Ids
  BY <1>1, NewInIds DEF Tables
<1>3. SampleOf(q) \in Samples /\ CurrencyOf(q) \in Currencies /\ today \in Nat
  BY Places, SampleOK
<1>4. banks' = Upserted(banks, Posted(SampleOf(q), job[q].amount, NewIn("banks"), today, CurrencyOf(q)))
  BY DEF SyncBank
<1>5. BanksOK(banks, today) /\ Sole(banks, SyncedKeys) /\ AllExternal(banks, deployment.currency)
  BY DEF RowsOK
<1>6. /\ BanksOK(banks', today) /\ Sole(banks', SyncedKeys) /\ AllExternal(banks', deployment.currency)
      /\ \A ref : Stored(ref, banks) => Stored(ref, banks')
  BY <1>2, <1>3, <1>4, <1>5, BanksUpserted
<1>7. /\ payments' \subseteq PaymentRows /\ fees' \subseteq ChargeRows /\ refunds' \subseteq ChargeRows
      /\ PayoutsOK(payouts') /\ Sole(payouts', {"po_demo"})
  BY <1>1 DEF RowsOK
<1> QED BY <1>1, <1>6, <1>7 DEF RowsOK

(* Seeding adds rows under new identifiers.                                *)
LEMMA RowsSeed ==
  ASSUME RowsOK, Placed, NEW q \in Requests, Seed(q), ~ Postgres
  PROVE  /\ RowsOK'
         /\ \A ref : (Stored(ref, banks) => Stored(ref, banks')) /\ (Stored(ref, payouts) => Stored(ref, payouts'))
<1>1. /\ UNCHANGED <<deployment, date>> /\ today' = today
      /\ Room
  BY Unmoved DEF Seed
<1> DEFINE b == NewIn("banks")
           o == NewIn("payouts")
           cur == deployment.currency
           new == Posted("seed", Net["seed"], b, today, cur)
           po == Payout("seed", o, today, cur)
<1>2. /\ NewIn("payments") \in Ids /\ NewIn("fees") \in Ids /\ NewIn("refunds") \in Ids
      /\ b \in Ids /\ o \in Ids /\ b \notin Used["banks"] /\ o \notin Used["payouts"]
  BY <1>1, NewInIds DEF Tables
<1>3. "seed" \in Data /\ cur \in Currencies /\ today \in Nat /\ Net["seed"] \in Nat
  BY Places, NetNat
<1>4. /\ payments' = payments \cup Paid("seed", NewIn("payments"))
      /\ fees' = fees \cup Charged("seed", NewIn("fees"), NewIn("payments"))
      /\ refunds' = refunds \cup {Refund("seed", NewIn("refunds"), NewIn("payments"))}
      /\ payouts' = payouts \cup {po} /\ banks' = banks \cup new
  BY DEF Seed
<1>a. {x.key : x \in new} = BankKeys["seed"] /\ new \subseteq BankRows
  BY <1>2, <1>3, PostedIn, PostedKeys
<1>b. IsFiniteSet(new) /\ \A x, y \in new : x.key = y.key => x = y
  BY <1>2, <1>3, PostedRows
<1>d. \A x \in new :
        x.id = b /\ x.amount \in Nat /\ x.direction \in {"credit", "debit"} /\ x.day \in Int /\ x.day <= today
  BY <1>2, <1>3, PostedRows
<1>c. \A x \in new : x.id = b /\ x.day <= today
  BY <1>d
<1>5. /\ new \subseteq BankRows /\ IsFiniteSet(new) /\ {x.key : x \in new} = BankKeys["seed"]
      /\ \A x, y \in new : x.key = y.key => x = y
      /\ \A x \in new : x.id = b /\ x.day <= today
  BY <1>a, <1>b, <1>c
<1>6. \A x \in new : Seeded(x, cur)
  <2> TAKE x \in new
  <2>1. PICK e \in Entries("seed", Net["seed"]) : x = BankRow(e, b, today, cur)
    BY <1>2, <1>3, PostedRows
  <2> QED BY <2>1 DEF BankRow, Seeded
<1>7. po \in PayoutRows /\ po.key = "po_demo_seed" /\ po.id = o
  BY <1>2, <1>3, PayoutRow DEF Payout, PayoutKey
<1>0. cur = deployment.currency
  OBVIOUS
<1> HIDE DEF b, o, new, po, cur
<1>8. payments' \subseteq PaymentRows /\ fees' \subseteq ChargeRows /\ refunds' \subseteq ChargeRows
  BY <1>2, <1>3, <1>4, SampleRows DEF RowsOK
<1>9. PayoutsOK(payouts') /\ Sole(payouts', {"po_demo"})
  <2>1. IsFiniteSet({po})
    BY FS_Singleton
  <2>2. IsFiniteSet(payouts')
    BY <1>4, <2>1, FS_Union DEF RowsOK, PayoutsOK
  <2>3. \A x \in payouts : x.id # po.id
    BY <1>2, <1>7, UsedIds
  <2>4. Distinct(payouts')
    BY <1>4, <2>3 DEF RowsOK, PayoutsOK, Distinct
  <2>5. Sole(payouts', {"po_demo"})
    BY <1>3, <1>4, <1>7 DEF RowsOK, Sole
  <2> QED BY <1>4, <1>7, <2>2, <2>4, <2>5 DEF RowsOK, PayoutsOK
<1>10. \A x \in banks' : ExternalOK(x, cur)
  BY <1>0, <1>4, <1>5, <1>6 DEF RowsOK, ExternalOK, AllExternal
<1>11. Sole(banks', SyncedKeys)
  BY <1>4, <1>5, KeysApart DEF RowsOK, Sole, SyncedKeys
<1>12. \A x, y \in banks' : x.key = y.key =>
         x.amount = y.amount /\ x.direction = y.direction /\ x.currency = y.currency
  <2> TAKE x, y \in banks'
  <2>1. CASE x.key \in SyncedKeys
    BY <1>11, <2>1 DEF Sole
  <2>2. CASE x.key \notin SyncedKeys /\ x.key = y.key
    <3>1. Seeded(x, cur) /\ Seeded(y, cur)
      BY <1>10, <2>2 DEF ExternalOK
    <3>2. PICK e \in Entries("seed", Net["seed"]) :
            e.key = x.key /\ e.amount = x.amount /\ e.direction = x.direction /\ x.currency = cur
      BY <3>1 DEF Seeded
    <3>3. PICK g \in Entries("seed", Net["seed"]) :
            g.key = y.key /\ g.amount = y.amount /\ g.direction = y.direction /\ y.currency = cur
      BY <3>1 DEF Seeded
    <3>4. e = g
      BY <1>3, <2>2, <3>2, <3>3, EntriesOK
    <3> QED BY <3>2, <3>3, <3>4
  <2> QED BY <2>1, <2>2
<1>13. BanksOK(banks', today)
  <2>1. IsFiniteSet(banks')
    BY <1>4, <1>5, FS_Union DEF RowsOK, BanksOK
  <2>2. \A x \in banks : x.id # b
    BY <1>2, UsedIds
  <2>3. Distinct(banks')
    BY <1>4, <1>5, <2>2 DEF RowsOK, BanksOK, Distinct
  <2> QED BY <1>4, <1>5, <1>12, <2>1, <2>3 DEF RowsOK, BanksOK
<1>14. \A ref : (Stored(ref, banks) => Stored(ref, banks')) /\ (Stored(ref, payouts) => Stored(ref, payouts'))
  BY <1>4 DEF Stored
<1>15. AllExternal(banks', deployment'.currency)
  BY <1>0, <1>1, <1>10 DEF AllExternal
<1> QED BY <1>1, <1>8, <1>9, <1>11, <1>13, <1>14, <1>15 DEF RowsOK

LEMMA LeftIn ==
  ASSUME NEW table \in SUBSET ChargeRows, NEW doomed
  PROVE  Left(table, doomed) \in SUBSET ChargeRows
BY DEF Left, ChargeRows

LEMMA EmptyRows ==
  ASSUME NEW day
  PROVE  PayoutsOK({}) /\ BanksOK({}, day) /\ \A keys : Sole({}, keys) /\ AllExternal({}, keys)
BY FS_EmptySet DEF PayoutsOK, BanksOK, Distinct, Sole, AllExternal

LEMMA RowsClear ==
  ASSUME RowsOK, NEW q \in Requests, ClearPostgres(q) \/ ClearMemory(q)
  PROVE  RowsOK'
<1>1. today' = today
  BY Unmoved DEF ClearPostgres, ClearMemory
<1>2. payments' = {} /\ payouts' = {} /\ banks' = {}
  BY DEF ClearPostgres, ClearMemory, NoTables
<1>3. fees' \subseteq ChargeRows /\ refunds' \subseteq ChargeRows
  <2>1. CASE ClearMemory(q)
    BY <2>1 DEF ClearMemory, NoTables
  <2>2. CASE ClearPostgres(q)
    BY <2>2, LeftIn DEF ClearPostgres, RowsOK
  <2> QED BY <2>1, <2>2
<1> QED BY <1>1, <1>2, <1>3, EmptyRows DEF RowsOK

-----------------------------------------------------------------------------
(* A run gives no deposit to two payouts.                                  *)
LEMMA OrderCovers ==
  ASSUME NEW S, IsFiniteSet(S), NEW order \in SetToSeqs(S)
  PROVE  /\ \A p \in S : \E i \in DOMAIN order : order[i] = p
         /\ DOMAIN order = 1..Cardinality(S) /\ Cardinality(S) \in Nat
         /\ \A i \in DOMAIN order : order[i] \in S
<1> DEFINE n == Cardinality(S)
<1>1. n \in Nat
  BY FS_CardinalityType
<1>2. order \in [1..n -> S] /\ \A i, j \in 1..n : i # j => order[i] # order[j]
  BY DEF SetToSeqs
<1>3. IsFiniteSet(1..n) /\ Cardinality(1..n) = n
  BY <1>1, FS_Interval
<1> HIDE DEF n
<1>4. order \in Injection(1..n, S)
  BY <1>2 DEF Injection, IsInjective
<1>5. Cardinality(1..n) = Cardinality(S)
  BY <1>3 DEF n
<1>6. order \in Surjection(1..n, S)
  BY <1>4, <1>5, FS_Injection
<1> QED BY <1>1, <1>2, <1>6 DEF Surjection, n

LEMMA MatchingsApart ==
  ASSUME NEW s, IsFiniteSet(s.payouts), NEW m \in Matchings(s)
  PROVE  /\ m \in [s.payouts -> Credits(s) \cup {NoDeposit}]
         /\ \A p, o \in s.payouts : m[p] = m[o] /\ m[p] # NoDeposit => p = o
<1> DEFINE credits == Credits(s)
<1>1. m \in [s.payouts -> credits \cup {NoDeposit}]
  BY DEF Matchings
<1>2. PICK order \in SetToSeqs(s.payouts) : \A i \in DOMAIN order :
        LET taken == TakenFrom(credits \ {m[order[j]] : j \in 1..(i - 1)}, order[i])
        IN  IF taken = {} THEN m[order[i]] = NoDeposit ELSE m[order[i]] \in taken
  BY DEF Matchings
<1>3. /\ \A p \in s.payouts : \E i \in DOMAIN order : order[i] = p
      /\ DOMAIN order = 1..Cardinality(s.payouts) /\ Cardinality(s.payouts) \in Nat
  BY OrderCovers
<1>4. \A left, p : TakenFrom(left, p) \subseteq left
  BY DEF TakenFrom
<1>5. ASSUME NEW i \in DOMAIN order, m[order[i]] # NoDeposit
      PROVE  m[order[i]] \notin {m[order[j]] : j \in 1..(i - 1)}
  BY <1>2, <1>4, <1>5
<1>6. ASSUME NEW i \in DOMAIN order, NEW j \in DOMAIN order, j < i, m[order[i]] # NoDeposit
      PROVE  m[order[j]] # m[order[i]]
  <2>1. j \in 1..(i - 1)
    BY <1>3, <1>6
  <2> QED BY <2>1, <1>5, <1>6
<1>7. ASSUME NEW p \in s.payouts, NEW o \in s.payouts, m[p] = m[o], m[p] # NoDeposit
      PROVE  p = o
  <2>1. PICK i \in DOMAIN order : order[i] = p
    BY <1>3
  <2>2. PICK j \in DOMAIN order : order[j] = o
    BY <1>3
  <2>3. ~ (j < i) /\ ~ (i < j)
    BY <1>6, <1>7, <2>1, <2>2
  <2>4. i = j
    BY <1>3, <2>3
  <2> QED BY <2>1, <2>2, <2>4
<1> QED BY <1>1, <1>7

-----------------------------------------------------------------------------
(* What runs refer to.                                                     *)
Cut == [payout |-> <<>>, deposit |-> <<>>]
MatchesOK(ms) ==
  /\ \A m \in ms : /\ DOMAIN m = {"payout", "deposit"}
                   /\ m # Cut => Stored(m.payout, payouts) /\ Stored(m.deposit, banks)
  /\ \A m, n \in ms : m.deposit = n.deposit => m = n

RunsOK ==
  \A r \in runs : DOMAIN r = {"id", "matches"} /\ r.id \in Ids /\ MatchesOK(r.matches)

LEMMA RunsStay ==
  ASSUME RunsOK, UNCHANGED runs,
         \A ref : (Stored(ref, payouts) => Stored(ref, payouts')) /\ (Stored(ref, banks) => Stored(ref, banks'))
  PROVE  RunsOK'
<1>1. \A ms : MatchesOK(ms) => MatchesOK(ms)'
  BY DEF MatchesOK
<1> QED BY <1>1 DEF RunsOK

(* A run over good rows.                                                   *)
LEMMA RunOK ==
  ASSUME NEW s, PayoutsOK(s.payouts), NEW day, BanksOK(s.banks, day), NEW m \in Matchings(s),
         Room, \A x \in RunOf(s, m).matches : ForeignKeys(x)
  PROVE  LET run == RunOf(s, m) IN
         DOMAIN run = {"id", "matches"} /\ run.id \in Ids /\ MatchesOK(run.matches)
<1> DEFINE run == RunOf(s, m)
           of == {p \in s.payouts : m[p] # NoDeposit}
<1>1. /\ run.id = NewIn("runs") /\ DOMAIN run = {"id", "matches"}
      /\ run.matches = {[payout |-> Ref(p), deposit |-> Ref(m[p])] : p \in of}
  BY DEF RunOf
<1>2. run.id \in Ids
  BY <1>1, NewInIds DEF Tables
<1>3. \A x \in run.matches : ForeignKeys(x)
  OBVIOUS
<1> HIDE DEF run, of
<1>4. \A x \in run.matches : DOMAIN x = {"payout", "deposit"} /\ Stored(x.payout, payouts) /\ Stored(x.deposit, banks)
  BY <1>1, <1>3 DEF ForeignKeys
<1>5. ASSUME NEW x \in run.matches, NEW y \in run.matches, x.deposit = y.deposit
      PROVE  x = y
  <2>1. PICK p \in of : x = [payout |-> Ref(p), deposit |-> Ref(m[p])]
    BY <1>1
  <2>2. PICK o \in of : y = [payout |-> Ref(o), deposit |-> Ref(m[o])]
    BY <1>1
  <2>3. p \in s.payouts /\ o \in s.payouts /\ m[p] # NoDeposit /\ m[o] # NoDeposit
    BY DEF of
  <2>4. IsFiniteSet(s.payouts)
    BY DEF PayoutsOK
  <2>5. /\ m[p] \in Credits(s) /\ m[o] \in Credits(s)
        /\ \A a, b \in s.payouts : m[a] = m[b] /\ m[a] # NoDeposit => a = b
    BY <2>3, <2>4, MatchingsApart
  <2>6. Ref(m[p]) = Ref(m[o])
    BY <1>5, <2>1, <2>2
  <2>7. m[p] \in s.banks /\ m[o] \in s.banks
    BY <2>5 DEF Credits
  <2>8. m[p].key = m[o].key /\ m[p].id = m[o].id
    BY <2>6 DEF Ref
  <2>9. m[p] = m[o]
    BY <2>7, <2>8 DEF BanksOK, Distinct
  <2>10. p = o
    BY <2>3, <2>5, <2>9
  <2> QED BY <2>1, <2>2, <2>10
<1>6. MatchesOK(run.matches)
  BY <1>4, <1>5 DEF MatchesOK
<1> QED BY <1>1, <1>2, <1>6 DEF run

LEMMA RunsReconcile ==
  ASSUME RunsOK, RowsOK, NEW q \in Requests, Reconcile(q),
         PayoutsOK(job[q].snap.payouts), BanksOK(job[q].snap.banks, today)
  PROVE  RunsOK'
<1>0. PICK s \in {Listed(IF Postgres THEN job[q].snap ELSE Books)} : \E m \in Matchings(s) :
        LET run == RunOf(s, m) IN
        runs' = IF \A x \in run.matches : ForeignKeys(x) THEN runs \cup {run} ELSE runs
  BY DEF Reconcile
<1>1. PICK m \in Matchings(s) :
        LET run == RunOf(s, m) IN
        runs' = IF \A x \in run.matches : ForeignKeys(x) THEN runs \cup {run} ELSE runs
  BY <1>0
<1>2. \/ s.payouts = job[q].snap.payouts /\ s.banks = job[q].snap.banks
      \/ s.payouts = payouts /\ s.banks = banks
  BY DEF Listed, Books
<1>3. PayoutsOK(s.payouts) /\ BanksOK(s.banks, today)
  BY <1>2 DEF RowsOK
<1>4. Room /\ payouts' = payouts /\ banks' = banks
  BY DEF Reconcile, tables
<1>5. \A ms : MatchesOK(ms) => MatchesOK(ms)'
  BY <1>4 DEF MatchesOK
<1>6. CASE runs' = runs
  BY <1>5, <1>6 DEF RunsOK
<1>7. CASE (\A x \in RunOf(s, m).matches : ForeignKeys(x)) /\ runs' = runs \cup {RunOf(s, m)}
  <2> DEFINE run == RunOf(s, m)
  <2>1. DOMAIN run = {"id", "matches"} /\ run.id \in Ids /\ MatchesOK(run.matches)
    BY <1>3, <1>4, <1>7, RunOK
  <2>2. runs' = runs \cup {run}
    BY <1>7
  <2> HIDE DEF run
  <2> QED BY <1>5, <2>1, <2>2 DEF RunsOK
<1> QED BY <1>1, <1>6, <1>7

LEMMA RunsClear ==
  ASSUME RunsOK, NEW q \in Requests, ClearPostgres(q) \/ ClearMemory(q)
  PROVE  RunsOK'
<1>1. CASE ClearMemory(q)
  BY <1>1 DEF ClearMemory, RunsOK
<1>2. CASE ClearPostgres(q)
  <2> DEFINE cut(r) == [r EXCEPT !.matches = {[payout |-> <<>>, deposit |-> <<>>] : m \in @}]
  <2>1. \A r \in runs' : \E o \in runs : r = cut(o)
    BY <1>2 DEF ClearPostgres
  <2>2. ASSUME NEW o \in runs
        PROVE  DOMAIN cut(o) = {"id", "matches"} /\ cut(o).id \in Ids /\ \A m \in cut(o).matches : m = Cut
    BY DEF RunsOK, Cut
  <2>3. ASSUME NEW ms, \A m \in ms : m = Cut PROVE MatchesOK(ms)'
    BY <2>3 DEF MatchesOK, Cut
  <2> HIDE DEF cut
  <2> QED BY <2>1, <2>2, <2>3 DEF RunsOK
<1> QED BY <1>1, <1>2

-----------------------------------------------------------------------------
(* What requests hold.                                                     *)
StepNames ==
  {"payments", "payouts", "banks", "fees", "refunds", "answer", "stripe", "amount", "bank", "match",
   "runs", "links", "clear", "check", "seed"}

JobOK(j) ==
  /\ DOMAIN j = {"kind", "todo", "snap", "amount", "alone", "doomed"}
  /\ DOMAIN j.snap = {"payments", "payouts", "banks", "fees", "refunds"}
  /\ DOMAIN j.doomed = {"runs", "fees", "refunds"}
  /\ j.amount \in Nat
  /\ PayoutsOK(j.snap.payouts) /\ BanksOK(j.snap.banks, today)
  /\ \/ j = Idle
     \/ j.kind \in deployment.load /\ j.todo \in Seq(StepNames) /\ j.todo # <<>>

JobsOK == DOMAIN job = Requests /\ \A q \in Requests : JobOK(job[q])

LEMMA TailOK ==
  ASSUME NEW S, NEW t \in Seq(S), t # <<>>, Len(t) # 1
  PROVE  /\ Tail(t) \in Seq(S) /\ Tail(t) # <<>> /\ Len(Tail(t)) = Len(t) - 1 /\ Len(t) \in Nat
         /\ \A i \in 1..(Len(t) - 1) : Tail(t)[i] = t[i + 1]
         /\ DOMAIN t = 1..Len(t) /\ DOMAIN Tail(t) = 1..(Len(t) - 1)
<1>1. Len(t) \in Nat /\ DOMAIN t = 1..Len(t) /\ Len(t) # 0
  OBVIOUS
<1>2. Tail(t) \in Seq(S) /\ Len(Tail(t)) = Len(t) - 1 /\ \A i \in 1..(Len(t) - 1) : Tail(t)[i] = t[i + 1]
  BY <1>1
<1> QED BY <1>1, <1>2

LEMMA StepsOK ==
  ASSUME NEW kind \in DOMAIN Steps
  PROVE  Steps[kind] \in Seq(StepNames) /\ Steps[kind] # <<>>
<1>1. \A k \in DOMAIN Reports : Reports[k] \in Seq(StepNames) /\ Reports[k] # <<>>
  <2>1. Reports["explain"] \in Seq(StepNames) /\ Reports["explain"] # <<>>
    BY DEF Reports, StepNames
  <2>2. Reports["cash"] \in Seq(StepNames) /\ Reports["cash"] # <<>>
    BY DEF Reports, StepNames
  <2>3. Reports["month"] \in Seq(StepNames) /\ Reports["month"] # <<>>
    BY DEF Reports, StepNames
  <2>4. DOMAIN Reports = {"explain", "cash", "month"}
    BY DEF Reports
  <2> QED BY <2>1, <2>2, <2>3, <2>4
<1>2. \A k \in DOMAIN Writes : Writes[k] \in Seq(StepNames) /\ Writes[k] # <<>>
  <2>1. /\ <<"stripe">> \in Seq(StepNames) /\ <<"amount", "bank">> \in Seq(StepNames)
        /\ <<"payouts", "banks", "match">> \in Seq(StepNames) /\ <<"match">> \in Seq(StepNames)
    BY DEF StepNames
  <2>2. <<"clear", "check", "seed", "match">> \in Seq(StepNames) /\ <<"check", "seed", "match">> \in Seq(StepNames)
    BY DEF StepNames
  <2>3. <<"runs", "links", "clear", "stripe", "amount", "bank", "payouts", "banks", "match">> \in Seq(StepNames)
    BY DEF StepNames
  <2>4. CASE Postgres
    <3>1. /\ DOMAIN Writes = {"stripe", "bank", "stripe_job", "bank_job", "reconcile", "reset"}
          /\ Writes["stripe"] = <<"stripe">> /\ Writes["bank"] = <<"amount", "bank">>
          /\ Writes["stripe_job"] = <<"stripe">> /\ Writes["bank_job"] = <<"amount", "bank">>
          /\ Writes["reconcile"] = <<"payouts", "banks", "match">>
      BY <2>4 DEF Writes
    <3>2. Writes["reset"] = <<"runs", "links", "clear", "stripe", "amount", "bank", "payouts", "banks", "match">>
      BY <2>4 DEF Writes
    <3>3. /\ Writes["stripe"] # <<>> /\ Writes["bank"] # <<>>
          /\ Writes["stripe_job"] # <<>> /\ Writes["bank_job"] # <<>>
          /\ Writes["reconcile"] # <<>> /\ Writes["reset"] # <<>>
      BY <3>1, <3>2
    <3> QED BY <3>1, <3>2, <3>3, <2>1, <2>3
  <2>5. CASE ~ Postgres
    <3>1. /\ DOMAIN Writes = {"stripe", "bank", "reconcile", "reset", "seed"}
          /\ Writes["stripe"] = <<"stripe">> /\ Writes["bank"] = <<"amount", "bank">>
          /\ Writes["reconcile"] = <<"match">>
      BY <2>5 DEF Writes
    <3>2. /\ Writes["reset"] = <<"clear", "check", "seed", "match">>
          /\ Writes["seed"] = <<"check", "seed", "match">>
      BY <2>5 DEF Writes
    <3>3. /\ Writes["stripe"] # <<>> /\ Writes["bank"] # <<>> /\ Writes["seed"] # <<>>
          /\ Writes["reconcile"] # <<>> /\ Writes["reset"] # <<>>
      BY <3>1, <3>2
    <3> QED BY <3>1, <3>2, <3>3, <2>1, <2>2
  <2> QED BY <2>4, <2>5
<1>3. <<"answer">> \in Seq(StepNames) /\ <<"answer">> # <<>>
  BY DEF StepNames
<1> QED BY <1>1, <1>2, <1>3 DEF Steps

LEMMA PutBack ==
  ASSUME NEW f, f = [x \in DOMAIN f |-> f[x]], NEW a, NEW v, f[a] = v
  PROVE  [f EXCEPT ![a] = v] = f
OBVIOUS

LEMMA IdleOK == JobOK(Idle) /\ Idle.kind = None /\ Idle.todo = <<>>
BY EmptyRows DEF JobOK, Idle, NoBooks

LEMMA Kinds ==
  ASSUME Placed
  PROVE  None \notin deployment.load
BY DeploymentsAssumption DEF Placed, None

LEMMA Working ==
  ASSUME NEW q, NEW step, At(q, step)
  PROVE  job[q] # Idle
BY IdleOK DEF At

(* A step leaves good jobs if what it holds is good.                       *)
LEMMA GoesOK ==
  ASSUME JobsOK, NEW q \in Requests, NEW j, Goes(q, j), UNCHANGED <<deployment, date>>,
         JobOK(j), j.todo \in Seq(StepNames), j.todo # <<>>, j.kind \in deployment.load
  PROVE  JobsOK'
<1>1. today' = today
  BY Unmoved
<1>2. \A x : JobOK(x) => JobOK(x)'
  BY <1>1 DEF JobOK
<1> DEFINE new == IF Len(j.todo) = 1 THEN Idle ELSE [j EXCEPT !.todo = Tail(@)]
<1>3. JobOK(new)
  <2>1. CASE Len(j.todo) = 1
    BY <2>1, IdleOK
  <2>2. CASE Len(j.todo) # 1
    <3> DEFINE k == [j EXCEPT !.todo = Tail(@)]
    <3>1. /\ k.kind = j.kind /\ k.snap = j.snap /\ k.amount = j.amount /\ k.doomed = j.doomed
          /\ k.todo = Tail(j.todo) /\ DOMAIN k = DOMAIN j
      BY DEF JobOK
    <3>3. Tail(j.todo) \in Seq(StepNames) /\ Tail(j.todo) # <<>>
      BY <2>2, TailOK
    <3> HIDE DEF k
    <3>4. JobOK(k)
      BY <3>1, <3>3 DEF JobOK
    <3> QED BY <2>2, <3>4 DEF k
  <2> QED BY <2>1, <2>2
<1>4. job' = [job EXCEPT ![q] = new]
  BY DEF Goes
<1> HIDE DEF new
<1> QED BY <1>2, <1>3, <1>4 DEF JobsOK

LEMMA EndsOK ==
  ASSUME JobsOK, NEW q \in Requests, Ends(q), UNCHANGED <<deployment, date>>
  PROVE  JobsOK'
<1>1. today' = today
  BY Unmoved
<1>2. \A x : JobOK(x) => JobOK(x)'
  BY <1>1 DEF JobOK
<1> QED BY <1>2, IdleOK DEF JobsOK, Ends

(* What a request at work has.                                             *)
LEMMA JobIs ==
  ASSUME JobsOK, NEW q \in Requests, job[q] # Idle
  PROVE  JobOK(job[q]) /\ job[q].kind \in deployment.load /\ job[q].todo \in Seq(StepNames)
         /\ job[q].todo # <<>>
BY DEF JobsOK, JobOK

LEMMA DoesOK ==
  ASSUME JobsOK, NEW q \in Requests, NEW step, At(q, step), Does(q), UNCHANGED <<deployment, date>>
  PROVE  JobsOK'
<1>1. job[q] # Idle
  BY Working
<1> QED BY <1>1, JobIs, GoesOK DEF Does

LEMMA JobsBegin ==
  ASSUME JobsOK, Placed, NEW q \in Requests, NEW kind, Begin(q, kind), RowsOK
  PROVE  JobsOK'
<1>1. UNCHANGED <<deployment, date>> /\ today' = today
  BY Unmoved DEF Begin
<1>2. \A x : JobOK(x) => JobOK(x)'
  BY <1>1 DEF JobOK
<1> DEFINE snap == IF ~ Postgres /\ kind \in DOMAIN Reports THEN Books ELSE NoBooks
           new == [Idle EXCEPT !.kind = kind, !.todo = Steps[kind], !.alone = AtWork = {}, !.snap = snap]
<1>3. /\ DOMAIN new = {"kind", "todo", "snap", "amount", "alone", "doomed"}
      /\ new.kind = kind /\ new.todo = Steps[kind] /\ new.snap = snap
      /\ new.amount = 0 /\ new.doomed = Idle.doomed
  BY DEF Idle
<1>4. DOMAIN snap = {"payments", "payouts", "banks", "fees", "refunds"}
      /\ PayoutsOK(snap.payouts) /\ BanksOK(snap.banks, today)
  BY EmptyRows DEF Books, NoBooks, RowsOK
<1>5. kind \in deployment.load /\ kind \in DOMAIN Steps
  BY DEF Begin
<1>6. DOMAIN Idle.doomed = {"runs", "fees", "refunds"}
  BY DEF Idle
<1> HIDE DEF snap
<1>7. \A r \in Requests : job'[r] = IF r = q THEN new ELSE [job[r] EXCEPT !.alone = r \notin AtWork]
  BY DEF Begin, snap
<1> HIDE DEF new
<1>8. JobOK(new)
  BY <1>3, <1>4, <1>5, <1>6, StepsOK DEF JobOK
<1>9. ASSUME NEW r \in Requests, r # q PROVE JobOK(job'[r])
  <2> DEFINE k == [job[r] EXCEPT !.alone = r \notin AtWork]
  <2>1. job'[r] = k
    BY <1>7, <1>9
  <2>2. CASE job[r] = Idle
    <3>1. (r \notin AtWork) = TRUE
      BY <2>2 DEF AtWork
    <3>a. [Idle EXCEPT !.alone = TRUE] = Idle
      <4>1. Idle = [x \in DOMAIN Idle |-> Idle[x]]
        BY DEF Idle
      <4>2. Idle["alone"] = TRUE
        BY DEF Idle
      <4> QED BY <4>1, <4>2, PutBack
    <3>2. k = Idle
      BY <2>2, <3>1, <3>a, Zenon
    <3> QED BY <2>1, <3>2, IdleOK
  <2>3. CASE job[r] # Idle
    <3>1. JobOK(job[r]) /\ job[r].kind \in deployment.load /\ job[r].todo \in Seq(StepNames)
          /\ job[r].todo # <<>>
      BY <2>3, JobIs
    <3>2. /\ k.kind = job[r].kind /\ k.snap = job[r].snap /\ k.amount = job[r].amount
          /\ k.doomed = job[r].doomed /\ k.todo = job[r].todo /\ DOMAIN k = DOMAIN job[r]
      BY <3>1 DEF JobOK
    <3> HIDE DEF k
    <3>3. JobOK(k)
      BY <3>1, <3>2 DEF JobOK
    <3> QED BY <2>1, <3>3
  <2> QED BY <2>2, <2>3
<1>10. DOMAIN job' = Requests
  BY DEF Begin
<1>11. job'[q] = new
  BY <1>7
<1> QED BY <1>2, <1>8, <1>9, <1>10, <1>11 DEF JobsOK

LEMMA JobsRead ==
  ASSUME JobsOK, RowsOK, NEW q \in Requests, NEW table \in DOMAIN Books, Read(q, table)
  PROVE  JobsOK'
<1>1. job[q] # Idle
  BY Working DEF Read
<1>2. JobOK(job[q]) /\ job[q].kind \in deployment.load /\ job[q].todo \in Seq(StepNames) /\ job[q].todo # <<>>
  BY <1>1, JobIs
<1> DEFINE j == [job[q] EXCEPT !.snap[table] = Books[table]]
<1>3. table \in {"payments", "payouts", "banks", "fees", "refunds"}
      /\ Books["payouts"] = payouts /\ Books["banks"] = banks
  BY DEF Books
<1>4. /\ DOMAIN j = DOMAIN job[q] /\ j.kind = job[q].kind /\ j.todo = job[q].todo
      /\ j.amount = job[q].amount /\ j.doomed = job[q].doomed
      /\ DOMAIN j.snap = DOMAIN job[q].snap
      /\ j.snap.payouts = (IF table = "payouts" THEN payouts ELSE job[q].snap.payouts)
      /\ j.snap.banks = (IF table = "banks" THEN banks ELSE job[q].snap.banks)
  BY <1>2, <1>3 DEF JobOK
<1>5. Goes(q, j) /\ UNCHANGED <<deployment, date>>
  BY DEF Read
<1> HIDE DEF j
<1>6. PayoutsOK(j.snap.payouts) /\ BanksOK(j.snap.banks, today)
  BY <1>2, <1>4 DEF JobOK, RowsOK
<1>7. JobOK(j)
  BY <1>2, <1>4, <1>6 DEF JobOK
<1> QED BY <1>2, <1>4, <1>5, <1>7, GoesOK

LEMMA JobsAmount ==
  ASSUME JobsOK, RowsOK, NEW q \in Requests, ReadAmount(q)
  PROVE  JobsOK'
<1>1. job[q] # Idle
  BY Working DEF ReadAmount
<1>2. JobOK(job[q]) /\ job[q].kind \in deployment.load /\ job[q].todo \in Seq(StepNames) /\ job[q].todo # <<>>
  BY <1>1, JobIs
<1>3. \A p \in payouts : p.amount \in Nat
  BY DEF RowsOK, PayoutsOK, PayoutRows
<1>4. PICK amount \in Nat : Goes(q, [job[q] EXCEPT !.amount = amount])
  BY <1>3 DEF ReadAmount, DefaultPayout
<1> DEFINE j == [job[q] EXCEPT !.amount = amount]
<1>5. /\ DOMAIN j = DOMAIN job[q] /\ j.kind = job[q].kind /\ j.todo = job[q].todo
      /\ j.amount \in Nat /\ j.doomed = job[q].doomed /\ j.snap = job[q].snap
  BY <1>2 DEF JobOK
<1>6. Goes(q, j) /\ UNCHANGED <<deployment, date>>
  BY <1>4 DEF ReadAmount
<1> HIDE DEF j
<1>7. JobOK(j)
  BY <1>2, <1>5 DEF JobOK
<1> QED BY <1>2, <1>5, <1>6, <1>7, GoesOK

LEMMA JobsDelete ==
  ASSUME JobsOK, NEW q \in Requests, DeleteRuns(q) \/ DeleteLinks(q) \/ ClearPostgres(q)
  PROVE  JobsOK'
<1>1. job[q] # Idle
  BY Working DEF DeleteRuns, DeleteLinks, ClearPostgres
<1>2. JobOK(job[q]) /\ job[q].kind \in deployment.load /\ job[q].todo \in Seq(StepNames) /\ job[q].todo # <<>>
  BY <1>1, JobIs
<1>3. PICK j : /\ j \in {[job[q] EXCEPT !.doomed.runs = runs],
                         [job[q] EXCEPT !.doomed.fees = fees, !.doomed.refunds = refunds],
                         [job[q] EXCEPT !.doomed = Idle.doomed]}
               /\ Goes(q, j) /\ UNCHANGED <<deployment, date>>
  BY DEF DeleteRuns, DeleteLinks, ClearPostgres
<1>4. DOMAIN Idle.doomed = {"runs", "fees", "refunds"}
  BY DEF Idle
<1>5. /\ DOMAIN j = DOMAIN job[q] /\ j.kind = job[q].kind /\ j.todo = job[q].todo
      /\ j.amount = job[q].amount /\ j.snap = job[q].snap
      /\ DOMAIN j.doomed = {"runs", "fees", "refunds"}
  BY <1>2, <1>3, <1>4 DEF JobOK
<1>6. JobOK(j)
  BY <1>2, <1>5 DEF JobOK
<1> QED BY <1>2, <1>3, <1>5, <1>6, GoesOK

LEMMA JobsDo ==
  ASSUME JobsOK, NEW q \in Requests,
         Answer(q) \/ SyncStripeDemo(q) \/ syncStripeMock(q) \/ SyncBank(q) \/ ClearMemory(q)
           \/ Check(q) \/ Seed(q) \/ Reconcile(q) \/ Fail(q)
  PROVE  JobsOK'
<1>1. UNCHANGED <<deployment, date>>
  BY DEF Answer, SyncStripeDemo, syncStripeMock, SyncBank, ClearMemory, Check, Seed, Reconcile, Fail
<1>2. Ends(q) \/ (Does(q) /\ \E step \in StepNames : At(q, step))
  BY DEF Answer, SyncStripeDemo, syncStripeMock, SyncBank, ClearMemory, Check, Seed, Reconcile, Fail,
         StepNames
<1>3. CASE Ends(q)
  BY <1>1, <1>3, EndsOK
<1>4. CASE Does(q) /\ \E step \in StepNames : At(q, step)
  BY <1>1, <1>4, DoesOK
<1> QED BY <1>2, <1>3, <1>4

(* As days pass, what is listed is older.                                  *)
LEMMA Later ==
  ASSUME Placed, Tomorrow
  PROVE  Placed' /\ today' \in Nat /\ today <= today' /\ (Postgres' <=> Postgres)
<1>1. Days \in Seq(Nat) /\ \A i, j \in DOMAIN Days : i < j => Days[i] < Days[j]
  BY DaysAssumption
<1>2. date \in DOMAIN Days /\ date < Len(Days) /\ date' = date + 1 /\ deployment' = deployment
  BY DEF Placed, Tomorrow
<1>3. date' \in DOMAIN Days /\ date \in Nat /\ date < date'
  BY <1>1, <1>2
<1>4. Days[date] \in Nat /\ Days[date'] \in Nat /\ Days[date] < Days[date']
  BY <1>1, <1>2, <1>3
<1> QED BY <1>2, <1>3, <1>4 DEF Placed, today, Postgres

LEMMA BanksLater ==
  ASSUME NEW rows, NEW day \in Nat, NEW later \in Nat, day <= later, BanksOK(rows, day)
  PROVE  BanksOK(rows, later)
<1>1. \A b \in rows : b.day \in Int
  BY DEF BanksOK, BankRows
<1> QED BY <1>1 DEF BanksOK

LEMMA JobsLater ==
  ASSUME Placed, JobsOK, RowsOK, Tomorrow
  PROVE  JobsOK' /\ RowsOK'
<1>1. today \in Nat /\ today' \in Nat /\ today <= today'
  BY Places, Later
<1>2. UNCHANGED <<deployment, tables, job>>
  BY DEF Tomorrow
<1>3. \A rows : BanksOK(rows, today) => BanksOK(rows, today')
  BY <1>1, BanksLater
<1>4. \A x : JobOK(x) => JobOK(x)'
  BY <1>2, <1>3 DEF JobOK
<1>5. JobsOK'
  BY <1>2, <1>4 DEF JobsOK
<1>6. RowsOK'
  BY <1>1, <1>2, <1>3 DEF RowsOK, tables
<1> QED BY <1>5, <1>6

-----------------------------------------------------------------------------
(* The rows of a table that have some keys, and what is stored over them.  *)
Among(table, keys) == {r \in table : r.key \in keys}

LEMMA UpsertedAmong ==
  ASSUME NEW table, NEW rows, NEW keys, {r.key : r \in rows} \subseteq keys,
         \A x, y \in Among(table, keys) : x.key = y.key => x = y,
         \A r \in rows : \A i : [r EXCEPT !.id = i].key = r.key
  PROVE  /\ Among(Upserted(table, rows), keys) = Upserted(Among(table, keys), rows)
         /\ \A other : other \cap keys = {} => Among(Upserted(table, rows), other) = Among(table, other)
         /\ \A r \in rows : IdOf(table, r) = IdOf(Among(table, keys), r)
<1> DEFINE part == Among(table, keys)
           own == {r.key : r \in rows}
           put(t) == {[r EXCEPT !.id = IdOf(t, r)] : r \in rows}
<1>1. ASSUME NEW r \in rows PROVE IdOf(table, r) = IdOf(part, r)
  <2>0. r.key \in keys
    OBVIOUS
  <2>1. CASE ~ \E x \in table : x.key = r.key
    <3>1. ~ \E x \in part : x.key = r.key
      BY <2>1 DEF Among
    <3> HIDE DEF part
    <3> QED BY <2>1, <3>1 DEF IdOf
  <2>2. CASE \E x \in table : x.key = r.key
    <3>1. PICK x \in table : x.key = r.key
      BY <2>2
    <3>2. x \in part /\ \A y \in part : y.key = r.key => y = x
      BY <2>0, <3>1 DEF Among
    <3>3. \A y \in table : y.key = r.key => y = x
      BY <2>0, <3>2 DEF Among
    <3> HIDE DEF part
    <3>4. (CHOOSE y \in table : y.key = r.key) = x
      BY <3>1, <3>3
    <3>5. (CHOOSE y \in part : y.key = r.key) = x
      BY <3>1, <3>2
    <3> QED BY <3>1, <3>2, <3>4, <3>5 DEF IdOf
  <2> QED BY <2>1, <2>2
<1>2. put(table) = put(part)
  BY <1>1
<1>3. ASSUME NEW x \in put(table) PROVE x.key \in own
  <2>1. PICK r \in rows : x = [r EXCEPT !.id = IdOf(table, r)]
    OBVIOUS
  <2>2. x.key = r.key
    BY <2>1
  <2> QED BY <2>2
<1>4. \A t : Upserted(t, rows) = {x \in t : x.key \notin own} \cup put(t)
  BY DEF Upserted
<1>5. own \subseteq keys
  OBVIOUS
<1> HIDE DEF put, own
<1>6. Among(Upserted(table, rows), keys) = Upserted(part, rows)
  <2>1. Upserted(table, rows) = {x \in table : x.key \notin own} \cup put(table)
    BY <1>4
  <2>2. Upserted(part, rows) = {x \in part : x.key \notin own} \cup put(table)
    BY <1>2, <1>4
  <2> QED BY <1>3, <1>5, <2>1, <2>2 DEF Among
<1>7. ASSUME NEW other, other \cap keys = {}
      PROVE  Among(Upserted(table, rows), other) = Among(table, other)
  <2>1. Upserted(table, rows) = {x \in table : x.key \notin own} \cup put(table)
    BY <1>4
  <2> QED BY <1>3, <1>5, <1>7, <2>1 DEF Among
<1> QED BY <1>1, <1>6, <1>7

LEMMA UpsertedKeys ==
  ASSUME NEW table, NEW rows, \A r \in rows : \A i : [r EXCEPT !.id = i].key = r.key
  PROVE  \A x \in Upserted(table, rows) : x \in table \/ x.key \in {r.key : r \in rows}
<1> TAKE x \in Upserted(table, rows)
<1>1. CASE x \in table
  BY <1>1
<1>2. CASE x \notin table
  <2>1. PICK r \in rows : x = [r EXCEPT !.id = IdOf(table, r)]
    BY <1>2 DEF Upserted
  <2>2. x.key = r.key
    BY <2>1
  <2> QED BY <2>2
<1> QED BY <1>1, <1>2

-----------------------------------------------------------------------------
(* Over Postgres a table holds of either sample all or nothing, but for    *)
(* the fees and refunds that a reset leaves; and only what the type of the *)
(* organization brings and what the worker does.  The payout is of a       *)
(* sample whose payments are there.                                        *)
PaidOf(d) == Among(payments, LineKeys(d))
FeesOf(d) == Among(fees, LineKeys(d))
RefundsOf(d) == Among(refunds, LineKeys(d))
BanksOf(d) == Among(banks, BankKeys[d])

Named(d, of) == of = 0 \/ PaidOf(d) = Paid(d, of)
PaidWhole(d) == PaidOf(d) = {} \/ \E id \in Ids : PaidOf(d) = Paid(d, id)
FeesWhole(d) ==
  FeesOf(d) = {} \/ \E id \in Ids, of \in Ids \cup {0} : FeesOf(d) = Charged(d, id, of) /\ Named(d, of)
RefundsWhole(d) ==
  RefundsOf(d) = {} \/ \E id \in Ids, of \in Ids \cup {0} : RefundsOf(d) = {Refund(d, id, of)} /\ Named(d, of)
BanksWhole(d) ==
  BanksOf(d) = {} \/ \E id \in Ids, n \in Nat, day \in Nat, cur \in Currencies :
                       BanksOf(d) = Posted(d, n, id, day, cur)
WholeOf(d) ==
  /\ PaidWhole(d) /\ FeesWhole(d) /\ RefundsWhole(d) /\ BanksWhole(d)
  /\ PaidOf(d) # {} => FeesOf(d) # {} /\ RefundsOf(d) # {}

Lot == {"student", deployment.type}
Covered ==
  /\ \A r \in payments \cup fees \cup refunds : \E d \in Lot : r.key \in LineKeys(d)
  /\ \A b \in banks : \E d \in Lot : b.key \in BankKeys[d]
PayoutWhole ==
  \/ payouts = {} /\ items = EmptyBag /\ payments = {}
  \/ \E d \in Samples, id \in Ids, day \in Nat, cur \in Currencies :
       payouts = {Payout(d, id, day, cur)} /\ items = ItemsOf(d, id) /\ PaidOf(d) # {}

Whole ==
  IF Postgres
  THEN (\A d \in Samples : WholeOf(d)) /\ Covered /\ PayoutWhole
  ELSE items = EmptyBag

LEMMA WholeStay ==
  ASSUME Whole, UNCHANGED <<deployment, tables>>
  PROVE  Whole'
<1>1. UNCHANGED <<deployment, payments, fees, refunds, payouts, items, banks>>
  BY DEF tables
<1>2. \A d \in Samples : WholeOf(d) => WholeOf(d)'
  BY <1>1 DEF WholeOf, PaidWhole, FeesWhole, RefundsWhole, BanksWhole, PaidOf, FeesOf, RefundsOf,
              BanksOf, Named
<1>3. Covered => Covered'
  BY <1>1 DEF Covered, Lot
<1>4. PayoutWhole => PayoutWhole'
  BY <1>1 DEF PayoutWhole, PaidOf
<1> QED BY <1>1, <1>2, <1>3, <1>4 DEF Whole, Postgres

LEMMA LotIs ==
  ASSUME Placed
  PROVE  /\ Lot \subseteq Samples /\ \A q \in Requests : SampleOf(q) \in Lot
         /\ deployment.type = "student" => Lot = {"student"}
BY Places, SampleOK DEF Lot, Samples, SampleOf

(* Samples have lines and bank transactions of their own.                  *)
LEMMA SamplesApart ==
  /\ \A d, e \in Samples : d # e => LineKeys(d) \cap LineKeys(e) = {} /\ BankKeys[d] \cap BankKeys[e] = {}
  /\ \A d, e \in Data : \A k : k \in LineKeys(d) => k[1] = d
<1>1. \A d : \A k \in LineKeys(d) : k[1] = d
  BY DEF LineKeys
<1>2. \A d, e \in Samples : d # e => BankKeys[d] \cap BankKeys[e] = {}
  BY DEF Samples, BankKeys
<1> QED BY <1>1, <1>2

(* The rows of a sample have keys of their own.                            *)
LEMMA SampleKeys ==
  ASSUME NEW d \in Data, NEW id, NEW of
  PROVE  /\ \A x, y \in Paid(d, id) : x.key = y.key => x = y
         /\ \A x, y \in Charged(d, id, of) : x.key = y.key => x = y
         /\ \A x \in Paid(d, id) : \A i : [x EXCEPT !.id = i].key = x.key
         /\ \A x \in Charged(d, id, of) \cup {Refund(d, id, of)} : \A i : [x EXCEPT !.id = i].key = x.key
         /\ Paid(d, id) # {} /\ Charged(d, id, of) # {}
<1>1. /\ Paid(d, id) = {Payment(d, i, id) : i \in Lines(d)}
      /\ Charged(d, id, of) = {Fee(d, i, id, of) : i \in Lines(d)}
  BY DEF Paid, Charged, Lines
<1>2. /\ \A i : Payment(d, i, id).key = <<d, i>> /\ \A k : [Payment(d, i, id) EXCEPT !.id = k].key = <<d, i>>
      /\ \A i : Fee(d, i, id, of).key = <<d, i>> /\ \A k : [Fee(d, i, id, of) EXCEPT !.id = k].key = <<d, i>>
      /\ \A k : [Refund(d, id, of) EXCEPT !.id = k].key = Refund(d, id, of).key
  BY DEF Payment, Fee, Refund
<1>3. Lines(d) # {}
  BY ChargesOK
<1> QED BY <1>1, <1>2, <1>3

LEMMA WholeSole ==
  ASSUME NEW d \in Samples, WholeOf(d)
  PROVE  /\ \A x, y \in PaidOf(d) : x.key = y.key => x = y
         /\ \A x, y \in FeesOf(d) : x.key = y.key => x = y
         /\ \A x, y \in RefundsOf(d) : x.key = y.key => x = y
<1>1. d \in Data
  BY DEF Samples, Data
<1>2. \A x, y \in PaidOf(d) : x.key = y.key => x = y
  BY <1>1, SampleKeys DEF WholeOf, PaidWhole
<1>3. \A x, y \in FeesOf(d) : x.key = y.key => x = y
  <2>1. FeesOf(d) = {} \/ \E id \in Ids, of \in Ids \cup {0} : FeesOf(d) = Charged(d, id, of)
    BY DEF WholeOf, FeesWhole
  <2> QED BY <1>1, <2>1, SampleKeys
<1>4. \A x, y \in RefundsOf(d) : x.key = y.key => x = y
  BY DEF WholeOf, RefundsWhole
<1> QED BY <1>2, <1>3, <1>4

(* Fees and refunds that name the payments as they are stored.             *)
LEMMA OfStoredWhole ==
  ASSUME NEW d \in Data, NEW a, NEW b, NEW x, PaidOf(d)' = Paid(d, a)
  PROVE  /\ OfStored(Charged(d, b, x)) = Charged(d, b, a)
         /\ OfStored({Refund(d, b, x)}) = {Refund(d, b, a)}
<1>1. \A p \in Paid(d, a) : p.id = a
  BY DEF Paid, Payment
<1>2. ASSUME NEW key, key \in LineKeys(d) PROVE (CHOOSE p \in payments' : p.key = key).id = a
  <2>0. \A p : p \in Paid(d, a) <=> p \in payments' /\ p.key \in LineKeys(d)
    BY DEF PaidOf, Among
  <2>1. \E p \in payments' : p.key = key
    <3>1. {p.key : p \in Paid(d, a)} = LineKeys(d)
      BY PaidKeys
    <3> QED BY <1>2, <2>0, <3>1
  <2> DEFINE c == CHOOSE p \in payments' : p.key = key
  <2>2. c \in payments' /\ c.key = key
    BY <2>1
  <2> HIDE DEF c
  <2>3. c.id = a
    BY <1>1, <1>2, <2>0, <2>2
  <2> QED BY <2>3 DEF c
<1>3. ASSUME NEW i \in Lines(d)
      PROVE  [Fee(d, i, b, x) EXCEPT !.of = (CHOOSE p \in payments' : p.key = Fee(d, i, b, x).key).id]
               = Fee(d, i, b, a)
  <2>1. Fee(d, i, b, x).key = <<d, i>> /\ <<d, i>> \in LineKeys(d)
    BY DEF Fee, LineKeys
  <2>2. (CHOOSE p \in payments' : p.key = Fee(d, i, b, x).key).id = a
    BY <1>2, <2>1
  <2>3. [Fee(d, i, b, x) EXCEPT !.of = a] = Fee(d, i, b, a)
    BY DEF Fee
  <2> QED BY <2>2, <2>3
<1>4. OfStored(Charged(d, b, x)) = Charged(d, b, a)
  <2>1. \A k : Charged(d, b, k) = {Fee(d, i, b, k) : i \in Lines(d)}
    BY DEF Charged, Lines
  <2>2. OfStored(Charged(d, b, x))
          = {[Fee(d, i, b, x) EXCEPT !.of = (CHOOSE p \in payments' : p.key = Fee(d, i, b, x).key).id] :
               i \in Lines(d)}
    BY <2>1 DEF OfStored
  <2> QED BY <1>3, <2>1, <2>2
<1>5. OfStored({Refund(d, b, x)}) = {Refund(d, b, a)}
  <2>1. (CHOOSE p \in payments' : p.key = Refund(d, b, x).key).id = a
    BY <1>2, PaidKeys
  <2>2. [Refund(d, b, x) EXCEPT !.of = a] = Refund(d, b, a)
    BY DEF Refund
  <2>3. OfStored({Refund(d, b, x)})
          = {[Refund(d, b, x) EXCEPT !.of = (CHOOSE p \in payments' : p.key = Refund(d, b, x).key).id]}
    BY DEF OfStored
  <2> QED BY <2>1, <2>2, <2>3
<1> QED BY <1>4, <1>5

(* The items of a payout.                                                  *)
ItemRows(d, payout) ==
  {[payout |-> payout, kind |-> "payment", key |-> p.key, amount |-> p.amount] : p \in Paid(d, 1)}
    \cup {[payout |-> payout, kind |-> "fee", key |-> f.key, amount |-> -f.amount] : f \in Charged(d, 1, 1)}
    \cup {[payout |-> payout, kind |-> "refund", key |-> r.key, amount |-> -r.amount] : r \in {Refund(d, 1, 1)}}

LEMMA ItemsAre ==
  ASSUME NEW d \in Data, NEW payout
  PROVE  /\ ItemsOf(d, payout) = [i \in ItemRows(d, payout) |-> 1]
         /\ \A i \in ItemRows(d, payout) : i.payout = payout
BY DEF ItemsOf, ItemRows, SetToBag

LEMMA ItemsReplaced ==
  ASSUME NEW d \in Data, NEW payout, items = EmptyBag \/ \E e \in Data : items = ItemsOf(e, payout)
  PROVE  replacePayoutItems(d, payout) = ItemsOf(d, payout)
<1>1. \A i \in DOMAIN items : i.payout = payout
  <2>1. CASE items = EmptyBag
    BY <2>1 DEF EmptyBag, SetToBag
  <2>2. CASE \E e \in Data : items = ItemsOf(e, payout)
    BY <2>2, ItemsAre
  <2> QED BY <2>1, <2>2
<1>2. {i \in DOMAIN items : i.payout # payout} = {}
  BY <1>1
<1> DEFINE none == Restrict(items, {i \in DOMAIN items : i.payout # payout})
           new == ItemsOf(d, payout)
<1>3. DOMAIN none = {}
  BY <1>2 DEF Restrict
<1>4. DOMAIN new = ItemRows(d, payout) /\ new = [i \in ItemRows(d, payout) |-> 1]
  BY ItemsAre
<1>5. replacePayoutItems(d, payout) = none (+) new
  BY DEF replacePayoutItems
<1> HIDE DEF none, new
<1>6. none (+) new = [e \in DOMAIN new |-> 0 + new[e]]
  BY <1>3 DEF (+)
<1>7. [e \in DOMAIN new |-> 0 + new[e]] = new
  BY <1>4
<1> QED BY <1>5, <1>6, <1>7 DEF new

(* A sync that stores one sample over its rows, with the other as it was.  *)
LEMMA WholeSync ==
  ASSUME Whole, Placed, Postgres, NEW q \in Requests, SyncStripeDemo(q)
  PROVE  /\ Whole'
         /\ \E id, cur : payouts' = {Payout(SampleOf(q), id, today, cur)}
         /\ \A k \in {r.key : r \in payments} : k \in {r.key : r \in payments'}
<1>0. PICK d : d = SampleOf(q)
  OBVIOUS
<1> DEFINE cur == CurrencyOf(q)
           p == NewIn("payments")
           f == NewIn("fees")
           r == NewIn("refunds")
           o == NewIn("payouts")
<1>1. /\ Room /\ deployment' = deployment /\ banks' = banks
      /\ payments' = Upserted(payments, Paid(d, p))
      /\ refunds' = Upserted(refunds, OfStored({Refund(d, r, p)}))
      /\ fees' = Upserted(fees, OfStored(Charged(d, f, p)))
      /\ payouts' = Upserted(payouts, {Payout(d, o, today, cur)})
      /\ items' = replacePayoutItems(d, IdOf(payouts, Payout(d, o, today, cur)))
  BY <1>0 DEF SyncStripeDemo
<1>2. d \in Data /\ d \in Samples /\ d \in Lot /\ cur \in Currencies /\ today \in Nat /\ PayoutKey[d] = "po_demo"
  BY <1>0, Places, SampleOK, LotIs
<1>3. p \in Ids /\ f \in Ids /\ r \in Ids /\ o \in Ids
  BY <1>1, NewInIds DEF Tables
<1>4. WholeOf(d) /\ Covered /\ PayoutWhole
  BY <1>2 DEF Whole
<1> HIDE DEF cur, p, f, r, o
<1>5. /\ \A x, y \in Among(payments, LineKeys(d)) : x.key = y.key => x = y
      /\ \A x, y \in Among(fees, LineKeys(d)) : x.key = y.key => x = y
      /\ \A x, y \in Among(refunds, LineKeys(d)) : x.key = y.key => x = y
  BY <1>2, <1>4, WholeSole DEF PaidOf, FeesOf, RefundsOf
<1>6. /\ PaidOf(d)' = Upserted(PaidOf(d), Paid(d, p))
      /\ \A keys : keys \cap LineKeys(d) = {} => Among(payments', keys) = Among(payments, keys)
  <2>1. {x.key : x \in Paid(d, p)} \subseteq LineKeys(d)
    BY <1>2, PaidKeys
  <2>2. \A x \in Paid(d, p) : \A i : [x EXCEPT !.id = i].key = x.key
    BY <1>2, SampleKeys
  <2> QED BY <1>1, <1>5, <2>1, <2>2, UpsertedAmong DEF PaidOf
<1>7. PICK a \in Ids : PaidOf(d)' = Paid(d, a)
  BY <1>2, <1>3, <1>4, <1>6, UpsertedPaid DEF WholeOf, PaidWhole
<1>8. OfStored(Charged(d, f, p)) = Charged(d, f, a) /\ OfStored({Refund(d, r, p)}) = {Refund(d, r, a)}
  BY <1>2, <1>7, OfStoredWhole
<1>9. fees' = Upserted(fees, Charged(d, f, a)) /\ refunds' = Upserted(refunds, {Refund(d, r, a)})
  BY <1>1, <1>8
<1>10. /\ FeesOf(d)' = Upserted(FeesOf(d), Charged(d, f, a))
       /\ \A keys : keys \cap LineKeys(d) = {} => Among(fees', keys) = Among(fees, keys)
  <2>1. {x.key : x \in Charged(d, f, a)} \subseteq LineKeys(d)
    BY <1>2, PaidKeys
  <2>2. \A x \in Charged(d, f, a) : \A i : [x EXCEPT !.id = i].key = x.key
    BY <1>2, SampleKeys
  <2> QED BY <1>5, <1>9, <2>1, <2>2, UpsertedAmong DEF FeesOf
<1>11. /\ RefundsOf(d)' = Upserted(RefundsOf(d), {Refund(d, r, a)})
       /\ \A keys : keys \cap LineKeys(d) = {} => Among(refunds', keys) = Among(refunds, keys)
  <2> DEFINE rows == {Refund(d, r, a)}
  <2>1. {x.key : x \in rows} \subseteq LineKeys(d)
    BY <1>2, PaidKeys
  <2>2. \A x \in rows : \A i : [x EXCEPT !.id = i].key = x.key
    BY <1>2, SampleKeys
  <2>3. refunds' = Upserted(refunds, rows)
    BY <1>9
  <2> HIDE DEF rows
  <2>4. /\ Among(refunds', LineKeys(d)) = Upserted(Among(refunds, LineKeys(d)), rows)
        /\ \A keys : keys \cap LineKeys(d) = {} => Among(refunds', keys) = Among(refunds, keys)
    BY <1>5, <2>1, <2>2, <2>3, UpsertedAmong
  <2> QED BY <2>4 DEF RefundsOf, rows
<1>12. \E id \in Ids : FeesOf(d)' = Charged(d, id, a)
  <2>1. CASE FeesOf(d) = {}
    BY <1>2, <1>3, <1>10, <2>1, UpsertedCharged
  <2>2. CASE FeesOf(d) # {}
    <3>1. PICK id \in Ids, of \in Ids \cup {0} : FeesOf(d) = Charged(d, id, of)
      BY <1>4, <2>2 DEF WholeOf, FeesWhole
    <3>2. FeesOf(d)' = Charged(d, id, a)
      BY <1>2, <1>10, <3>1, UpsertedCharged
    <3> QED BY <3>2
  <2> QED BY <2>1, <2>2
<1>13. \E id \in Ids : RefundsOf(d)' = {Refund(d, id, a)}
  <2>1. CASE RefundsOf(d) = {}
    <3>1. Upserted({}, {Refund(d, r, a)}) = {Refund(d, r, a)}
      BY <1>2, RefundNew
    <3>2. RefundsOf(d)' = {Refund(d, r, a)}
      BY <1>11, <2>1, <3>1, Zenon
    <3> QED BY <1>3, <3>2
  <2>2. CASE RefundsOf(d) # {}
    <3>1. PICK id \in Ids, of \in Ids \cup {0} : RefundsOf(d) = {Refund(d, id, of)}
      BY <1>4, <2>2 DEF WholeOf, RefundsWhole
    <3>2. Upserted({Refund(d, id, of)}, {Refund(d, r, a)}) = {Refund(d, id, a)}
      BY <1>2, RefundOver
    <3>3. RefundsOf(d)' = {Refund(d, id, a)}
      BY <1>11, <3>1, <3>2, Zenon
    <3> QED BY <3>3
  <2> QED BY <2>1, <2>2
<1>14. Paid(d, a) # {} /\ \A id : Charged(d, id, a) # {}
  BY <1>2, SampleKeys
<1>15. WholeOf(d)'
  <2>1. PaidWhole(d)' /\ FeesWhole(d)' /\ RefundsWhole(d)'
    BY <1>7, <1>12, <1>13 DEF PaidWhole, FeesWhole, RefundsWhole, Named
  <2>2. BanksWhole(d)'
    BY <1>1, <1>4 DEF WholeOf, BanksWhole, BanksOf
  <2>3. FeesOf(d)' # {} /\ RefundsOf(d)' # {}
    BY <1>12, <1>13, <1>14
  <2> QED BY <2>1, <2>2, <2>3 DEF WholeOf
<1>16. ASSUME NEW e \in Samples, e # d PROVE WholeOf(e)'
  <2>1. LineKeys(e) \cap LineKeys(d) = {}
    BY <1>2, <1>16, SamplesApart
  <2>2. PaidOf(e)' = PaidOf(e) /\ FeesOf(e)' = FeesOf(e) /\ RefundsOf(e)' = RefundsOf(e) /\ BanksOf(e)' = BanksOf(e)
    BY <1>1, <1>6, <1>10, <1>11, <2>1 DEF PaidOf, FeesOf, RefundsOf, BanksOf
  <2>3. WholeOf(e)
    BY DEF Whole
  <2> QED BY <2>2, <2>3 DEF WholeOf, PaidWhole, FeesWhole, RefundsWhole, BanksWhole, Named
<1>17. Covered'
  <2>1. \A x \in payments' : x \in payments \/ x.key \in LineKeys(d)
    <3>1. \A x \in Paid(d, p) : \A i : [x EXCEPT !.id = i].key = x.key
      BY <1>2, SampleKeys
    <3> QED BY <1>1, <1>2, <3>1, UpsertedKeys, PaidKeys
  <2>2. \A x \in fees' : x \in fees \/ x.key \in LineKeys(d)
    <3>1. \A x \in Charged(d, f, a) : \A i : [x EXCEPT !.id = i].key = x.key
      BY <1>2, SampleKeys
    <3> QED BY <1>2, <1>9, <3>1, UpsertedKeys, PaidKeys
  <2>3. \A x \in refunds' : x \in refunds \/ x.key \in LineKeys(d)
    <3> DEFINE rows == {Refund(d, r, a)}
    <3>1. (\A x \in rows : \A i : [x EXCEPT !.id = i].key = x.key) /\ {x.key : x \in rows} \subseteq LineKeys(d)
      BY <1>2, SampleKeys, PaidKeys
    <3>2. refunds' = Upserted(refunds, rows)
      BY <1>9
    <3> HIDE DEF rows
    <3>3. \A x \in refunds' : x \in refunds \/ x.key \in {y.key : y \in rows}
      BY <3>1, <3>2, UpsertedKeys
    <3> QED BY <3>1, <3>3
  <2> QED BY <1>1, <1>2, <1>4, <2>1, <2>2, <2>3 DEF Covered, Lot
<1>18. \E id \in Ids : payouts' = {Payout(d, id, today, cur)} /\ items' = ItemsOf(d, id)
  <2>1. CASE payouts = {} /\ items = EmptyBag
    <3>1. payouts' = {Payout(d, o, today, cur)} /\ IdOf(payouts, Payout(d, o, today, cur)) = o
      BY <1>1, <1>2, <2>1, UpsertedPayout
    <3>2. items' = ItemsOf(d, o)
      BY <1>1, <1>2, <2>1, <3>1, ItemsReplaced
    <3> QED BY <1>3, <3>1, <3>2
  <2>2. CASE \E e \in Samples, id \in Ids, day \in Nat, was \in Currencies :
               payouts = {Payout(e, id, day, was)} /\ items = ItemsOf(e, id)
    <3>1. PICK e \in Samples, id \in Ids, day \in Nat, was \in Currencies :
            payouts = {Payout(e, id, day, was)} /\ items = ItemsOf(e, id)
      BY <2>2
    <3>2. e \in Data /\ PayoutKey[e] = PayoutKey[d]
      BY <1>2 DEF Samples, Data, PayoutKey
    <3>3. payouts' = {Payout(d, id, today, cur)} /\ IdOf(payouts, Payout(d, o, today, cur)) = id
      BY <1>1, <1>2, <3>1, <3>2, UpsertedPayout
    <3>4. items' = ItemsOf(d, id)
      BY <1>1, <1>2, <3>1, <3>2, <3>3, ItemsReplaced
    <3> QED BY <3>3, <3>4
  <2> QED BY <1>4, <2>1, <2>2 DEF PayoutWhole
<1>19. PayoutWhole'
  BY <1>2, <1>7, <1>14, <1>18 DEF PayoutWhole
<1>20. ASSUME NEW x \in payments PROVE \E y \in payments' : y.key = x.key
  <2>1. CASE x.key \in LineKeys(d)
    <3>1. {y.key : y \in Paid(d, a)} = LineKeys(d)
      BY <1>2, PaidKeys
    <3>2. Paid(d, a) \subseteq payments'
      BY <1>7 DEF PaidOf, Among
    <3> QED BY <2>1, <3>1, <3>2
  <2>2. CASE x.key \notin LineKeys(d)
    <3>1. x \in Among(payments, {x.key}) /\ {x.key} \cap LineKeys(d) = {}
      BY <2>2 DEF Among
    <3>2. x \in Among(payments', {x.key})
      BY <1>6, <3>1
    <3> QED BY <3>2 DEF Among
  <2> QED BY <2>1, <2>2
<1>21. Whole'
  BY <1>1, <1>15, <1>16, <1>17, <1>19 DEF Whole, Postgres
<1> QED BY <1>0, <1>18, <1>20, <1>21

LEMMA WholeBank ==
  ASSUME Whole, RowsOK, Placed, NEW q \in Requests, SyncBank(q), job[q].amount \in Nat
  PROVE  Whole'
<1>1. /\ Room /\ UNCHANGED <<deployment, payments, fees, refunds, payouts, items>>
      /\ banks' = Upserted(banks, Posted(SampleOf(q), job[q].amount, NewIn("banks"), today, CurrencyOf(q)))
  BY DEF SyncBank
<1>2. CASE ~ Postgres
  BY <1>1, <1>2 DEF Whole, Postgres
<1>3. CASE Postgres
  <2>0. PICK d : d = SampleOf(q)
    OBVIOUS
  <2> DEFINE n == job[q].amount
             b == NewIn("banks")
             cur == CurrencyOf(q)
             rows == Posted(d, n, b, today, cur)
  <2>1. d \in Data /\ d \in Samples /\ d \in Lot /\ cur \in Currencies /\ today \in Nat /\ b \in Ids /\ n \in Nat
        /\ BankKeys[d] \subseteq SyncedKeys
    BY <1>1, <2>0, Places, SampleOK, LotIs, NewInIds DEF Tables
  <2>2. WholeOf(d) /\ Covered /\ PayoutWhole
    BY <1>3, <2>1 DEF Whole
  <2>3. banks' = Upserted(banks, rows)
    BY <1>1, <2>0
  <2> HIDE DEF n, b, cur
  <2>4. {x.key : x \in rows} = BankKeys[d] /\ rows \subseteq BankRows
    BY <2>1, PostedKeys, PostedIn
  <2> HIDE DEF rows
  <2>5. \A x \in rows : \A i : [x EXCEPT !.id = i].key = x.key
    BY <2>4, RowFields
  <2>6. \A x, y \in Among(banks, BankKeys[d]) : x.key = y.key => x = y
    BY <2>1 DEF Among, RowsOK, Sole
  <2>7. /\ BanksOf(d)' = Upserted(BanksOf(d), rows)
        /\ \A keys : keys \cap BankKeys[d] = {} => Among(banks', keys) = Among(banks, keys)
    BY <2>3, <2>4, <2>5, <2>6, UpsertedAmong DEF BanksOf
  <2>8. \E id \in Ids : BanksOf(d)' = Posted(d, n, id, today, cur)
    <3>1. CASE BanksOf(d) = {}
      <4>1. Upserted({}, rows) = Posted(d, n, b, today, cur)
        BY <2>1, UpsertedPosted DEF rows
      <4> QED BY <2>1, <2>7, <3>1, <4>1
    <3>2. CASE BanksOf(d) # {}
      <4>1. PICK id \in Ids, k \in Nat, day \in Nat, was \in Currencies : BanksOf(d) = Posted(d, k, id, day, was)
        BY <2>2, <3>2 DEF WholeOf, BanksWhole
      <4>2. BanksOf(d)' = Posted(d, n, id, today, cur)
        BY <2>1, <2>7, <4>1, UpsertedPosted DEF rows
      <4> QED BY <4>2
    <3> QED BY <3>1, <3>2
  <2>9. \A e \in Samples : PaidOf(e)' = PaidOf(e) /\ FeesOf(e)' = FeesOf(e) /\ RefundsOf(e)' = RefundsOf(e)
    BY <1>1 DEF PaidOf, FeesOf, RefundsOf
  <2>10. BanksWhole(d)' /\ \A e \in Samples : e # d => BanksOf(e)' = BanksOf(e)
    BY <2>1, <2>7, <2>8, SamplesApart DEF BanksWhole, BanksOf
  <2>11. ASSUME NEW e \in Samples PROVE WholeOf(e)'
    <3>1. WholeOf(e)
      BY <1>3 DEF Whole
    <3>2. BanksWhole(e)'
      BY <2>10, <3>1 DEF WholeOf, BanksWhole
    <3> QED BY <2>9, <3>1, <3>2 DEF WholeOf, PaidWhole, FeesWhole, RefundsWhole, Named
  <2>12. Covered'
    <3>1. \A x \in banks' : x \in banks \/ x.key \in BankKeys[d]
      BY <2>3, <2>4, <2>5, UpsertedKeys
    <3> QED BY <1>1, <2>1, <2>2, <3>1 DEF Covered, Lot
  <2>13. PayoutWhole'
    BY <1>1, <2>2, <2>9 DEF PayoutWhole
  <2> QED BY <1>1, <1>3, <2>11, <2>12, <2>13 DEF Whole, Postgres
<1> QED BY <1>2, <1>3

LEMMA LeftWhole ==
  ASSUME NEW d \in Data, NEW id, NEW of, NEW doomed
  PROVE  /\ Left(Charged(d, id, of), doomed) \in {{}, Charged(d, id, 0)}
         /\ Left({Refund(d, id, of)}, doomed) \in {{}, {Refund(d, id, 0)}}
         /\ Left({}, doomed) = {}
<1>1. \A r \in Charged(d, id, of) : r.id = id
  BY DEF Charged, Fee
<1>2. {[r EXCEPT !.of = 0] : r \in Charged(d, id, of)} = Charged(d, id, 0)
  <2>1. \A i : [Fee(d, i, id, of) EXCEPT !.of = 0] = Fee(d, i, id, 0)
    BY DEF Fee
  <2>2. \A k : Charged(d, id, k) = {Fee(d, i, id, k) : i \in Lines(d)}
    BY DEF Charged, Lines
  <2> QED BY <2>1, <2>2
<1>3. Refund(d, id, of).id = id /\ [Refund(d, id, of) EXCEPT !.of = 0] = Refund(d, id, 0)
  BY DEF Refund
<1>4. CASE \A x \in doomed : x.id # id
  <2>1. {r \in Charged(d, id, of) : \A x \in doomed : x.id # r.id} = Charged(d, id, of)
    BY <1>1, <1>4
  <2>2. {r \in {Refund(d, id, of)} : \A x \in doomed : x.id # r.id} = {Refund(d, id, of)}
    BY <1>3, <1>4
  <2>3. {[r EXCEPT !.of = 0] : r \in {Refund(d, id, of)}} = {Refund(d, id, 0)}
    BY <1>3
  <2> QED BY <1>2, <2>1, <2>2, <2>3 DEF Left
<1>5. CASE \E x \in doomed : x.id = id
  <2>1. {r \in Charged(d, id, of) : \A x \in doomed : x.id # r.id} = {}
    BY <1>1, <1>5
  <2>2. {r \in {Refund(d, id, of)} : \A x \in doomed : x.id # r.id} = {}
    BY <1>3, <1>5
  <2> QED BY <2>1, <2>2 DEF Left
<1> QED BY <1>4, <1>5 DEF Left

LEMMA LeftAmong ==
  ASSUME NEW table \in SUBSET ChargeRows, NEW doomed, NEW keys
  PROVE  /\ Among(Left(table, doomed), keys) = Left(Among(table, keys), doomed)
         /\ \A x \in Left(table, doomed) : \E r \in table : r.key = x.key
<1>1. \A r \in table : [r EXCEPT !.of = 0].key = r.key
  BY DEF ChargeRows
<1> DEFINE cut(r) == [r EXCEPT !.of = 0]
           stays(r) == \A x \in doomed : x.id # r.id
<1>2. \A t : Left(t, doomed) = {cut(r) : r \in {r \in t : stays(r)}}
  BY DEF Left
<1>3. \A r \in table : cut(r).key = r.key
  BY <1>1
<1> HIDE DEF cut, stays
<1>4. Left(table, doomed) = {cut(r) : r \in {r \in table : stays(r)}}
  BY <1>2
<1>5. Left(Among(table, keys), doomed) = {cut(r) : r \in {r \in Among(table, keys) : stays(r)}}
  BY <1>2
<1>6. Among(Left(table, doomed), keys) = Left(Among(table, keys), doomed)
  BY <1>3, <1>4, <1>5 DEF Among
<1> QED BY <1>3, <1>4, <1>6

LEMMA WholeClear ==
  ASSUME Whole, RowsOK, Placed, NEW q \in Requests, ClearPostgres(q) \/ ClearMemory(q)
  PROVE  Whole'
<1>1. CASE ClearMemory(q)
  BY <1>1 DEF ClearMemory, NoTables, Whole, Postgres
<1>2. CASE ClearPostgres(q)
  <2>1. /\ Postgres /\ deployment' = deployment
        /\ payments' = {} /\ payouts' = {} /\ items' = EmptyBag /\ banks' = {}
        /\ fees' = Left(fees, job[q].doomed.fees) /\ refunds' = Left(refunds, job[q].doomed.refunds)
    BY <1>2 DEF ClearPostgres
  <2>2. fees \subseteq ChargeRows /\ refunds \subseteq ChargeRows /\ Covered
    BY <2>1 DEF RowsOK, Whole
  <2>3. ASSUME NEW d \in Samples PROVE WholeOf(d)'
    <3>1. d \in Data /\ WholeOf(d) /\ 0 \in Ids \cup {0}
      BY <2>1 DEF Data, Samples, Whole
    <3>2. PaidOf(d)' = {} /\ BanksOf(d)' = {} /\ Named(d, 0)'
      BY <2>1 DEF PaidOf, BanksOf, Among, Named
    <3>3. /\ FeesOf(d)' = Left(FeesOf(d), job[q].doomed.fees)
          /\ RefundsOf(d)' = Left(RefundsOf(d), job[q].doomed.refunds)
      BY <2>1, <2>2, LeftAmong DEF FeesOf, RefundsOf
    <3>4. FeesOf(d)' = {} \/ \E id \in Ids : FeesOf(d)' = Charged(d, id, 0)
      <4>1. CASE FeesOf(d) = {}
        BY <3>1, <3>3, <4>1, LeftWhole
      <4>2. CASE FeesOf(d) # {}
        <5>1. PICK id \in Ids, of \in Ids \cup {0} : FeesOf(d) = Charged(d, id, of)
          BY <3>1, <4>2 DEF WholeOf, FeesWhole
        <5>2. Left(FeesOf(d), job[q].doomed.fees) \in {{}, Charged(d, id, 0)}
          BY <3>1, <5>1, LeftWhole
        <5> QED BY <3>3, <5>2
      <4> QED BY <4>1, <4>2
    <3>5. RefundsOf(d)' = {} \/ \E id \in Ids : RefundsOf(d)' = {Refund(d, id, 0)}
      <4>1. CASE RefundsOf(d) = {}
        BY <3>1, <3>3, <4>1, LeftWhole
      <4>2. CASE RefundsOf(d) # {}
        <5>1. PICK id \in Ids, of \in Ids \cup {0} : RefundsOf(d) = {Refund(d, id, of)}
          BY <3>1, <4>2 DEF WholeOf, RefundsWhole
        <5>2. Left(RefundsOf(d), job[q].doomed.refunds) \in {{}, {Refund(d, id, 0)}}
          BY <3>1, <5>1, LeftWhole
        <5> QED BY <3>3, <5>2
      <4> QED BY <4>1, <4>2
    <3>6. FeesWhole(d)' /\ RefundsWhole(d)'
      BY <3>1, <3>2, <3>4, <3>5 DEF FeesWhole, RefundsWhole
    <3> QED BY <3>2, <3>6 DEF WholeOf, PaidWhole, BanksWhole
  <2>4. Covered'
    <3>1. /\ \A x \in fees' : \E r \in fees : r.key = x.key
          /\ \A x \in refunds' : \E r \in refunds : r.key = x.key
      BY <2>1, <2>2, LeftAmong
    <3> QED BY <2>1, <2>2, <3>1 DEF Covered, Lot
  <2>5. PayoutWhole'
    BY <2>1 DEF PayoutWhole
  <2> QED BY <2>1, <2>3, <2>4, <2>5 DEF Whole, Postgres
<1> QED BY <1>1, <1>2

(* In memory nothing is itemized.                                          *)
LEMMA WholeMemory ==
  ASSUME Whole, ~ Postgres, UNCHANGED <<deployment, items>>
  PROVE  Whole'
BY DEF Whole, Postgres

-----------------------------------------------------------------------------
(* A request has the last of its steps left, and one that is alone is.     *)
PlanOK(j) ==
  j # Idle =>
    /\ j.kind \in DOMAIN Steps /\ Len(j.todo) \in 1..Len(Steps[j.kind])
    /\ \A i \in 1..Len(j.todo) : j.todo[i] = Steps[j.kind][i + Len(Steps[j.kind]) - Len(j.todo)]
PlansOK == \A q \in Requests : PlanOK(job[q])

AloneOK ==
  \A q, r \in Requests : job[q] # Idle /\ job[q].alone = TRUE /\ r # q => job[r] = Idle

(* What one step of a request makes of it.                                 *)
MovesTo(q, j) ==
  \/ job'[q] = Idle
  \/ /\ job'[q] # Idle /\ Len(job[q].todo) > 1 /\ Len(job'[q].todo) = Len(job[q].todo) - 1
     /\ job'[q].kind = job[q].kind /\ job'[q].alone = job[q].alone
     /\ job'[q].snap = j.snap /\ job'[q].amount = j.amount /\ job'[q].doomed = j.doomed

LEMMA StepsSame ==
  ASSUME UNCHANGED deployment
  PROVE  Steps' = Steps /\ (Postgres' <=> Postgres)
BY DEF Steps, Writes, Postgres

(* A request goes on, and holds j.                                         *)
LEMMA GoesOn ==
  ASSUME JobsOK, Placed, PlansOK, AloneOK, NEW q \in Requests, job[q] # Idle, NEW j, Goes(q, j),
         UNCHANGED <<deployment, date>>, DOMAIN j = DOMAIN job[q], j.kind = job[q].kind,
         j.todo = job[q].todo, j.alone = job[q].alone
  PROVE  /\ PlansOK' /\ AloneOK' /\ MovesTo(q, j)
         /\ \A r \in Requests : r # q => job'[r] = job[r]
<1>1. Steps' = Steps
  BY StepsSame
<1>2. /\ DOMAIN job = Requests /\ job[q].todo \in Seq(StepNames) /\ job[q].todo # <<>>
      /\ DOMAIN j = {"kind", "todo", "snap", "amount", "alone", "doomed"}
      /\ job[q].kind \in deployment.load
  BY JobIs DEF JobsOK, JobOK
<1> DEFINE k == [j EXCEPT !.todo = Tail(@)]
<1>3. job'[q] = (IF Len(j.todo) = 1 THEN Idle ELSE k) /\ \A r \in Requests : r # q => job'[r] = job[r]
  BY <1>2 DEF Goes
<1>4. /\ k.kind = j.kind /\ k.snap = j.snap /\ k.amount = j.amount /\ k.doomed = j.doomed
      /\ k.alone = j.alone /\ k.todo = Tail(j.todo)
  BY <1>2
<1> HIDE DEF k
<1>5. k # Idle
  BY <1>2, <1>4, Kinds, IdleOK
<1>6. Len(j.todo) # 1 =>
        /\ Len(k.todo) = Len(j.todo) - 1 /\ Len(j.todo) \in Nat
        /\ \A i \in 1..(Len(j.todo) - 1) : k.todo[i] = j.todo[i + 1]
  BY <1>2, <1>4, TailOK
<1>7. Len(j.todo) \in Nat /\ Len(j.todo) >= 1
  BY <1>2
<1>8. MovesTo(q, j)
  <2>1. CASE Len(j.todo) = 1
    BY <1>3, <2>1 DEF MovesTo
  <2>2. CASE Len(j.todo) # 1
    <3>1. job'[q] = k
      BY <1>3, <2>2
    <3>2. Len(job[q].todo) > 1 /\ Len(k.todo) = Len(job[q].todo) - 1
      <4>1. Len(k.todo) = Len(j.todo) - 1
        BY <1>6, <2>2
      <4>2. Len(j.todo) > 1
        <5>1. \A n \in Nat : n >= 1 /\ n # 1 => n > 1
          OBVIOUS
        <5> QED BY <1>7, <2>2, <5>1, Zenon
      <4> QED BY <4>1, <4>2
    <3> QED BY <1>4, <1>5, <3>1, <3>2 DEF MovesTo
  <2> QED BY <2>1, <2>2
<1>9. PlanOK(job'[q])
  <2>1. CASE Len(j.todo) = 1
    BY <1>3, <2>1 DEF PlanOK
  <2>2. CASE Len(j.todo) # 1
    <3> DEFINE all == Steps[j.kind]
    <3>1. j.kind \in DOMAIN Steps /\ Len(j.todo) \in 1..Len(all)
          /\ \A i \in 1..Len(j.todo) : j.todo[i] = all[i + Len(all) - Len(j.todo)]
      BY DEF PlansOK, PlanOK
    <3>2. Len(all) \in Nat
      BY <3>1, StepsOK
    <3>3. job'[q] = k
      BY <1>3, <2>2
    <3> HIDE DEF all
    <3>a. Len(k.todo) = Len(j.todo) - 1 /\ \A i \in 1..(Len(j.todo) - 1) : k.todo[i] = j.todo[i + 1]
      BY <1>6, <2>2
    <3> DEFINE n == Len(j.todo)
               l == Len(k.todo)
               h == Len(all)
    <3>b. n \in Nat /\ n >= 1 /\ n # 1 /\ l = n - 1 /\ h \in Nat /\ n \in 1..h
      BY <1>7, <2>2, <3>1, <3>2, <3>a
    <3> HIDE DEF n, l, h
    <3>4. l \in 1..h
      BY <3>b
    <3>5. ASSUME NEW i \in 1..l PROVE k.todo[i] = all[i + h - l]
      <4>1. i \in 1..(n - 1) /\ i + 1 \in 1..n /\ i \in Nat
        BY <3>b, <3>5
      <4>2. k.todo[i] = j.todo[i + 1]
        BY <3>a, <4>1 DEF n
      <4>3. j.todo[i + 1] = all[(i + 1) + h - n]
        BY <3>1, <4>1 DEF n, h
      <4>4. (i + 1) + h - n = i + h - l
        BY <3>b, <4>1
      <4> QED BY <4>2, <4>3, <4>4
    <3>6. k.kind = j.kind
      BY <1>4
    <3> QED BY <3>1, <3>3, <3>4, <3>5, <3>6 DEF PlanOK, all, n, l, h
  <2> QED BY <2>1, <2>2
<1>10. PlansOK'
  <2>1. \A r \in Requests : PlanOK(job'[r])
    BY <1>3, <1>9 DEF PlansOK
  <2> QED BY <1>1, <2>1 DEF PlansOK, PlanOK
<1>11. AloneOK'
  <2>1. \A r \in Requests : job'[r] = Idle \/ (job[r] # Idle /\ job'[r].alone = job[r].alone)
    BY <1>3, <1>8 DEF MovesTo
  <2>2. \A r \in Requests : job[r] = Idle => job'[r] = Idle
    BY <1>3
  <2> QED BY <2>1, <2>2 DEF AloneOK
<1> QED BY <1>3, <1>8, <1>10, <1>11

(* A request ends.                                                         *)
LEMMA EndsOn ==
  ASSUME JobsOK, PlansOK, AloneOK, NEW q \in Requests, Ends(q), UNCHANGED <<deployment, date>>
  PROVE  /\ PlansOK' /\ AloneOK' /\ job'[q] = Idle
         /\ \A r \in Requests : r # q => job'[r] = job[r]
<1>1. Steps' = Steps
  BY StepsSame
<1>2. job'[q] = Idle /\ \A r \in Requests : r # q => job'[r] = job[r]
  BY DEF Ends, JobsOK
<1>3. PlanOK(Idle) /\ \A r \in Requests : PlanOK(job'[r])
  BY <1>2 DEF PlansOK, PlanOK
<1>4. PlansOK'
  BY <1>1, <1>3 DEF PlansOK, PlanOK
<1>5. AloneOK'
  <2>1. \A r \in Requests : job[r] = Idle => job'[r] = Idle
    BY <1>2
  <2> QED BY <1>2, <2>1 DEF AloneOK
<1> QED BY <1>2, <1>4, <1>5

(* Another request begins: none is alone from then on that was at work.    *)
BegunBy(q, kind) ==
  /\ job[q] = Idle /\ kind \in deployment.load /\ kind \in DOMAIN Steps
  /\ job'[q] # Idle /\ job'[q].kind = kind /\ job'[q].todo = Steps[kind]
  /\ job'[q].alone = (AtWork = {}) /\ job'[q].amount = 0 /\ job'[q].doomed = Idle.doomed
  /\ job'[q].snap = IF ~ Postgres /\ kind \in DOMAIN Reports THEN Books ELSE NoBooks
  /\ \A r \in Requests : r # q =>
       IF job[r] = Idle THEN job'[r] = Idle
       ELSE /\ job'[r] # Idle /\ job'[r].alone = FALSE
            /\ job'[r].kind = job[r].kind /\ job'[r].todo = job[r].todo

LEMMA Begins ==
  ASSUME JobsOK, Placed, NEW q \in Requests, NEW kind, Begin(q, kind)
  PROVE  BegunBy(q, kind)
<1> DEFINE snap == IF ~ Postgres /\ kind \in DOMAIN Reports THEN Books ELSE NoBooks
           new == [Idle EXCEPT !.kind = kind, !.todo = Steps[kind], !.alone = AtWork = {}, !.snap = snap]
<1>1. /\ new.kind = kind /\ new.todo = Steps[kind] /\ new.snap = snap
      /\ new.alone = (AtWork = {}) /\ new.amount = 0 /\ new.doomed = Idle.doomed
  BY DEF Idle
<1>2. kind \in deployment.load /\ kind \in DOMAIN Steps /\ job[q] = Idle
  BY DEF Begin
<1> HIDE DEF snap
<1>3. \A r \in Requests : job'[r] = IF r = q THEN new ELSE [job[r] EXCEPT !.alone = r \notin AtWork]
  BY DEF Begin, snap
<1> HIDE DEF new
<1>4. new # Idle
  BY <1>1, <1>2, Kinds, IdleOK
<1>5. ASSUME NEW r \in Requests, r # q
      PROVE  IF job[r] = Idle THEN job'[r] = Idle
             ELSE /\ job'[r] # Idle /\ job'[r].alone = FALSE
                  /\ job'[r].kind = job[r].kind /\ job'[r].todo = job[r].todo
  <2> DEFINE k == [job[r] EXCEPT !.alone = r \notin AtWork]
  <2>1. job'[r] = k
    BY <1>3, <1>5
  <2>2. CASE job[r] = Idle
    <3>1. (r \notin AtWork) = TRUE
      BY <2>2 DEF AtWork
    <3>2. [Idle EXCEPT !.alone = TRUE] = Idle
      <4>1. Idle = [x \in DOMAIN Idle |-> Idle[x]]
        BY DEF Idle
      <4>2. Idle["alone"] = TRUE
        BY DEF Idle
      <4> QED BY <4>1, <4>2, PutBack
    <3>3. k = Idle
      BY <2>2, <3>1, <3>2, Zenon
    <3> QED BY <2>1, <2>2, <3>3
  <2>3. CASE job[r] # Idle
    <3>1. JobOK(job[r]) /\ job[r].kind \in deployment.load
      BY <2>3, JobIs
    <3>2. (r \notin AtWork) = FALSE
      BY <2>3 DEF AtWork
    <3>3. k.kind = job[r].kind /\ k.todo = job[r].todo /\ k.alone = (r \notin AtWork)
      BY <3>1 DEF JobOK
    <3> HIDE DEF k
    <3>4. k # Idle
      BY <3>1, <3>3, Kinds, IdleOK
    <3> QED BY <2>1, <2>3, <3>2, <3>3, <3>4
  <2> QED BY <2>2, <2>3
<1>6. job'[q] = new
  BY <1>3
<1> QED BY <1>1, <1>2, <1>4, <1>5, <1>6 DEF BegunBy, snap

LEMMA BeginsOn ==
  ASSUME JobsOK, Placed, PlansOK, AloneOK, NEW q \in Requests, NEW kind, Begin(q, kind)
  PROVE  PlansOK' /\ AloneOK'
<1>1. BegunBy(q, kind) /\ Steps' = Steps
  BY Begins, StepsSame DEF Begin
<1>2. PlanOK(job'[q])
  <2>1. Len(Steps[kind]) \in Nat /\ Len(Steps[kind]) >= 1
    BY <1>1, StepsOK DEF BegunBy
  <2>2. \A i \in 1..Len(Steps[kind]) : i + Len(Steps[kind]) - Len(Steps[kind]) = i
    BY <2>1
  <2> QED BY <1>1, <2>1, <2>2 DEF PlanOK, BegunBy
<1>3. \A r \in Requests : r # q => PlanOK(job'[r])
  <2>1. ASSUME NEW r \in Requests, r # q PROVE PlanOK(job'[r])
    <3>1. CASE job[r] = Idle
      BY <1>1, <2>1, <3>1 DEF PlanOK, BegunBy
    <3>2. CASE job[r] # Idle
      <4>1. job'[r].kind = job[r].kind /\ job'[r].todo = job[r].todo
        BY <1>1, <2>1, <3>2 DEF BegunBy
      <4>2. PlanOK(job[r])
        BY DEF PlansOK
      <4> QED BY <3>2, <4>1, <4>2 DEF PlanOK
    <3> QED BY <3>1, <3>2
  <2> QED BY <2>1
<1>4. PlansOK'
  BY <1>1, <1>2, <1>3 DEF PlansOK, PlanOK
<1>5. AloneOK'
  <2>1. \A r \in Requests : r # q => job'[r] = Idle \/ job'[r].alone = FALSE
    BY <1>1 DEF BegunBy
  <2>2. job'[q].alone = TRUE => \A r \in Requests : r # q => job'[r] = Idle
    <3>1. AtWork = {} => \A r \in Requests : job[r] = Idle
      BY DEF AtWork
    <3> QED BY <1>1, <3>1 DEF BegunBy
  <2> QED BY <2>1, <2>2 DEF AloneOK
<1> QED BY <1>4, <1>5

(* The step a request is at is the one that its plan has there.            *)
LEMMA StepNow ==
  ASSUME JobsOK, PlansOK, NEW q \in Requests, NEW step, At(q, step)
  PROVE  /\ job[q] # Idle /\ job[q].kind \in DOMAIN Steps
         /\ Len(job[q].todo) \in 1..Len(Steps[job[q].kind]) /\ Len(Steps[job[q].kind]) \in Nat
         /\ step = Steps[job[q].kind][1 + Len(Steps[job[q].kind]) - Len(job[q].todo)]
<1>1. job[q] # Idle /\ job[q].todo \in Seq(StepNames) /\ job[q].todo # <<>>
  BY Working, JobIs
<1>2. step = job[q].todo[1] /\ 1 \in 1..Len(job[q].todo)
  BY <1>1 DEF At
<1> DEFINE j == job[q]
           all == Steps[j.kind]
<1>3. /\ j.kind \in DOMAIN Steps /\ Len(j.todo) \in 1..Len(all)
      /\ \A i \in 1..Len(j.todo) : j.todo[i] = all[i + Len(all) - Len(j.todo)]
  BY <1>1 DEF PlansOK, PlanOK
<1>4. Len(all) \in Nat
  BY <1>3, StepsOK
<1> HIDE DEF all
<1>5. step = all[1 + Len(all) - Len(j.todo)]
  BY <1>2, <1>3
<1> QED BY <1>1, <1>3, <1>4, <1>5 DEF all

-----------------------------------------------------------------------------
IInv == Placed /\ SetupOK /\ RowsOK /\ RunsOK /\ JobsOK /\ Whole /\ PlansOK /\ AloneOK

LEMMA InitIInv == Init => IInv
<1> SUFFICES ASSUME Init PROVE IInv
  OBVIOUS
<1>1. /\ deployment \in Deployments /\ date = 1 /\ runs = {}
      /\ payments = {} /\ fees = {} /\ refunds = {} /\ payouts = {} /\ items = EmptyBag /\ banks = {}
      /\ setup = [scenario |-> Blank, business |-> Blank, checklist |-> Blank, done |-> FALSE]
      /\ job = [q \in Requests |-> Idle]
  BY DEF Init
<1>2. Placed
  <2>1. Days \in Seq(Nat) /\ Days # <<>>
    BY DaysAssumption
  <2>2. 1 \in DOMAIN Days
    BY <2>1
  <2> QED BY <1>1, <2>2 DEF Placed
<1>3. SetupOK
  BY <1>1 DEF SetupOK
<1>4. RowsOK
  BY <1>1, EmptyRows DEF RowsOK
<1>5. RunsOK
  BY <1>1 DEF RunsOK
<1>6. \A q \in Requests : job[q] = Idle
  BY <1>1
<1>7. JobsOK
  BY <1>1, IdleOK DEF JobsOK
<1>8. Whole
  <2>1. \A d : PaidOf(d) = {} /\ FeesOf(d) = {} /\ RefundsOf(d) = {} /\ BanksOf(d) = {}
    BY <1>1 DEF PaidOf, FeesOf, RefundsOf, BanksOf, Among
  <2>2. \A d : WholeOf(d)
    BY <2>1 DEF WholeOf, PaidWhole, FeesWhole, RefundsWhole, BanksWhole
  <2>3. Covered /\ PayoutWhole
    BY <1>1 DEF Covered, PayoutWhole
  <2> QED BY <1>1, <2>2, <2>3 DEF Whole
<1>9. PlansOK /\ AloneOK
  BY <1>6 DEF PlansOK, PlanOK, AloneOK
<1> QED BY <1>2, <1>3, <1>4, <1>5, <1>7, <1>8, <1>9 DEF IInv

(* What a step leaves as it is.                                            *)
LEMMA PlacesStay ==
  ASSUME Placed, SetupOK, UNCHANGED <<deployment, date, setup>>
  PROVE  Placed' /\ SetupOK'
BY DEF Placed, SetupOK

LEMMA BooksStay ==
  ASSUME IInv, UNCHANGED <<deployment, date, tables, runs, setup>>
  PROVE  Placed' /\ SetupOK' /\ RowsOK' /\ RunsOK' /\ Whole'
<1>1. Placed /\ SetupOK /\ RowsOK /\ RunsOK /\ Whole
  BY DEF IInv
<1>2. Placed' /\ SetupOK' /\ RowsOK' /\ Whole'
  BY <1>1, PlacesStay, RowsStay, WholeStay
<1>3. payouts' = payouts /\ banks' = banks
  BY DEF tables
<1>4. RunsOK'
  BY <1>1, <1>3, RunsStay DEF Stored
<1> QED BY <1>2, <1>4

(* A request does its step, and holds what it held.                        *)
LEMMA DoesOn ==
  ASSUME IInv, NEW q \in Requests, NEW step, At(q, step), Does(q), UNCHANGED <<deployment, date>>
  PROVE  /\ PlansOK' /\ AloneOK' /\ MovesTo(q, job[q])
         /\ \A r \in Requests : r # q => job'[r] = job[r]
<1>1. job[q] # Idle /\ Goes(q, job[q])
  BY Working DEF Does
<1> QED BY <1>1, GoesOn DEF IInv

(* What a request holds after each of its steps, and that it goes on.      *)
Reads(q, j, table) ==
  /\ j.snap = [job[q].snap EXCEPT ![table] = Books[table]]
  /\ j.amount = job[q].amount /\ j.doomed = job[q].doomed

LEMMA ReadOn ==
  ASSUME IInv, NEW q \in Requests, NEW table \in DOMAIN Books, Read(q, table)
  PROVE  /\ PlansOK' /\ AloneOK' /\ \E j : MovesTo(q, j) /\ Reads(q, j, table)
         /\ \A r \in Requests : r # q => job'[r] = job[r]
<1>1. job[q] # Idle
  BY Working DEF Read
<1>2. JobOK(job[q])
  BY <1>1, JobIs DEF IInv
<1> DEFINE j == [job[q] EXCEPT !.snap[table] = Books[table]]
<1>3. /\ DOMAIN j = DOMAIN job[q] /\ j.kind = job[q].kind /\ j.todo = job[q].todo /\ j.alone = job[q].alone
      /\ Reads(q, j, table)
  BY <1>2 DEF JobOK, Reads
<1>4. Goes(q, j) /\ UNCHANGED <<deployment, date>>
  BY DEF Read
<1> HIDE DEF j
<1>5. /\ PlansOK' /\ AloneOK' /\ MovesTo(q, j)
      /\ \A r \in Requests : r # q => job'[r] = job[r]
  BY <1>1, <1>3, <1>4, GoesOn DEF IInv
<1> QED BY <1>3, <1>5

LEMMA AmountOn ==
  ASSUME IInv, NEW q \in Requests, ReadAmount(q)
  PROVE  /\ PlansOK' /\ AloneOK'
         /\ \E j : /\ MovesTo(q, j) /\ j.snap = job[q].snap /\ j.doomed = job[q].doomed
                   /\ j.amount \in IF payouts = {} THEN {DefaultPayout} ELSE {p.amount : p \in payouts}
         /\ \A r \in Requests : r # q => job'[r] = job[r]
<1>1. job[q] # Idle
  BY Working DEF ReadAmount
<1>2. JobOK(job[q])
  BY <1>1, JobIs DEF IInv
<1>3. PICK amount \in (IF payouts = {} THEN {DefaultPayout} ELSE {p.amount : p \in payouts}) :
        Goes(q, [job[q] EXCEPT !.amount = amount])
  BY DEF ReadAmount
<1> DEFINE j == [job[q] EXCEPT !.amount = amount]
<1>4. /\ DOMAIN j = DOMAIN job[q] /\ j.kind = job[q].kind /\ j.todo = job[q].todo /\ j.alone = job[q].alone
      /\ j.snap = job[q].snap /\ j.doomed = job[q].doomed /\ j.amount = amount
  BY <1>2 DEF JobOK
<1>5. Goes(q, j) /\ UNCHANGED <<deployment, date>>
  BY <1>3 DEF ReadAmount
<1> HIDE DEF j
<1>6. /\ PlansOK' /\ AloneOK' /\ MovesTo(q, j)
      /\ \A r \in Requests : r # q => job'[r] = job[r]
  BY <1>1, <1>4, <1>5, GoesOn DEF IInv
<1> QED BY <1>4, <1>6

Dooms(q, j) ==
  /\ j.snap = job[q].snap /\ j.amount = job[q].amount
  /\ DeleteRuns(q) => j.doomed = [job[q].doomed EXCEPT !.runs = runs]
  /\ DeleteLinks(q) => j.doomed.runs = job[q].doomed.runs /\ j.doomed.fees = fees /\ j.doomed.refunds = refunds
  /\ ClearPostgres(q) => j.doomed = Idle.doomed

LEMMA DeleteOn ==
  ASSUME IInv, NEW q \in Requests, DeleteRuns(q) \/ DeleteLinks(q) \/ ClearPostgres(q)
  PROVE  /\ PlansOK' /\ AloneOK' /\ \E j : MovesTo(q, j) /\ Dooms(q, j)
         /\ \A r \in Requests : r # q => job'[r] = job[r]
<1>1. job[q] # Idle
  BY Working DEF DeleteRuns, DeleteLinks, ClearPostgres
<1>2. JobOK(job[q])
  BY <1>1, JobIs DEF IInv
<1>3. UNCHANGED <<deployment, date>>
  BY DEF DeleteRuns, DeleteLinks, ClearPostgres
<1>4. /\ ~ (DeleteRuns(q) /\ DeleteLinks(q)) /\ ~ (DeleteRuns(q) /\ ClearPostgres(q))
      /\ ~ (DeleteLinks(q) /\ ClearPostgres(q))
  BY DEF DeleteRuns, DeleteLinks, ClearPostgres, At
<1>5. \E j : /\ Goes(q, j) /\ Dooms(q, j)
             /\ DOMAIN j = DOMAIN job[q] /\ j.kind = job[q].kind /\ j.todo = job[q].todo
             /\ j.alone = job[q].alone
  <2>1. CASE DeleteRuns(q)
    <3> DEFINE j == [job[q] EXCEPT !.doomed.runs = runs]
    <3>1. /\ DOMAIN j = DOMAIN job[q] /\ j.kind = job[q].kind /\ j.todo = job[q].todo /\ j.alone = job[q].alone
          /\ j.snap = job[q].snap /\ j.amount = job[q].amount
          /\ j.doomed = [job[q].doomed EXCEPT !.runs = runs]
      BY <1>2 DEF JobOK
    <3>2. Goes(q, j)
      BY <2>1 DEF DeleteRuns
    <3> HIDE DEF j
    <3> QED BY <1>4, <2>1, <3>1, <3>2 DEF Dooms
  <2>2. CASE DeleteLinks(q)
    <3> DEFINE j == [job[q] EXCEPT !.doomed.fees = fees, !.doomed.refunds = refunds]
    <3>1. /\ DOMAIN j = DOMAIN job[q] /\ j.kind = job[q].kind /\ j.todo = job[q].todo /\ j.alone = job[q].alone
          /\ j.snap = job[q].snap /\ j.amount = job[q].amount
          /\ j.doomed.runs = job[q].doomed.runs /\ j.doomed.fees = fees /\ j.doomed.refunds = refunds
      BY <1>2 DEF JobOK
    <3>2. Goes(q, j)
      BY <2>2 DEF DeleteLinks
    <3> HIDE DEF j
    <3> QED BY <1>4, <2>2, <3>1, <3>2 DEF Dooms
  <2>3. CASE ClearPostgres(q)
    <3> DEFINE j == [job[q] EXCEPT !.doomed = Idle.doomed]
    <3>1. /\ DOMAIN j = DOMAIN job[q] /\ j.kind = job[q].kind /\ j.todo = job[q].todo /\ j.alone = job[q].alone
          /\ j.snap = job[q].snap /\ j.amount = job[q].amount /\ j.doomed = Idle.doomed
      BY <1>2 DEF JobOK
    <3>2. Goes(q, j)
      BY <2>3 DEF ClearPostgres
    <3> HIDE DEF j
    <3> QED BY <1>4, <2>3, <3>1, <3>2 DEF Dooms
  <2> QED BY <2>1, <2>2, <2>3
<1> QED BY <1>1, <1>3, <1>5, GoesOn DEF IInv

-----------------------------------------------------------------------------
(* Over Postgres nothing is seeded.                                        *)
LEMMA Unseeded ==
  ASSUME IInv, NEW q \in Requests, At(q, "seed")
  PROVE  ~ Postgres
<1> SUFFICES ASSUME Postgres PROVE FALSE
  OBVIOUS
<1> DEFINE S == StepNames \ {"seed"}
<1>1. \A kind \in DOMAIN Reports : Reports[kind] \in Seq(S)
  <2>1. Reports["explain"] \in Seq(S) /\ Reports["cash"] \in Seq(S) /\ Reports["month"] \in Seq(S)
    BY DEF Reports, StepNames
  <2> QED BY <2>1 DEF Reports
<1>2. \A kind \in DOMAIN Writes : Writes[kind] \in Seq(S)
  <2>1. /\ DOMAIN Writes = {"stripe", "bank", "stripe_job", "bank_job", "reconcile", "reset"}
        /\ Writes["stripe"] = <<"stripe">> /\ Writes["bank"] = <<"amount", "bank">>
        /\ Writes["stripe_job"] = <<"stripe">> /\ Writes["bank_job"] = <<"amount", "bank">>
        /\ Writes["reconcile"] = <<"payouts", "banks", "match">>
        /\ Writes["reset"] = <<"runs", "links", "clear", "stripe", "amount", "bank", "payouts", "banks", "match">>
    BY DEF Writes
  <2>2. /\ <<"stripe">> \in Seq(S) /\ <<"amount", "bank">> \in Seq(S)
        /\ <<"payouts", "banks", "match">> \in Seq(S)
    BY DEF StepNames
  <2>3. <<"runs", "links", "clear", "stripe", "amount", "bank", "payouts", "banks", "match">> \in Seq(S)
    BY DEF StepNames
  <2> QED BY <2>1, <2>2, <2>3
<1>3. \A kind \in DOMAIN Steps : Steps[kind] \in Seq(S)
  BY <1>1, <1>2 DEF Steps
<1> DEFINE all == Steps[job[q].kind]
           k == 1 + Len(all) - Len(job[q].todo)
<1>4. /\ job[q].kind \in DOMAIN Steps /\ Len(job[q].todo) \in 1..Len(all) /\ Len(all) \in Nat
      /\ all[k] = "seed"
  BY StepNow DEF IInv
<1>5. all \in Seq(S) /\ k \in 1..Len(all)
  <2>1. \A n, h \in Nat : n \in 1..h => 1 + h - n \in 1..h
    OBVIOUS
  <2>2. all \in Seq(S)
    BY <1>3, <1>4
  <2>3. Len(job[q].todo) \in Nat
    BY <1>4
  <2> HIDE DEF all
  <2> QED BY <1>4, <2>1, <2>2, <2>3
<1> HIDE DEF all, k
<1>6. all[k] \in S
  BY <1>5
<1> QED BY <1>4, <1>6

LEMMA SyncStays ==
  ASSUME IInv, NEW q \in Requests, SyncStripeDemo(q) \/ syncStripeMock(q)
  PROVE  IInv'
<1>1. Placed /\ SetupOK /\ RowsOK /\ RunsOK /\ JobsOK /\ Whole
  BY DEF IInv
<1>2. UNCHANGED <<deployment, date, setup, runs, banks>> /\ Does(q) /\ At(q, "stripe")
  BY DEF SyncStripeDemo, syncStripeMock
<1>3. Placed' /\ SetupOK'
  BY <1>1, <1>2, PlacesStay
<1>4. RowsOK' /\ \A ref : Stored(ref, payouts) => Stored(ref, payouts')
  BY <1>1, RowsSync
<1>5. RunsOK'
  BY <1>1, <1>2, <1>4, RunsStay
<1>6. JobsOK'
  BY <1>1, JobsDo
<1>7. Whole'
  <2>1. CASE SyncStripeDemo(q)
    BY <1>1, <2>1, WholeSync DEF SyncStripeDemo
  <2>2. CASE syncStripeMock(q)
    BY <1>1, <2>2, WholeMemory DEF syncStripeMock
  <2> QED BY <2>1, <2>2
<1>8. PlansOK' /\ AloneOK'
  BY <1>2, DoesOn
<1> QED BY <1>3, <1>4, <1>5, <1>6, <1>7, <1>8 DEF IInv

LEMMA BankStays ==
  ASSUME IInv, NEW q \in Requests, SyncBank(q)
  PROVE  IInv'
<1>1. Placed /\ SetupOK /\ RowsOK /\ RunsOK /\ JobsOK /\ Whole
  BY DEF IInv
<1>2. UNCHANGED <<deployment, date, setup, runs, payouts>> /\ Does(q) /\ At(q, "bank")
  BY DEF SyncBank
<1>a. job[q].amount \in Nat
  BY <1>1 DEF JobsOK, JobOK
<1>3. Placed' /\ SetupOK'
  BY <1>1, <1>2, PlacesStay
<1>4. RowsOK' /\ \A ref : Stored(ref, banks) => Stored(ref, banks')
  BY <1>1, <1>a, RowsBank
<1>5. RunsOK'
  BY <1>1, <1>2, <1>4, RunsStay
<1>6. JobsOK'
  BY <1>1, JobsDo
<1>7. Whole'
  BY <1>1, <1>a, WholeBank
<1>8. PlansOK' /\ AloneOK'
  BY <1>2, DoesOn
<1> QED BY <1>3, <1>4, <1>5, <1>6, <1>7, <1>8 DEF IInv

LEMMA SeedStays ==
  ASSUME IInv, NEW q \in Requests, Seed(q)
  PROVE  IInv'
<1>1. Placed /\ SetupOK /\ RowsOK /\ RunsOK /\ JobsOK /\ Whole
  BY DEF IInv
<1>2. UNCHANGED <<deployment, date, setup, runs, items>> /\ Does(q) /\ At(q, "seed")
  BY DEF Seed
<1>a. ~ Postgres
  BY <1>2, Unseeded
<1>3. Placed' /\ SetupOK'
  BY <1>1, <1>2, PlacesStay
<1>4. /\ RowsOK'
      /\ \A ref : (Stored(ref, banks) => Stored(ref, banks')) /\ (Stored(ref, payouts) => Stored(ref, payouts'))
  BY <1>1, <1>a, RowsSeed
<1>5. RunsOK'
  BY <1>1, <1>2, <1>4, RunsStay
<1>6. JobsOK'
  BY <1>1, JobsDo
<1>7. Whole'
  BY <1>1, <1>2, <1>a, WholeMemory
<1>8. PlansOK' /\ AloneOK'
  BY <1>2, DoesOn
<1> QED BY <1>3, <1>4, <1>5, <1>6, <1>7, <1>8 DEF IInv

LEMMA ReconcileStays ==
  ASSUME IInv, NEW q \in Requests, Reconcile(q)
  PROVE  IInv'
<1>1. Placed /\ SetupOK /\ RowsOK /\ RunsOK /\ JobsOK /\ Whole
  BY DEF IInv
<1>2. UNCHANGED <<deployment, date, setup, tables>> /\ Does(q) /\ At(q, "match")
  BY DEF Reconcile
<1>3. Placed' /\ SetupOK' /\ RowsOK' /\ Whole'
  BY <1>1, <1>2, PlacesStay, RowsStay, WholeStay
<1>4. PayoutsOK(job[q].snap.payouts) /\ BanksOK(job[q].snap.banks, today)
  BY <1>1 DEF JobsOK, JobOK
<1>5. RunsOK'
  BY <1>1, <1>4, RunsReconcile
<1>6. JobsOK'
  BY <1>1, JobsDo
<1>8. PlansOK' /\ AloneOK'
  BY <1>2, DoesOn
<1> QED BY <1>3, <1>5, <1>6, <1>8 DEF IInv

LEMMA ClearStays ==
  ASSUME IInv, NEW q \in Requests, ClearPostgres(q) \/ ClearMemory(q)
  PROVE  IInv'
<1>1. Placed /\ SetupOK /\ RowsOK /\ RunsOK /\ JobsOK /\ Whole
  BY DEF IInv
<1>2. UNCHANGED <<deployment, date, setup>>
  BY DEF ClearPostgres, ClearMemory
<1>3. Placed' /\ SetupOK' /\ RowsOK' /\ RunsOK' /\ Whole'
  BY <1>1, <1>2, PlacesStay, RowsClear, RunsClear, WholeClear
<1>4. JobsOK'
  BY <1>1, JobsDo, JobsDelete
<1>5. PlansOK' /\ AloneOK'
  <2>1. CASE ClearPostgres(q)
    BY <2>1, DeleteOn
  <2>2. CASE ClearMemory(q)
    BY <1>2, <2>2, DoesOn DEF ClearMemory
  <2> QED BY <2>1, <2>2
<1> QED BY <1>3, <1>4, <1>5 DEF IInv

(* Steps that store nothing.                                               *)
LEMMA QuietStays ==
  ASSUME IInv, NEW q \in Requests,
         \/ Fail(q) \/ Answer(q) \/ ReadAmount(q) \/ DeleteRuns(q) \/ DeleteLinks(q) \/ Check(q)
         \/ (\E kind \in deployment.load : Begin(q, kind)) \/ (\E table \in DOMAIN Books : Read(q, table))
  PROVE  IInv'
<1>1. UNCHANGED <<deployment, date, tables, runs, setup>>
  BY DEF Fail, Answer, ReadAmount, DeleteRuns, DeleteLinks, Check, Begin, Read
<1>2. Placed' /\ SetupOK' /\ RowsOK' /\ RunsOK' /\ Whole'
  BY <1>1, BooksStay
<1>a. JobsOK /\ RowsOK /\ Placed /\ PlansOK /\ AloneOK
  BY DEF IInv
<1>3. JobsOK'
  BY <1>a, JobsDo, JobsAmount, JobsDelete, JobsBegin, JobsRead
<1>4. PlansOK' /\ AloneOK'
  <2>1. CASE Fail(q)
    BY <1>1, <1>a, <2>1, EndsOn DEF Fail
  <2>2. CASE Answer(q)
    BY <1>1, <2>2, DoesOn DEF Answer
  <2>3. CASE ReadAmount(q) \/ DeleteRuns(q) \/ DeleteLinks(q)
    BY <2>3, AmountOn, DeleteOn
  <2>4. CASE Check(q)
    BY <1>1, <1>a, <2>4, DoesOn, EndsOn DEF Check
  <2>5. CASE \E kind \in deployment.load : Begin(q, kind)
    BY <1>a, <2>5, BeginsOn
  <2>6. CASE \E table \in DOMAIN Books : Read(q, table)
    BY <2>6, ReadOn
  <2> QED BY <2>1, <2>2, <2>3, <2>4, <2>5, <2>6
<1> QED BY <1>2, <1>3, <1>4 DEF IInv

LEMMA SetupStays ==
  ASSUME IInv, NEW a \in Answers, UpsertOnboardingStatus(a)
  PROVE  IInv'
<1>1. /\ setup' = Answered(setup, a) /\ UNCHANGED <<deployment, date, tables, runs, job>>
  BY DEF UpsertOnboardingStatus
<1>2. Placed' /\ RowsOK' /\ Whole'
  BY <1>1, RowsStay, WholeStay DEF IInv, Placed
<1>3. RunsOK'
  BY <1>1, RunsStay DEF IInv, tables, Stored
<1>4. JobsOK' /\ PlansOK' /\ AloneOK'
  <2>1. today' = today /\ Steps' = Steps
    BY <1>1, Unmoved, StepsSame
  <2>2. \A x : JobOK(x) => JobOK(x)'
    BY <1>1, <2>1 DEF JobOK
  <2>3. \A x : PlanOK(x) => PlanOK(x)'
    BY <2>1 DEF PlanOK
  <2> QED BY <1>1, <2>2, <2>3 DEF IInv, JobsOK, PlansOK, AloneOK
<1>5. SetupOK'
  <2>1. a.done \in BOOLEAN
    BY AnswersAssumption
  <2>2. SetupOK
    BY DEF IInv
  <2>3. /\ setup'.scenario = (IF Postgres /\ a.scenario = Blank THEN setup.scenario ELSE a.scenario)
        /\ setup'.business = (IF a.business # Blank THEN a.business
                              ELSE IF Postgres THEN setup.business ELSE deployment.type)
        /\ setup'.done = (setup.done \/ a.done) /\ setup'.checklist = a.checklist
        /\ DOMAIN setup' = {"scenario", "business", "checklist", "done"}
    BY <1>1 DEF Answered
  <2>4. setup'.scenario \in {Blank} \cup {x.scenario : x \in Answers}
    BY <2>2, <2>3 DEF SetupOK
  <2>5. setup'.business \in {Blank, deployment.type} \cup {x.business : x \in Answers}
    BY <2>2, <2>3 DEF SetupOK
  <2>6. setup'.done \in BOOLEAN /\ setup'.checklist \in {Blank} \cup {x.checklist : x \in Answers}
    BY <2>3
  <2> QED BY <1>1, <2>3, <2>4, <2>5, <2>6 DEF SetupOK
<1> QED BY <1>2, <1>3, <1>4, <1>5 DEF IInv

LEMMA TomorrowStays ==
  ASSUME IInv, Tomorrow
  PROVE  IInv'
<1>1. Placed /\ SetupOK /\ RowsOK /\ RunsOK /\ JobsOK /\ Whole /\ PlansOK /\ AloneOK
  BY DEF IInv
<1>2. UNCHANGED <<deployment, tables, runs, setup, job>>
  BY DEF Tomorrow
<1>3. Placed' /\ JobsOK' /\ RowsOK'
  BY <1>1, Later, JobsLater
<1>4. SetupOK' /\ Whole'
  BY <1>1, <1>2, WholeStay DEF SetupOK
<1>5. RunsOK'
  BY <1>1, <1>2, RunsStay DEF tables, Stored
<1>6. PlansOK' /\ AloneOK'
  <2>1. Steps' = Steps
    BY <1>2, StepsSame
  <2>2. \A x : PlanOK(x) => PlanOK(x)'
    BY <2>1 DEF PlanOK
  <2> QED BY <1>1, <1>2, <2>2 DEF PlansOK, AloneOK
<1> QED BY <1>3, <1>4, <1>5, <1>6 DEF IInv

LEMMA StutterStays ==
  ASSUME IInv, UNCHANGED vars
  PROVE  IInv'
<1>1. UNCHANGED <<deployment, date, tables, runs, setup, job>>
  BY DEF vars
<1>2. Placed' /\ SetupOK' /\ RowsOK' /\ RunsOK' /\ Whole'
  BY <1>1, BooksStay
<1>3. today' = today /\ Steps' = Steps
  BY <1>1, Unmoved, StepsSame
<1>4. (\A x : JobOK(x) => JobOK(x)') /\ (\A x : PlanOK(x) => PlanOK(x)')
  BY <1>1, <1>3 DEF JobOK, PlanOK
<1>5. JobsOK' /\ PlansOK' /\ AloneOK'
  BY <1>1, <1>4 DEF IInv, JobsOK, PlansOK, AloneOK
<1> QED BY <1>2, <1>5 DEF IInv

LEMMA NextIInv == IInv /\ [Next]_vars => IInv'
<1> SUFFICES ASSUME IInv, [Next]_vars PROVE IInv'
  OBVIOUS
<1>1. CASE UNCHANGED vars
  BY <1>1, StutterStays
<1>2. ASSUME NEW q \in Requests, SyncStripeDemo(q) \/ syncStripeMock(q) PROVE IInv'
  BY <1>2, SyncStays
<1>3. ASSUME NEW q \in Requests, SyncBank(q) PROVE IInv'
  BY <1>3, BankStays
<1>4. ASSUME NEW q \in Requests, Seed(q) PROVE IInv'
  BY <1>4, SeedStays
<1>5. ASSUME NEW q \in Requests, Reconcile(q) PROVE IInv'
  BY <1>5, ReconcileStays
<1>6. ASSUME NEW q \in Requests, ClearPostgres(q) \/ ClearMemory(q) PROVE IInv'
  BY <1>6, ClearStays
<1>7. ASSUME NEW q \in Requests,
             \/ Fail(q) \/ Answer(q) \/ ReadAmount(q) \/ DeleteRuns(q) \/ DeleteLinks(q) \/ Check(q)
             \/ (\E kind \in deployment.load : Begin(q, kind)) \/ (\E table \in DOMAIN Books : Read(q, table))
      PROVE  IInv'
  BY <1>7, QuietStays
<1>8. ASSUME NEW a \in Answers, UpsertOnboardingStatus(a) PROVE IInv'
  BY <1>8, SetupStays
<1>9. CASE Tomorrow
  BY <1>9, TomorrowStays
<1> QED BY <1>1, <1>2, <1>3, <1>4, <1>5, <1>6, <1>7, <1>8, <1>9 DEF Next

(* The books of an organization, over either storage, under any overlap of *)
(* requests: each part of the inductive invariant holds at all times.      *)
THEOREM Invariance == Spec => []IInv
<1>1. Init => IInv
  BY InitIInv
<1>2. IInv /\ [Next]_vars => IInv'
  BY NextIInv
<1> QED BY <1>1, <1>2, PTL DEF Spec

-----------------------------------------------------------------------------
(* The breakdown of a payout.                                              *)
Item(payout, kind, key, amount) ==
  [payout |-> payout, kind |-> kind, key |-> key, amount |-> amount]

LEMMA ItemRowsAre ==
  ASSUME NEW d \in Data, NEW o
  PROVE  ItemRows(d, o) = {Item(o, "payment", <<d, i>>, Charges[d][i][1]) : i \in Lines(d)}
                            \cup {Item(o, "fee", <<d, i>>, -Charges[d][i][2]) : i \in Lines(d)}
                            \cup {Item(o, "refund", <<d, Refunded[d]>>, -Back(d))}
<1>1. {[payout |-> o, kind |-> "payment", key |-> p.key, amount |-> p.amount] : p \in Paid(d, 1)}
        = {Item(o, "payment", <<d, i>>, Charges[d][i][1]) : i \in Lines(d)}
  <2>1. \A i : Payment(d, i, 1).key = <<d, i>> /\ Payment(d, i, 1).amount = Charges[d][i][1]
    BY DEF Payment
  <2> QED BY <2>1 DEF Paid, Lines, Item
<1>2. {[payout |-> o, kind |-> "fee", key |-> f.key, amount |-> -f.amount] : f \in Charged(d, 1, 1)}
        = {Item(o, "fee", <<d, i>>, -Charges[d][i][2]) : i \in Lines(d)}
  <2>1. \A i : Fee(d, i, 1, 1).key = <<d, i>> /\ Fee(d, i, 1, 1).amount = Charges[d][i][2]
    BY DEF Fee
  <2> QED BY <2>1 DEF Charged, Lines, Item
<1>3. {[payout |-> o, kind |-> "refund", key |-> r.key, amount |-> -r.amount] : r \in {Refund(d, 1, 1)}}
        = {Item(o, "refund", <<d, Refunded[d]>>, -Back(d))}
  <2>1. Refund(d, 1, 1).key = <<d, Refunded[d]>> /\ Refund(d, 1, 1).amount = Back(d)
    BY DEF Refund, Back
  <2> QED BY <2>1 DEF Item
<1> QED BY <1>1, <1>2, <1>3, Zenon DEF ItemRows

(* What the items of one kind come to.                                     *)
Worth(rows) == SumOver([i \in rows |-> 1 * i.amount])
ItemsLike(rows, o, kind, d, f) == rows = {Item(o, kind, <<d, i>>, f[i]) : i \in Lines(d)}

LEMMA KindTotal ==
  ASSUME NEW d \in Data, NEW o, NEW kind, NEW rows, NEW f, \A i \in Lines(d) : f[i] \in Int,
         ItemsLike(rows, o, kind, d, f)
  PROVE  Worth(rows) = Part(f, Lines(d))
<1> DEFINE m == [i \in Lines(d) |-> Item(o, kind, <<d, i>>, f[i])]
           e == [i \in rows |-> 1 * i.amount]
<1>1. \A i, j \in Lines(d) : m[i] = m[j] => i = j
  <2> TAKE i, j \in Lines(d)
  <2>1. m[i].key = <<d, i>> /\ m[j].key = <<d, j>>
    BY DEF Item
  <2> QED BY <2>1
<1>2. rows = {m[i] : i \in Lines(d)}
  BY DEF ItemsLike
<1>3. \A i \in Lines(d) : e[m[i]] = f[i]
  BY <1>2 DEF Item
<1>4. Part(e, {m[i] : i \in Lines(d)}) = Part(f, Lines(d))
  <2> HIDE DEF m, e
  <2> QED BY <1>1, <1>3, LinesFinite, PartRenamed
<1>5. Part(e, rows) = SumOver(e)
  <2>1. e = [i \in rows |-> e[i]]
    OBVIOUS
  <2> HIDE DEF e
  <2> QED BY <2>1 DEF Part
<1> HIDE DEF m, e
<1>6. SumOver(e) = Part(f, Lines(d))
  BY <1>2, <1>4, <1>5
<1> QED BY <1>6 DEF e, Worth

LEMMA OneTotal ==
  ASSUME NEW o, NEW key, NEW n \in Int, NEW rows, rows = {Item(o, "refund", key, n)}
  PROVE  Worth(rows) = n
<1> DEFINE r == Item(o, "refund", key, n)
           e == [i \in {r} |-> 1 * i.amount]
<1>1. r.amount = n
  BY DEF Item
<1>2. e[r] = n
  BY <1>1
<1>3. Part(e, {r}) = n
  <2>1. {r} \ {r} = {} /\ IsFiniteSet({r}) /\ \A x \in {r} : e[x] \in Int
    BY <1>2, FS_Singleton
  <2> HIDE DEF e, r
  <2>2. Part(e, {r}) = e[r] + Part(e, {r} \ {r})
    BY <2>1, PartStep
  <2>3. Part(e, {r}) = n + 0
    BY <1>2, <2>1, <2>2, PartEmpty, Zenon
  <2> QED BY <2>3
<1>4. Part(e, {r}) = SumOver(e)
  <2>1. e = [i \in {r} |-> e[i]]
    OBVIOUS
  <2> HIDE DEF e, r
  <2> QED BY <2>1 DEF Part
<1>5. SumOver(e) = n
  <2> HIDE DEF e, r
  <2> QED BY <1>3, <1>4
<1> QED BY <1>5 DEF Worth

LEMMA BreakdownIs ==
  ASSUME NEW d \in Data, NEW o, NEW p, p.id = o, items = ItemsOf(d, o)
  PROVE  /\ Breakdown(p).gross = Sales(d) /\ Breakdown(p).fees = Costs(d)
         /\ Breakdown(p).refunds = Back(d) /\ Breakdown(p).net = p.amount
<1> DEFINE Of(kind) == {i \in DOMAIN items : i.payout = o /\ i.kind = kind}
           total(kind) == SumOver([i \in Of(kind) |-> items[i] * i.amount])
           f == [i \in Lines(d) |-> Charges[d][i][1]]
           g == [i \in Lines(d) |-> -Charges[d][i][2]]
           h == [i \in Lines(d) |-> Charges[d][i][2]]
<1>1. DOMAIN items = ItemRows(d, o) /\ \A i \in DOMAIN items : items[i] = 1
  BY ItemsAre
<1>2. \A x \in Lines(d) : Charges[d][x][1] \in Nat /\ Charges[d][x][2] \in Nat
  BY ChargesOK
<1>3. /\ Of("payment") = {Item(o, "payment", <<d, i>>, f[i]) : i \in Lines(d)}
      /\ Of("fee") = {Item(o, "fee", <<d, i>>, g[i]) : i \in Lines(d)}
      /\ Of("refund") = {Item(o, "refund", <<d, Refunded[d]>>, -Back(d))}
  <2> DEFINE P == {Item(o, "payment", <<d, i>>, Charges[d][i][1]) : i \in Lines(d)}
             F == {Item(o, "fee", <<d, i>>, -Charges[d][i][2]) : i \in Lines(d)}
             R == {Item(o, "refund", <<d, Refunded[d]>>, -Back(d))}
  <2>a. ItemRows(d, o) = P \cup F \cup R
    BY ItemRowsAre, Zenon
  <2>1. DOMAIN items = P \cup F \cup R
    BY <1>1, <2>a, Zenon
  <2>2. /\ \A i \in P : i.payout = o /\ i.kind = "payment"
        /\ \A i \in F : i.payout = o /\ i.kind = "fee"
        /\ \A i \in R : i.payout = o /\ i.kind = "refund"
    BY DEF Item
  <2> HIDE DEF P, F, R
  <2>3. Of("payment") = P /\ Of("fee") = F /\ Of("refund") = R
    BY <2>1, <2>2
  <2>4. P = {Item(o, "payment", <<d, i>>, f[i]) : i \in Lines(d)}
    BY DEF P
  <2>5. F = {Item(o, "fee", <<d, i>>, g[i]) : i \in Lines(d)}
    BY DEF F
  <2> QED BY <2>3, <2>4, <2>5 DEF R
<1>4. ASSUME NEW kind PROVE total(kind) = Worth(Of(kind))
  <2>1. [i \in Of(kind) |-> items[i] * i.amount] = [i \in Of(kind) |-> 1 * i.amount]
    BY <1>1
  <2> QED BY <2>1 DEF Worth
<1>5. (\A i \in Lines(d) : f[i] \in Int) /\ (\A i \in Lines(d) : g[i] \in Int /\ h[i] \in Int)
  BY <1>2
<1>6. -Back(d) \in Int /\ Back(d) \in Int
  <2>1. Refunded[d] \in Lines(d)
    BY ChargesOK
  <2>2. Back(d) \in Nat
    BY <1>2, <2>1 DEF Back
  <2> QED BY <2>2
<1>7. Part(g, Lines(d)) = -Costs(d)
  <2>1. \A i \in Lines(d) : h[i] \in Int /\ g[i] = (-1) * h[i] + 0 * h[i]
    BY <1>2
  <2>2. Costs(d) = Part(h, Lines(d)) /\ IsFiniteSet(Lines(d))
    BY LinesFinite DEF Costs
  <2> HIDE DEF g, h
  <2>3. Combines(g, -1, h, 0, h, Lines(d))
    BY <1>5, <2>1 DEF Combines
  <2>4. Part(g, Lines(d)) = (-1) * Part(h, Lines(d)) + 0 * Part(h, Lines(d))
    BY <2>2, <2>3, PartCombined
  <2>5. Part(h, Lines(d)) \in Int
    BY <1>5, <2>2, PartInt
  <2> QED BY <2>2, <2>4, <2>5
<1>8. Part(f, Lines(d)) = Sales(d)
  BY DEF Sales
<1>9. Sales(d) \in Int /\ Costs(d) \in Int
  <2>1. Costs(d) = Part(h, Lines(d)) /\ IsFiniteSet(Lines(d))
    BY LinesFinite DEF Costs
  <2> HIDE DEF f, h
  <2> QED BY <1>5, <1>8, <2>1, PartInt
<1>10. Breakdown(p) = [gross |-> total("payment"), fees |-> -total("fee"), refunds |-> -total("refund"),
                       net |-> p.amount]
  BY DEF Breakdown
<1> HIDE DEF Of, f, g, h
<1>11. total("payment") = Sales(d)
  <2>1. Worth(Of("payment")) = Part(f, Lines(d))
    <3>1. ItemsLike(Of("payment"), o, "payment", d, f)
      BY <1>3 DEF ItemsLike
    <3> QED BY <1>5, <3>1, KindTotal
  <2> QED BY <1>4, <1>8, <2>1
<1>12. total("fee") = -Costs(d)
  <2>1. Worth(Of("fee")) = Part(g, Lines(d))
    <3>1. ItemsLike(Of("fee"), o, "fee", d, g)
      BY <1>3 DEF ItemsLike
    <3> QED BY <1>5, <3>1, KindTotal
  <2> QED BY <1>4, <1>7, <2>1
<1>13. total("refund") = -Back(d)
  <2>1. Worth(Of("refund")) = -Back(d)
    BY <1>3, <1>6, OneTotal
  <2> QED BY <1>4, <2>1
<1> HIDE DEF total
<1> QED BY <1>6, <1>9, <1>10, <1>11, <1>12, <1>13

LEMMA AddsUp == IInv => ItemsAddUp
<1> SUFFICES ASSUME IInv, Postgres
             PROVE  /\ \A p \in payouts : LET b == Breakdown(p) IN b.gross - b.fees - b.refunds = b.net
                    /\ \A i \in DOMAIN items : \E p \in payouts : p.id = i.payout
  BY DEF ItemsAddUp
<1>1. Placed /\ Whole
  BY DEF IInv
<1>2. \A d \in Samples : d \in Data
  BY <1>1, Places
<1>3. CASE payouts = {} /\ items = EmptyBag
  BY <1>3 DEF EmptyBag, SetToBag
<1>4. CASE \E d \in Samples, id \in Ids, day \in Nat, cur \in Currencies :
             payouts = {Payout(d, id, day, cur)} /\ items = ItemsOf(d, id)
  <2>1. PICK d \in Samples, id \in Ids, day \in Nat, cur \in Currencies :
          payouts = {Payout(d, id, day, cur)} /\ items = ItemsOf(d, id)
    BY <1>4
  <2>2. Payout(d, id, day, cur).id = id /\ Payout(d, id, day, cur).amount = Net[d]
    BY DEF Payout
  <2>3. ASSUME NEW p \in payouts
        PROVE  LET b == Breakdown(p) IN b.gross - b.fees - b.refunds = b.net
    <3>1. p.id = id /\ p.amount = Net[d]
      BY <2>1, <2>2
    <3>2. /\ Breakdown(p).gross = Sales(d) /\ Breakdown(p).fees = Costs(d)
          /\ Breakdown(p).refunds = Back(d) /\ Breakdown(p).net = p.amount
      BY <1>2, <2>1, <3>1, BreakdownIs
    <3> QED BY <1>2, <3>1, <3>2, NetIs
  <2>4. \A i \in DOMAIN items : i.payout = id
    BY <1>2, <2>1, ItemsAre
  <2> QED BY <2>1, <2>2, <2>3, <2>4
<1> QED BY <1>1, <1>3, <1>4 DEF Whole, PayoutWhole

(* Each row once, and fees and refunds with the payments they name.        *)
LEMMA NamedStored ==
  ASSUME NEW d \in Data, NEW of, Named(d, of), of # 0, NEW key \in LineKeys(d)
  PROVE  \E p \in payments : p.id = of /\ p.key = key
<1>1. PaidOf(d) = Paid(d, of)
  BY DEF Named
<1>2. PICK i \in Lines(d) : key = <<d, i>>
  BY DEF LineKeys
<1>3. Payment(d, i, of).id = of /\ Payment(d, i, of).key = key
  BY <1>2 DEF Payment
<1>4. Payment(d, i, of) \in PaidOf(d)
  BY <1>1 DEF Paid, Lines
<1> QED BY <1>3, <1>4 DEF PaidOf, Among

LEMMA Resolved == IInv => LinksResolve
<1> SUFFICES ASSUME IInv, Postgres
             PROVE  /\ \A table \in {payments, fees, refunds, payouts, banks} :
                         \A r, o \in table : r.key = o.key => r = o
                    /\ \A r \in fees \cup refunds :
                         r.of # 0 => \E p \in payments : p.id = r.of /\ p.key = r.key
  BY DEF LinksResolve
<1>1. Placed /\ RowsOK /\ Covered /\ PayoutWhole /\ Lot \subseteq Samples /\ \A d \in Samples : WholeOf(d)
  BY LotIs DEF IInv, Whole
<1>2. \A d \in Samples : d \in Data
  BY <1>1, Places
<1>3. \A r \in payments \cup fees \cup refunds : \E d \in Samples : r.key \in LineKeys(d)
  BY <1>1 DEF Covered
<1>4. ASSUME NEW d \in Samples
      PROVE  /\ \A r, o \in PaidOf(d) : r.key = o.key => r = o
             /\ \A r, o \in FeesOf(d) : r.key = o.key => r = o
             /\ \A r, o \in RefundsOf(d) : r.key = o.key => r = o
  BY <1>1, WholeSole
<1>5. \A r, o \in payments : r.key = o.key => r = o
  BY <1>3, <1>4 DEF PaidOf, Among
<1>6. \A r, o \in fees : r.key = o.key => r = o
  BY <1>3, <1>4 DEF FeesOf, Among
<1>7. \A r, o \in refunds : r.key = o.key => r = o
  BY <1>3, <1>4 DEF RefundsOf, Among
<1>8. \A r, o \in payouts : r.key = o.key => r = o
  BY <1>1 DEF PayoutWhole
<1>9. \A r, o \in banks : r.key = o.key => r = o
  <2>1. \A b \in banks : b.key \in SyncedKeys
    BY <1>1 DEF Covered, Samples, SyncedKeys
  <2> QED BY <1>1, <2>1 DEF RowsOK, Sole
<1>10. ASSUME NEW r \in fees, r.of # 0 PROVE \E p \in payments : p.id = r.of /\ p.key = r.key
  <2>1. PICK d \in Samples : r \in FeesOf(d) /\ r.key \in LineKeys(d)
    BY <1>3 DEF FeesOf, Among
  <2>2. PICK id \in Ids, of \in Ids \cup {0} : FeesOf(d) = Charged(d, id, of) /\ Named(d, of)
    BY <1>1, <2>1 DEF WholeOf, FeesWhole
  <2>3. PICK i \in Lines(d) : r = Fee(d, i, id, of)
    BY <2>1, <2>2 DEF Charged, Lines
  <2>4. r.of = of
    BY <2>3 DEF Fee
  <2> QED BY <1>2, <1>10, <2>1, <2>2, <2>4, NamedStored
<1>11. ASSUME NEW r \in refunds, r.of # 0 PROVE \E p \in payments : p.id = r.of /\ p.key = r.key
  <2>1. PICK d \in Samples : r \in RefundsOf(d) /\ r.key \in LineKeys(d)
    BY <1>3 DEF RefundsOf, Among
  <2>2. PICK id \in Ids, of \in Ids \cup {0} : RefundsOf(d) = {Refund(d, id, of)} /\ Named(d, of)
    BY <1>1, <2>1 DEF WholeOf, RefundsWhole
  <2>3. r.of = of
    BY <2>1, <2>2 DEF Refund
  <2> QED BY <1>2, <1>11, <2>1, <2>2, <2>3, NamedStored
<1> QED BY <1>5, <1>6, <1>7, <1>8, <1>9, <1>10, <1>11

LEMMA MatchedResolved == IInv => MatchesResolve
BY DEF IInv, RunsOK, MatchesOK, MatchesResolve, Cut

LEMMA Typed == IInv => TypeOK
<1> SUFFICES ASSUME IInv PROVE TypeOK
  OBVIOUS
<1>1. Placed /\ SetupOK /\ RowsOK /\ RunsOK /\ JobsOK /\ Whole
  BY DEF IInv
<1>2. \A r \in payments \cup fees \cup refunds \cup payouts \cup banks : r.id \in Ids /\ r.amount \in Nat
  BY <1>1 DEF RowsOK, PayoutsOK, BanksOK, PaymentRows, ChargeRows, PayoutRows, BankRows
<1>3. \A r \in fees \cup refunds : r.of \in Ids \cup {0}
  BY <1>1 DEF RowsOK, ChargeRows
<1>4. IsABag(items) /\ \A i \in DOMAIN items : i.payout \in Ids /\ i.amount \in Int
  <2>1. CASE items = EmptyBag
    <3>1. items = [i \in {} |-> 1]
      BY <2>1 DEF EmptyBag, SetToBag
    <3> QED BY <3>1 DEF IsABag
  <2>2. CASE items # EmptyBag
    <3>1. PICK d \in Samples, id \in Ids : items = ItemsOf(d, id)
      BY <1>1, <2>2 DEF Whole, PayoutWhole
    <3>2. d \in Data
      BY <1>1, Places
    <3>3. items = [i \in ItemRows(d, id) |-> 1] /\ \A i \in ItemRows(d, id) : i.payout = id
      BY <3>1, <3>2, ItemsAre
    <3>4. \A i \in ItemRows(d, id) : i.amount \in Int
      <4>1. \A i \in Lines(d) : Charges[d][i][1] \in Int /\ -Charges[d][i][2] \in Int
        BY <3>2, ChargesOK
      <4>2. -Back(d) \in Int
        <5>1. Refunded[d] \in Lines(d) /\ \A i \in Lines(d) : Charges[d][i][1] \in Nat
          BY <3>2, ChargesOK
        <5>2. Back(d) \in Nat
          BY <5>1 DEF Back
        <5> QED BY <5>2
      <4> QED BY <3>2, <4>1, <4>2, ItemRowsAre DEF Item
    <3> QED BY <3>3, <3>4 DEF IsABag
  <2> QED BY <2>1, <2>2
<1>5. \A r \in runs : r.id \in Ids /\ \A m \in r.matches : DOMAIN m = {"payout", "deposit"}
  BY <1>1 DEF RunsOK, MatchesOK
<1>6. ASSUME NEW q \in Requests
      PROVE  IF job[q].kind = None THEN job[q] = Idle ELSE job[q].kind \in deployment.load /\ job[q].todo # <<>>
  <2>1. None \notin deployment.load /\ JobOK(job[q])
    BY <1>1, Kinds DEF JobsOK
  <2> QED BY <2>1, IdleOK DEF JobOK
<1> QED BY <1>1, <1>2, <1>3, <1>4, <1>5, <1>6 DEF TypeOK, Placed, SetupOK

(* The books of an organization hold together under any overlap of syncs,  *)
(* runs and resets and wherever one of them fails: rows are of their types *)
(* and stored once, the items of a payout add up to it, and what fees,     *)
(* refunds and matches name is there.                                      *)
THEOREM BooksHoldTogether == Spec => []BooksOK
<1>1. IInv => BooksOK
  BY AddsUp, Resolved, MatchedResolved, Typed DEF BooksOK
<1> QED BY <1>1, Invariance, PTL

-----------------------------------------------------------------------------
(***************************************************************************)
(* What is read from the tables.                                           *)
(***************************************************************************)
LEMMA TotalInt ==
  ASSUME NEW rows, IsFiniteSet(rows), \A r \in rows : r.amount \in Int
  PROVE  Total(rows) \in Int
<1> DEFINE a == [r \in rows |-> r.amount]
<1>1. \A r \in rows : a[r] \in Int
  OBVIOUS
<1>2. Part(a, rows) \in Int
  <2> HIDE DEF a
  <2> QED BY <1>1, PartInt
<1> QED BY <1>2, TotalIsPart

(* The lines that were paid and not refunded.                              *)
Succeeded(d) == {i \in Lines(d) : ~ (d = "restaurant" /\ i = Refunded[d])}
Kept(d) == Part([i \in Lines(d) |-> Charges[d][i][1]], Succeeded(d))

LEMMA LinesTotal ==
  ASSUME NEW d \in Data, NEW S \in SUBSET Lines(d), NEW id
  PROVE  Total({Payment(d, i, id) : i \in S}) = Part([i \in Lines(d) |-> Charges[d][i][1]], S)
<1> DEFINE f == [i \in Lines(d) |-> Charges[d][i][1]]
           m == [i \in S |-> Payment(d, i, id)]
           rows == {m[i] : i \in S}
           a == [r \in rows |-> r.amount]
<1>1. \A i \in S : f[i] \in Int
  BY ChargesOK
<1>2. \A i, j \in S : m[i] = m[j] => i = j
  <2> TAKE i, j \in S
  <2>1. m[i].key = <<d, i>> /\ m[j].key = <<d, j>>
    BY DEF Payment
  <2> QED BY <2>1
<1>3. \A i \in S : a[m[i]] = f[i]
  BY DEF Payment
<1>4. IsFiniteSet(S)
  BY LinesFinite, FS_Subset
<1>5. Total(rows) = Part(a, rows)
  BY TotalIsPart
<1>6. Part(a, {m[i] : i \in S}) = Part(f, S)
  <2> HIDE DEF f, m, a
  <2> QED BY <1>1, <1>2, <1>3, <1>4, PartRenamed
<1>7. {Payment(d, i, id) : i \in S} = rows
  OBVIOUS
<1> QED BY <1>5, <1>6, <1>7

LEMMA PaidByStatus ==
  ASSUME NEW d \in Data, NEW id
  PROVE  /\ Total({p \in Paid(d, id) : p.status = "succeeded"}) = Kept(d)
         /\ Total({p \in Paid(d, id) : p.status = "refunded"}) = Sales(d) - Kept(d)
         /\ Kept(d) \in Int
<1> DEFINE f == [i \in Lines(d) |-> Charges[d][i][1]]
           rest == Lines(d) \ Succeeded(d)
<1>1. /\ {p \in Paid(d, id) : p.status = "succeeded"} = {Payment(d, i, id) : i \in Succeeded(d)}
      /\ {p \in Paid(d, id) : p.status = "refunded"} = {Payment(d, i, id) : i \in rest}
  <2>1. \A i : Payment(d, i, id).status = IF d = "restaurant" /\ i = Refunded[d] THEN "refunded" ELSE "succeeded"
    BY DEF Payment
  <2>2. Paid(d, id) = {Payment(d, i, id) : i \in Lines(d)}
    BY DEF Paid, Lines
  <2> QED BY <2>1, <2>2 DEF Succeeded
<1>2. Succeeded(d) \subseteq Lines(d) /\ rest \subseteq Lines(d) /\ Lines(d) \cap Succeeded(d) = Succeeded(d)
  BY DEF Succeeded
<1>3. \A i \in Lines(d) : f[i] \in Int
  BY ChargesOK
<1>4. Part(f, Lines(d)) = Part(f, Succeeded(d)) + Part(f, rest)
  <2>1. IsFiniteSet(Lines(d))
    BY LinesFinite
  <2> DEFINE L == Lines(d)
             T == Succeeded(d)
  <2>2. IsFiniteSet(L) /\ \A i \in L : f[i] \in Int
    BY <1>3, <2>1
  <2> HIDE DEF f, L, T
  <2>3. Part(f, L) = Part(f, L \cap T) + Part(f, L \ T)
    BY <2>2, PartSplit
  <2> QED BY <1>2, <2>3 DEF L, T
<1>5. Part(f, Succeeded(d)) \in Int /\ Part(f, rest) \in Int
  <2>1. IsFiniteSet(Succeeded(d)) /\ IsFiniteSet(rest)
    BY <1>2, LinesFinite, FS_Subset
  <2> HIDE DEF f
  <2> QED BY <1>2, <1>3, <2>1, PartInt
<1>6. Total({p \in Paid(d, id) : p.status = "succeeded"}) = Part(f, Succeeded(d))
  BY <1>1, <1>2, LinesTotal
<1>7. Total({p \in Paid(d, id) : p.status = "refunded"}) = Part(f, rest)
  BY <1>1, <1>2, LinesTotal
<1> QED BY <1>4, <1>5, <1>6, <1>7 DEF Kept, Sales

(* The report of a month on a set of sample data.                          *)
LEMMA MonthIs ==
  ASSUME NEW d \in Data, NEW s, NEW a, s.payments = Paid(d, a),
         Total(s.fees) = Costs(d), Total(s.refunds) = Back(d)
  PROVE  MonthlyReport(s) = [net |-> Kept(d) - Back(d) - Costs(d), payouts |-> Total(s.payouts)]
BY PaidByStatus DEF MonthlyReport

LEMMA PayoutTotal ==
  ASSUME NEW d \in Data, NEW o, NEW day, NEW cur
  PROVE  Total({Payout(d, o, day, cur)}) = Net[d]
<1>1. Payout(d, o, day, cur).amount = Net[d] /\ Net[d] \in Int
  BY NetNat DEF Payout
<1> QED BY <1>1, TotalSingle

(* What is stored over Postgres once there are payments, of one sample.    *)
Complete(pay, fee, ref, out, d) ==
  /\ \E id : pay = Paid(d, id)
  /\ \E id, of : fee = Charged(d, id, of)
  /\ \E id, of : ref = {Refund(d, id, of)}
  /\ \E id, day, cur : out = {Payout(d, id, day, cur)}

LEMMA CompleteMonth ==
  ASSUME NEW d \in Data, NEW s, Complete(s.payments, s.fees, s.refunds, s.payouts, d)
  PROVE  /\ MonthlyReport(s) = [net |-> Kept(d) - Back(d) - Costs(d), payouts |-> Net[d]]
         /\ Total(s.payments) = Sales(d) /\ Total(s.fees) = Costs(d) /\ Total(s.refunds) = Back(d)
<1>1. PICK a : s.payments = Paid(d, a)
  BY DEF Complete
<1>2. PICK b, c : s.fees = Charged(d, b, c)
  BY DEF Complete
<1>3. PICK e, g : s.refunds = {Refund(d, e, g)}
  BY DEF Complete
<1>4. PICK o, day, cur : s.payouts = {Payout(d, o, day, cur)}
  BY DEF Complete
<1>5. Total(s.payments) = Sales(d)
  BY <1>1, PaidTotal
<1>6. Total(s.fees) = Costs(d)
  BY <1>2, ChargedTotal
<1>7. Total(s.refunds) = Back(d)
  BY <1>3, RefundTotal
<1>8. Total(s.payouts) = Net[d]
  BY <1>4, PayoutTotal
<1> QED BY <1>1, <1>5, <1>6, <1>7, <1>8, MonthIs

LEMMA WholeComplete ==
  ASSUME Whole, Placed, Postgres, payments # {} \/ payouts # {}, OneSample(Books)
  PROVE  \E d \in Samples : /\ Complete(payments, fees, refunds, payouts, d)
                            /\ payments # {} /\ \A r \in payments : r.key[1] = d
<1>1. Covered /\ Lot \subseteq Samples /\ \A d \in Samples : WholeOf(d) /\ d \in Data
  BY LotIs, Places DEF Whole
<1>2. PICK d \in Samples, id \in Ids, day \in Nat, cur \in Currencies :
        payouts = {Payout(d, id, day, cur)} /\ PaidOf(d) # {}
  BY DEF Whole, PayoutWhole
<1>3. PICK x \in payments : x.key \in LineKeys(d)
  BY <1>2 DEF PaidOf, Among
<1>4. /\ Books.payments = payments /\ Books.fees = fees /\ Books.refunds = refunds
      /\ \A e \in Data : \A k : k \in LineKeys(e) => k[1] = e
  BY SamplesApart DEF Books
<1>5. x.key[1] = d
  BY <1>1, <1>3, <1>4
<1>6. \A r \in payments \cup fees \cup refunds : r.key[1] = d
  BY <1>3, <1>4, <1>5 DEF OneSample
<1>7. \A r \in payments \cup fees \cup refunds : r.key \in LineKeys(d)
  BY <1>1, <1>4, <1>6 DEF Covered
<1>8. payments = PaidOf(d) /\ fees = FeesOf(d) /\ refunds = RefundsOf(d)
  BY <1>7 DEF PaidOf, FeesOf, RefundsOf, Among
<1>9. /\ \E a : payments = Paid(d, a)
      /\ \E b, of : fees = Charged(d, b, of)
      /\ \E b, of : refunds = {Refund(d, b, of)}
  <2>1. PaidWhole(d) /\ FeesWhole(d) /\ RefundsWhole(d) /\ FeesOf(d) # {} /\ RefundsOf(d) # {}
    BY <1>1, <1>2 DEF WholeOf
  <2>2. \E a : payments = Paid(d, a)
    BY <1>2, <1>8, <2>1 DEF PaidWhole
  <2>3. \E b, of : fees = Charged(d, b, of)
    BY <1>8, <2>1 DEF FeesWhole
  <2>4. \E b, of : refunds = {Refund(d, b, of)}
    BY <1>8, <2>1 DEF RefundsWhole
  <2> QED BY <2>2, <2>3, <2>4
<1> QED BY <1>2, <1>3, <1>6, <1>9 DEF Complete

(* The same of the state after a step.                                     *)
Settled == Whole /\ Placed /\ Postgres /\ payments # {} /\ OneSample(Books)
AllOf(d) == Complete(payments, fees, refunds, payouts, d) /\ \A r \in payments : r.key[1] = d

LEMMA SettledNext == Settled' => (\E d \in Samples : AllOf(d))'
<1>1. Settled => \E d \in Samples : AllOf(d)
  BY WholeComplete DEF Settled, AllOf
<1> QED BY <1>1, PTL

(* Over Postgres payments go all together.                                 *)
LEMMA PaymentsStay ==
  ASSUME IInv, Postgres, [Next]_vars, payments' # {}
  PROVE  \A x \in payments : \E y \in payments' : y.key = x.key
<1>1. CASE payments' = payments
  BY <1>1
<1>2. CASE \E q \in Requests : SyncStripeDemo(q)
  <2>1. PICK q \in Requests : SyncStripeDemo(q)
    BY <1>2
  <2>2. \A k \in {r.key : r \in payments} : k \in {r.key : r \in payments'}
    BY <2>1, WholeSync DEF IInv
  <2> TAKE x \in payments
  <2>3. x.key \in {r.key : r \in payments'}
    BY <2>2
  <2> QED BY <2>3
<1>3. payments' = payments \/ \E q \in Requests : SyncStripeDemo(q)
  <2>1. ASSUME NEW q \in Requests PROVE ~ Seed(q) /\ ~ syncStripeMock(q) /\ ~ ClearMemory(q) /\ ~ ClearPostgres(q)
    BY Unseeded DEF Seed, syncStripeMock, ClearMemory, ClearPostgres
  <2>2. ASSUME NEW q \in Requests,
               \/ Fail(q) \/ Answer(q) \/ ReadAmount(q) \/ DeleteRuns(q) \/ DeleteLinks(q) \/ Check(q)
               \/ SyncBank(q) \/ Reconcile(q)
               \/ (\E kind \in deployment.load : Begin(q, kind)) \/ (\E table \in DOMAIN Books : Read(q, table))
        PROVE  payments' = payments
    BY <2>2 DEF Fail, Answer, ReadAmount, DeleteRuns, DeleteLinks, Check, SyncBank, Reconcile, Begin, Read, tables
  <2>3. ASSUME Tomorrow \/ UNCHANGED vars \/ \E a \in Answers : UpsertOnboardingStatus(a)
        PROVE  payments' = payments
    BY <2>3 DEF Tomorrow, UpsertOnboardingStatus, vars, tables
  <2> QED BY <2>1, <2>2, <2>3 DEF Next
<1> QED BY <1>1, <1>2, <1>3

LEMMA NextPlaces ==
  ASSUME [Next]_vars PROVE deployment' = deployment
BY DEF Next, vars, Begin, Fail, Read, Answer, SyncStripeDemo, syncStripeMock, ReadAmount, SyncBank,
       DeleteRuns, DeleteLinks, ClearPostgres, ClearMemory, Check, Seed, Reconcile,
       UpsertOnboardingStatus, Tomorrow

LEMMA NextSetup ==
  ASSUME [Next]_vars PROVE setup' = setup \/ \E a \in Answers : setup' = Answered(setup, a)
BY DEF Next, vars, Begin, Fail, Read, Answer, SyncStripeDemo, syncStripeMock, ReadAmount, SyncBank,
       DeleteRuns, DeleteLinks, ClearPostgres, ClearMemory, Check, Seed, Reconcile,
       UpsertOnboardingStatus, Tomorrow

LEMMA BooksKept ==
  ASSUME IInv, IInv', [Next]_vars
  PROVE  SyncKeepsBooks
<1> SUFFICES ASSUME Postgres, payments # {}, payments' # {}, OneSample(Books), OneSample(Books)'
             PROVE  MonthlyReport(Books)' = MonthlyReport(Books)
  BY DEF SyncKeepsBooks
<1>1. deployment' = deployment /\ \A d \in Samples : d \in Data
  BY NextPlaces, Places DEF IInv
<1>2. PICK d \in Samples : Complete(payments, fees, refunds, payouts, d) /\ \A r \in payments : r.key[1] = d
  BY WholeComplete DEF IInv
<1>3. PICK e \in Samples : Complete(payments', fees', refunds', payouts', e) /\ \A r \in payments' : r.key[1] = e
  <2>1. Settled'
    BY <1>1 DEF IInv, Postgres, Settled
  <2>2. (\E c \in Samples : AllOf(c))'
    BY <2>1, SettledNext
  <2> QED BY <2>2 DEF Complete, AllOf
<1>4. d = e
  <2>1. PICK x \in payments : TRUE
    OBVIOUS
  <2>2. PICK y \in payments' : y.key = x.key
    BY PaymentsStay
  <2> QED BY <1>2, <1>3, <2>1, <2>2
<1>5. /\ Books.payments = payments /\ Books.fees = fees /\ Books.refunds = refunds /\ Books.payouts = payouts
      /\ Books'.payments = payments' /\ Books'.fees = fees' /\ Books'.refunds = refunds'
      /\ Books'.payouts = payouts'
  BY DEF Books
<1> DEFINE r == [net |-> Kept(d) - Back(d) - Costs(d), payouts |-> Net[d]]
<1>6. MonthlyReport(Books) = r
  BY <1>1, <1>2, <1>5, CompleteMonth
<1>7. MonthlyReport(Books') = r
  BY <1>1, <1>3, <1>4, <1>5, CompleteMonth
<1>8. MonthlyReport(Books)' = MonthlyReport(Books')
  BY DEF MonthlyReport
<1> QED BY <1>6, <1>7, <1>8

LEMMA AnswersStay ==
  ASSUME IInv, [Next]_vars
  PROVE  AnswersKept
<1>1. CASE setup' = setup
  BY <1>1 DEF AnswersKept
<1>2. CASE \E a \in Answers : setup' = Answered(setup, a)
  <2>1. PICK a \in Answers : setup' = Answered(setup, a)
    BY <1>2
  <2>2. /\ setup'.scenario = (IF Postgres /\ a.scenario = Blank THEN setup.scenario ELSE a.scenario)
        /\ setup'.business = (IF a.business # Blank THEN a.business
                              ELSE IF Postgres THEN setup.business ELSE deployment.type)
        /\ setup'.done = (setup.done \/ a.done)
    BY <2>1 DEF Answered
  <2>3. setup.done => setup'.done
    BY <2>2
  <2>4. Postgres => (setup.scenario # Blank => setup'.scenario # Blank)
                      /\ (setup.business # Blank => setup'.business # Blank)
    BY <2>2
  <2> QED BY <2>3, <2>4 DEF AnswersKept
<1> QED BY <1>1, <1>2, NextSetup

(* A sync that is repeated leaves the report of the month as it was, and   *)
(* an answer of the onboarding is not taken back by a later one.           *)
THEOREM RepeatsAreHarmless == Spec => RepeatsLoseNothing
<1>1. IInv /\ IInv' /\ [Next]_vars => [SyncKeepsBooks /\ AnswersKept]_vars
  BY BooksKept, AnswersStay
<1> QED BY <1>1, Invariance, PTL DEF Spec, RepeatsLoseNothing

-----------------------------------------------------------------------------
(* The reports on a snapshot, a torn one too.                              *)
LEMMA SeenIs ==
  ASSUME IInv, NEW q \in Requests
  PROVE  /\ PayoutsOK(Seen(q).payouts) /\ BanksOK(Seen(q).banks, today) /\ Seen(q).today = today
         /\ Seen(q).ordered <=> Postgres
BY DEF IInv, JobsOK, JobOK, Seen, Listed

LEMMA NotNone == \A b \in BankRows : b.key # None
BY KeysApart DEF BankRows, BankNames, Data, None

LEMMA ExplainIs ==
  ASSUME NEW s, NEW p, NEW e \in Explain(p, s)
  PROVE  /\ e.payout = p.key /\ e.gross = Gross(p, s) /\ e.fees = Total(s.fees)
         /\ e.refunds = Total(s.refunds) /\ e.net = p.amount
         /\ Reached(p, s) = {} => e.deposit = None
         /\ Reached(p, s) # {} =>
              \E b \in Reached(p, s) : e.deposit = b.key /\ e.warnings = Warnings(p, b) \cup Doubts(p, s)
<1> DEFINE of(b, warnings) ==
             [payout |-> p.key, gross |-> Gross(p, s), fees |-> Total(s.fees),
              refunds |-> Total(s.refunds), net |-> p.amount, deposit |-> b,
              warnings |-> warnings \cup Doubts(p, s)]
<1>1. CASE Reached(p, s) = {}
  <2>1. e = of(None, {"no_deposit"})
    BY <1>1 DEF Explain
  <2> QED BY <1>1, <2>1
<1>2. CASE Reached(p, s) # {}
  <2>1. Explain(p, s) = {of(b.key, Warnings(p, b)) : b \in Firsts(s, Reached(p, s))}
    BY <1>2 DEF Explain
  <2>2. PICK b \in Firsts(s, Reached(p, s)) : e = of(b.key, Warnings(p, b))
    BY <2>1
  <2>3. b \in Reached(p, s)
    BY DEF Firsts
  <2> QED BY <1>2, <2>2, <2>3
<1> QED BY <1>1, <1>2

LEMMA ExplainNone ==
  ASSUME NEW s, NEW p, Reached(p, s) = {}
  PROVE  \E e \in Explain(p, s) : e.payout = p.key /\ e.deposit = None
BY DEF Explain

(* The flags of a type.                                                    *)
Flagged(s, type) == {a.of : a \in {a \in DetectAnomalies(s) : a.type = type}}

LEMMA AnomalyIs ==
  ASSUME NEW s, NEW a
  PROVE  a \in DetectAnomalies(s) <=>
           \/ \E p \in s.payouts : Reached(p, s) = {} /\ a = Flag("missing_payout", "high", p.key)
           \/ \E p \in s.payouts : p.day < s.today - 3 /\ a = Flag("delayed_payout", "medium", p.key)
           \/ \E b \in Credits(s) \ Matched(s) : a = Flag("unmatched_deposit", "medium", b.key)
           \/ /\ Exceeds(Total(s.fees), Total(s.payouts), 5)
              /\ a = Flag("high_processor_fee", "medium", None)
           \/ /\ Exceeds(Total(s.refunds), Total(s.payouts), 10)
              /\ a = Flag("high_refund_rate", "medium", None)
BY DEF DetectAnomalies

LEMMA FlaggedAre ==
  ASSUME NEW s
  PROVE  /\ Flagged(s, "missing_payout") = {p.key : p \in {p \in s.payouts : Reached(p, s) = {}}}
         /\ Flagged(s, "unmatched_deposit") = {b.key : b \in Credits(s) \ Matched(s)}
<1>1. \A t, v, o : Flag(t, v, o).type = t /\ Flag(t, v, o).of = o
  BY DEF Flag
<1>2. \A a \in DetectAnomalies(s) : a.type = "missing_payout" =>
        \E p \in s.payouts : Reached(p, s) = {} /\ a.of = p.key
  BY <1>1, AnomalyIs
<1>3. \A p \in s.payouts : Reached(p, s) = {} =>
        \E a \in DetectAnomalies(s) : a.type = "missing_payout" /\ a.of = p.key
  BY <1>1, AnomalyIs
<1>4. \A a \in DetectAnomalies(s) : a.type = "unmatched_deposit" =>
        \E b \in Credits(s) \ Matched(s) : a.of = b.key
  BY <1>1, AnomalyIs
<1>5. \A b \in Credits(s) \ Matched(s) :
        \E a \in DetectAnomalies(s) : a.type = "unmatched_deposit" /\ a.of = b.key
  BY <1>1, AnomalyIs
<1>6. Flagged(s, "missing_payout") = {p.key : p \in {p \in s.payouts : Reached(p, s) = {}}}
  BY <1>2, <1>3 DEF Flagged
<1>7. Flagged(s, "unmatched_deposit") = {b.key : b \in Credits(s) \ Matched(s)}
  BY <1>4, <1>5 DEF Flagged
<1> QED BY <1>6, <1>7

LEMMA ToFollowUp ==
  ASSUME NEW s
  PROVE  (\E t \in Cash(s).todo : t.type = "follow_up_unmatched_deposit" /\ t.priority = "high")
           <=> \E a \in DetectAnomalies(s) : a.type = "missing_payout"
<1>1. /\ DOMAIN Advice = {"unmatched_deposit", "missing_payout", "high_refund_rate", "high_processor_fee"}
      /\ Advice["missing_payout"].type = "follow_up_unmatched_deposit"
      /\ Advice["missing_payout"].priority = "high"
      /\ Advice["unmatched_deposit"].priority = "medium" /\ Advice["high_refund_rate"].priority = "medium"
      /\ Advice["high_processor_fee"].priority = "medium"
  BY DEF Advice
<1>2. Cash(s).todo = {Advice[a.type] : a \in {a \in DetectAnomalies(s) : a.type \in DOMAIN Advice}}
  BY DEF Cash
<1> QED BY <1>1, <1>2

LEMMA Flags ==
  ASSUME NEW s, PayoutsOK(s.payouts), NEW day, BanksOK(s.banks, day)
  PROVE  LET explained == UNION {Explain(p, s) : p \in s.payouts} IN
         /\ {e.payout : e \in {e \in explained : e.deposit = None}} = Flagged(s, "missing_payout")
         /\ {e.deposit : e \in explained} \cap Flagged(s, "unmatched_deposit") = {}
         /\ Flagged(s, "missing_payout") # {} <=>
              \E t \in Cash(s).todo : t.type = "follow_up_unmatched_deposit" /\ t.priority = "high"
<1> DEFINE explained == UNION {Explain(p, s) : p \in s.payouts}
<1>1. \A e : e \in explained <=> \E p \in s.payouts : e \in Explain(p, s)
  OBVIOUS
<1>2. Credits(s) \subseteq s.banks /\ s.banks \subseteq BankRows /\ \A p : Reached(p, s) \subseteq Credits(s)
  BY DEF Credits, Reached, BanksOK
<1>3. \A b, c \in s.banks : b.key = c.key =>
        b.amount = c.amount /\ b.direction = c.direction /\ b.currency = c.currency
  BY DEF BanksOK
<1> HIDE DEF explained
<1>4. ASSUME NEW e \in explained, e.deposit = None
      PROVE  e.payout \in Flagged(s, "missing_payout")
  <2>1. PICK p \in s.payouts : e \in Explain(p, s)
    BY <1>1, <1>4
  <2>2. Reached(p, s) = {}
    BY <1>2, <1>4, <2>1, ExplainIs, NotNone
  <2>3. e.payout = p.key
    BY <2>1, ExplainIs
  <2> QED BY <2>2, <2>3, FlaggedAre
<1>5. ASSUME NEW x \in Flagged(s, "missing_payout")
      PROVE  \E e \in explained : e.deposit = None /\ e.payout = x
  <2>1. PICK p \in s.payouts : Reached(p, s) = {} /\ x = p.key
    BY FlaggedAre
  <2>2. PICK e \in Explain(p, s) : e.payout = p.key /\ e.deposit = None
    BY <2>1, ExplainNone
  <2> QED BY <1>1, <2>1, <2>2
<1>6. {e.payout : e \in {e \in explained : e.deposit = None}} = Flagged(s, "missing_payout")
  BY <1>4, <1>5
<1>7. ASSUME NEW e \in explained PROVE e.deposit \notin Flagged(s, "unmatched_deposit")
  <2>1. PICK p \in s.payouts : e \in Explain(p, s)
    BY <1>1, <1>7
  <2>2. SUFFICES ASSUME NEW c \in Credits(s) \ Matched(s), e.deposit = c.key PROVE FALSE
    BY FlaggedAre
  <2>3. CASE Reached(p, s) = {}
    BY <1>2, <2>1, <2>2, <2>3, ExplainIs, NotNone
  <2>4. CASE Reached(p, s) # {}
    <3>1. PICK b \in Reached(p, s) : e.deposit = b.key
      BY <2>1, <2>4, ExplainIs
    <3>2. c.amount = b.amount /\ c.currency = b.currency /\ c \in Credits(s)
      BY <1>2, <1>3, <2>2, <3>1
    <3>3. c \in Reached(p, s)
      BY <3>1, <3>2 DEF Reached, Near
    <3>4. c \in Matched(s)
      BY <2>1, <3>3 DEF Matched
    <3> QED BY <2>2, <3>4
  <2> QED BY <2>3, <2>4
<1>8. Flagged(s, "missing_payout") # {} <=>
        \E t \in Cash(s).todo : t.type = "follow_up_unmatched_deposit" /\ t.priority = "high"
  <2>1. Flagged(s, "missing_payout") # {} <=> \E a \in DetectAnomalies(s) : a.type = "missing_payout"
    BY DEF Flagged
  <2> QED BY <2>1, ToFollowUp
<1> QED BY <1>6, <1>7, <1>8 DEF explained

LEMMA FlagsAgreeAlways == IInv => FlagsAgree
<1> SUFFICES ASSUME IInv, NEW q \in Requests
             PROVE  LET s == Seen(q)
                        explained == UNION {Explain(p, s) : p \in s.payouts}
                    IN  /\ {e.payout : e \in {e \in explained : e.deposit = None}} = Flagged(s, "missing_payout")
                        /\ {e.deposit : e \in explained} \cap Flagged(s, "unmatched_deposit") = {}
                        /\ Flagged(s, "missing_payout") # {} <=>
                             \E t \in Cash(s).todo : t.type = "follow_up_unmatched_deposit" /\ t.priority = "high"
  BY DEF FlagsAgree, Flagged
<1> DEFINE s == Seen(q)
<1>1. PayoutsOK(s.payouts) /\ BanksOK(s.banks, today)
  BY SeenIs
<1> HIDE DEF s
<1>2. LET explained == UNION {Explain(p, s) : p \in s.payouts}
      IN  /\ {e.payout : e \in {e \in explained : e.deposit = None}} = Flagged(s, "missing_payout")
          /\ {e.deposit : e \in explained} \cap Flagged(s, "unmatched_deposit") = {}
          /\ Flagged(s, "missing_payout") # {} <=>
               \E t \in Cash(s).todo : t.type = "follow_up_unmatched_deposit" /\ t.priority = "high"
  BY <1>1, Flags
<1> QED BY <1>2 DEF s

-----------------------------------------------------------------------------
(* What is in the bank, and what is expected.                              *)
LEMMA BankTotals ==
  ASSUME NEW rows, NEW day, BanksOK(rows, day), NEW some, some \subseteq rows
  PROVE  Total(some) \in Int
<1>1. IsFiniteSet(some) /\ \A b \in some : b.amount \in Int
  BY FS_Subset DEF BanksOK, BankRows
<1> QED BY <1>1, TotalInt

LEMMA NothingPending ==
  ASSUME NEW s, PayoutsOK(s.payouts)
  PROVE  \A by : Pending(s, by) = {}
BY DEF Pending, PayoutsOK, PayoutRows

LEMMA SevenDays ==
  ASSUME NEW s, PayoutsOK(s.payouts), NEW day, BanksOK(s.banks, day)
  PROVE  LET f == Build(7, s)
             at(i) == IF i = 0 THEN f.start ELSE f.series[i]
         IN  /\ CashForecast(s)[7] = CashSummary(s).cash /\ f.start = CashSummary(s).cash
             /\ \A i \in 1..7 : at(i) - at(i - 1) = at(1) - at(0)
<1> DEFINE recent == {b \in s.banks : b.day > s.today - 60}
           daily  == Total(recent \cap Credits(s)) \div 60 - Total(recent \cap Debits(s)) \div 60
           due(i) == Total(Pending(s, s.today + i) \ Pending(s, s.today))
           f == Build(7, s)
           at(i) == IF i = 0 THEN f.start ELSE f.series[i]
           cash == Balance(s)
<1>1. cash \in Int
  <2>1. Credits(s) \subseteq s.banks /\ Debits(s) \subseteq s.banks
    BY DEF Credits, Debits
  <2>2. Total(Credits(s)) \in Int /\ Total(Debits(s)) \in Int
    BY <2>1, BankTotals
  <2> QED BY <2>2 DEF Balance
<1>2. daily \in Int
  <2>1. Total(recent \cap Credits(s)) \in Int /\ Total(recent \cap Debits(s)) \in Int
    <3>1. recent \cap Credits(s) \subseteq s.banks /\ recent \cap Debits(s) \subseteq s.banks
      OBVIOUS
    <3> QED BY <3>1, BankTotals
  <2>2. \A m, n \in Int : m \div 60 - n \div 60 \in Int
    OBVIOUS
  <2> HIDE DEF recent
  <2> QED BY <2>1, <2>2
<1>3. \A i : due(i) = 0
  <2>1. \A i : Pending(s, s.today + i) \ Pending(s, s.today) = {}
    BY NothingPending
  <2> QED BY <2>1, TotalEmpty
<1>4. f.start = cash /\ f.series = [i \in 1..7 |-> cash + i * daily + due(i)]
  BY DEF Build
<1> HIDE DEF daily, due, f, cash
<1>5. \A i \in 1..7 : at(i) = cash + i * daily
  BY <1>1, <1>2, <1>3, <1>4
<1>6. at(0) = cash
  BY <1>4
<1>7. at(1) = cash + daily /\ at(2) = cash + 2 * daily /\ at(3) = cash + 3 * daily /\ at(4) = cash + 4 * daily
      /\ at(5) = cash + 5 * daily /\ at(6) = cash + 6 * daily /\ at(7) = cash + 7 * daily
  BY <1>1, <1>2, <1>5
<1>8. \A i \in 1..7 : at(i) - at(i - 1) = at(1) - at(0)
  <2> TAKE i \in 1..7
  <2>1. i = 1 \/ i = 2 \/ i = 3 \/ i = 4 \/ i = 5 \/ i = 6 \/ i = 7
    OBVIOUS
  <2> HIDE DEF at
  <2> QED BY <1>1, <1>2, <1>6, <1>7, <2>1
<1>9. CashSummary(s).cash = cash
  BY DEF CashSummary, cash
<1>10. CashForecast(s)[7] = cash
  <2>1. CashForecast(s)[7] = cash + Total(Pending(s, s.today + 7)) - 0
    BY DEF CashForecast, cash
  <2>2. Total(Pending(s, s.today + 7)) = 0
    BY NothingPending, TotalEmpty
  <2> QED BY <1>1, <2>1, <2>2
<1> QED BY <1>4, <1>8, <1>9, <1>10 DEF f

LEMMA AllSpent ==
  ASSUME NEW s, BanksOK(s.banks, s.today), \A b \in s.banks : b.day >= s.today - 30
  PROVE  Spending(s, s.today - 30, s.today).total = CashSummary(s).expenses
         /\ (Reserve(s) # CashSummary(s).expenses => CashSummary(s).expenses = 0)
<1>1. Debits(s) \subseteq s.banks
  BY DEF Debits
<1>2. \A b \in s.banks : s.today - 30 <= b.day /\ b.day <= s.today
  BY DEF BanksOK
<1>3. {b \in Debits(s) : s.today - 30 <= b.day /\ b.day <= s.today} = Debits(s)
  BY <1>1, <1>2
<1>4. Spending(s, s.today - 30, s.today).total
        = Total({b \in Debits(s) : s.today - 30 <= b.day /\ b.day <= s.today})
  BY DEF Spending
<1>5. CashSummary(s).expenses = Total(Debits(s))
  BY DEF CashSummary
<1> QED BY <1>3, <1>4, <1>5 DEF Reserve

LEMMA PaidOnceAlways == IInv => PaidOnce
<1> SUFFICES ASSUME IInv, NEW q \in Requests
             PROVE  LET s == Seen(q)
                        f == Build(7, s)
                        at(i) == IF i = 0 THEN f.start ELSE f.series[i]
                    IN  /\ CashForecast(s)[7] = CashSummary(s).cash /\ f.start = CashSummary(s).cash
                        /\ \A i \in 1..7 : at(i) - at(i - 1) = at(1) - at(0)
  BY DEF PaidOnce
<1> DEFINE s == Seen(q)
<1>1. PayoutsOK(s.payouts) /\ BanksOK(s.banks, today)
  BY SeenIs
<1> HIDE DEF s
<1>2. LET f == Build(7, s)
          at(i) == IF i = 0 THEN f.start ELSE f.series[i]
      IN  /\ CashForecast(s)[7] = CashSummary(s).cash /\ f.start = CashSummary(s).cash
          /\ \A i \in 1..7 : at(i) - at(i - 1) = at(1) - at(0)
  BY <1>1, SevenDays
<1> QED BY <1>2 DEF s

LEMMA SpendingAlways == IInv => SpendingIsExpenses
<1> SUFFICES ASSUME IInv, NEW q \in Requests, \A b \in Seen(q).banks : b.day >= Seen(q).today - 30
             PROVE  LET s == Seen(q)
                        spending == Spending(s, s.today - 30, s.today)
                    IN  /\ spending.total = CashSummary(s).expenses
                        /\ Reserve(s) # spending.total => spending.total = 0
  BY DEF SpendingIsExpenses
<1> DEFINE s == Seen(q)
<1>1. BanksOK(s.banks, s.today) /\ \A b \in s.banks : b.day >= s.today - 30
  BY SeenIs
<1> HIDE DEF s
<1>2. /\ Spending(s, s.today - 30, s.today).total = CashSummary(s).expenses
      /\ Reserve(s) # CashSummary(s).expenses => CashSummary(s).expenses = 0
  BY <1>1, AllSpent
<1> QED BY <1>2 DEF s

(* Forecasts, spending and the cash summary count the same money, once.    *)
THEOREM CashIsCountedOnce == Spec => []CashAgrees
<1>1. IInv => CashAgrees
  BY PaidOnceAlways, SpendingAlways DEF CashAgrees
<1> QED BY <1>1, Invariance, PTL

-----------------------------------------------------------------------------
(***************************************************************************)
(* A request that is alone: a report has the tables as they are, and a     *)
(* reset goes through its stages.                                          *)
(***************************************************************************)
ReportOK(q) ==
  LET j == job[q] IN
  j # Idle /\ j.kind \in DOMAIN Reports /\ j.alone = TRUE =>
    \A k \in 1..(Len(Reports[j.kind]) - Len(j.todo)) :
      j.snap[Reports[j.kind][k]] = Books[Reports[j.kind][k]]

Loaded(d) ==
  /\ \E id : payments = Paid(d, id)
  /\ \E id, of : fees = Charged(d, id, of)
  /\ \E id, of : refunds = {Refund(d, id, of)}
  /\ \E id, cur : payouts = {Payout(d, id, today, cur)}
Banked(d) == \E id, cur : banks = Posted(d, Net[d], id, today, cur)
Nothing == payments = {} /\ fees = {} /\ refunds = {} /\ payouts = {}

(* The stages, by the number of steps left.                                *)
Stages(j, n, d) ==
  /\ n \in {7, 8} => j.doomed.runs = runs
  /\ n = 7 => j.doomed.fees = fees /\ j.doomed.refunds = refunds
  /\ n <= 6 => runs = {}
  /\ n = 6 => Nothing
  /\ n \in {4, 5, 6} => banks = {}
  /\ n <= 5 => Loaded(d)
  /\ n = 4 => j.amount = Net[d]
  /\ n <= 3 => Banked(d)
  /\ n <= 2 => j.snap.payouts = payouts
  /\ n <= 1 => j.snap.banks = banks

MemoryStages(n) ==
  /\ n <= 3 => runs = {}
  /\ n \in {2, 3} => Nothing /\ banks = {}
  /\ n <= 1 => Loaded("seed") /\ Banked("seed")

RepairOK(q) ==
  LET j == job[q] IN
  j # Idle /\ j.kind = "reset" /\ j.alone = TRUE =>
    IF Postgres THEN Stages(j, Len(j.todo), deployment.type) ELSE MemoryStages(Len(j.todo))

Watched == \A q \in Requests : ReportOK(q) /\ RepairOK(q)

(* The steps of a report are to read tables and to answer.                 *)
LEMMA ReportSteps ==
  ASSUME IInv, NEW q \in Requests, NEW step, At(q, step), job[q].kind \in DOMAIN Reports
  PROVE  /\ Postgres => step = Reports[job[q].kind][1 + Len(Reports[job[q].kind]) - Len(job[q].todo)]
                          /\ Len(job[q].todo) \in 1..Len(Reports[job[q].kind])
                          /\ Len(Reports[job[q].kind]) \in Nat
         /\ ~ Postgres => step = "answer"
         /\ step \in {"payments", "payouts", "banks", "fees", "refunds", "answer"}
<1> DEFINE kind == job[q].kind
           all == Steps[kind]
           n == Len(job[q].todo)
<1>1. kind \in DOMAIN Steps /\ n \in 1..Len(all) /\ Len(all) \in Nat /\ step = all[1 + Len(all) - n]
  BY StepNow DEF IInv
<1>2. DOMAIN Reports = {"explain", "cash", "month"} /\ kind \notin DOMAIN Writes
  BY DEF Reports, Writes
<1>3. all = IF Postgres THEN Reports[kind] ELSE <<"answer">>
  BY <1>1, <1>2 DEF Steps
<1>4. Reports[kind] \in Seq({"payments", "payouts", "banks", "fees", "refunds", "answer"})
  <2>1. /\ Reports["explain"] \in Seq({"payments", "payouts", "banks", "fees", "refunds", "answer"})
        /\ Reports["cash"] \in Seq({"payments", "payouts", "banks", "fees", "refunds", "answer"})
        /\ Reports["month"] \in Seq({"payments", "payouts", "banks", "fees", "refunds", "answer"})
    BY DEF Reports
  <2> QED BY <1>2, <2>1
<1>5. n \in Nat
  BY <1>1
<1> HIDE DEF kind, all, n
<1>6. CASE Postgres
  <2>1. all = Reports[kind]
    BY <1>3, <1>6
  <2>2. \A h, i \in Nat : i \in 1..h => 1 + h - i \in 1..h
    OBVIOUS
  <2>3. 1 + Len(all) - n \in 1..Len(all)
    BY <1>1, <1>5, <2>2
  <2>4. all[1 + Len(all) - n] \in {"payments", "payouts", "banks", "fees", "refunds", "answer"}
    BY <1>4, <2>1, <2>3
  <2> QED BY <1>1, <1>6, <2>1, <2>4 DEF kind, n
<1>7. CASE ~ Postgres
  <2>1. all = <<"answer">>
    BY <1>3, <1>7
  <2>2. Len(all) = 1 /\ n = 1 /\ all[1] = "answer"
    BY <1>1, <2>1
  <2>3. 1 + Len(all) - n = 1
    BY <2>2
  <2> QED BY <1>1, <1>7, <2>2, <2>3
<1> QED BY <1>6, <1>7

(* The steps of a reset.                                                   *)
LEMMA ResetSteps ==
  ASSUME IInv, NEW q \in Requests, NEW step, At(q, step), job[q].kind = "reset"
  PROVE  LET n == Len(job[q].todo) IN
         /\ n \in Nat
         /\ Postgres =>
              \/ n = 9 /\ step = "runs"
              \/ n = 8 /\ step = "links"
              \/ n = 7 /\ step = "clear"
              \/ n = 6 /\ step = "stripe"
              \/ n = 5 /\ step = "amount"
              \/ n = 4 /\ step = "bank"
              \/ n = 3 /\ step = "payouts"
              \/ n = 2 /\ step = "banks"
              \/ n = 1 /\ step = "match"
         /\ ~ Postgres =>
              \/ n = 4 /\ step = "clear"
              \/ n = 3 /\ step = "check"
              \/ n = 2 /\ step = "seed"
              \/ n = 1 /\ step = "match"
<1> DEFINE all == Steps["reset"]
           n == Len(job[q].todo)
<1>1. "reset" \in DOMAIN Steps /\ n \in 1..Len(all) /\ Len(all) \in Nat /\ step = all[1 + Len(all) - n]
  BY StepNow DEF IInv
<1> HIDE DEF n
<1>2. CASE Postgres
  <2>1. all = <<"runs", "links", "clear", "stripe", "amount", "bank", "payouts", "banks", "match">>
    BY <1>1, <1>2 DEF Steps, Writes
  <2> HIDE DEF all
  <2>2. /\ Len(all) = 9 /\ all[1] = "runs" /\ all[2] = "links" /\ all[3] = "clear" /\ all[4] = "stripe"
        /\ all[5] = "amount" /\ all[6] = "bank" /\ all[7] = "payouts" /\ all[8] = "banks" /\ all[9] = "match"
    BY <2>1
  <2>3. n \in 1..9 /\ step = all[10 - n]
    BY <1>1, <2>2
  <2>4. n = 1 \/ n = 2 \/ n = 3 \/ n = 4 \/ n = 5 \/ n = 6 \/ n = 7 \/ n = 8 \/ n = 9
    BY <2>3
  <2>5. /\ n = 1 => step = "match"
        /\ n = 2 => step = "banks"
        /\ n = 3 => step = "payouts"
        /\ n = 4 => step = "bank"
        /\ n = 5 => step = "amount"
        /\ n = 6 => step = "stripe"
        /\ n = 7 => step = "clear"
        /\ n = 8 => step = "links"
        /\ n = 9 => step = "runs"
    BY <2>2, <2>3
  <2>6. n \in Nat
    BY <2>3
  <2> QED BY <1>2, <2>4, <2>5, <2>6 DEF n
<1>3. CASE ~ Postgres
  <2>1. all = <<"clear", "check", "seed", "match">>
    BY <1>1, <1>3 DEF Steps, Writes
  <2> HIDE DEF all
  <2>2. Len(all) = 4 /\ all[1] = "clear" /\ all[2] = "check" /\ all[3] = "seed" /\ all[4] = "match"
    BY <2>1
  <2>3. n \in 1..4 /\ step = all[5 - n]
    BY <1>1, <2>2
  <2>4. n = 1 \/ n = 2 \/ n = 3 \/ n = 4
    BY <2>3
  <2>5. /\ n = 1 => step = "match"
        /\ n = 2 => step = "seed"
        /\ n = 3 => step = "check"
        /\ n = 4 => step = "clear"
    BY <2>2, <2>3
  <2>6. n \in Nat
    BY <2>3
  <2> QED BY <1>3, <2>4, <2>5, <2>6 DEF n
<1> QED BY <1>2, <1>3

(* Another request than the one at work is not alone.                      *)
LEMMA Bystanders ==
  ASSUME AloneOK, NEW q \in Requests, job[q] # Idle, NEW r \in Requests, r # q, job'[r] = job[r]
  PROVE  ReportOK(r)' /\ RepairOK(r)'
<1>1. job[r] = Idle \/ job[r].alone # TRUE
  BY DEF AloneOK
<1>2. job'[r] = Idle \/ job'[r].alone # TRUE
  BY <1>1
<1>3. Idle' = Idle
  BY DEF Idle, NoBooks
<1> QED BY <1>2, <1>3 DEF ReportOK, RepairOK

LEMMA AtRest ==
  ASSUME NEW r \in Requests, job'[r] = Idle
  PROVE  ReportOK(r)' /\ RepairOK(r)'
BY DEF ReportOK, RepairOK

LEMMA InitWatched == Init => Watched
BY DEF Init, Watched, ReportOK, RepairOK

LEMMA BeginWatched ==
  ASSUME IInv, Watched, NEW q \in Requests, NEW kind, Begin(q, kind)
  PROVE  Watched'
<1>1. BegunBy(q, kind) /\ UNCHANGED <<deployment, date, tables, runs, setup>>
  BY Begins DEF IInv, Begin
<1>2. (Postgres' <=> Postgres) /\ Books' = Books
  BY <1>1, Unmoved DEF Books, tables
<1>3. ASSUME NEW r \in Requests, r # q PROVE ReportOK(r)' /\ RepairOK(r)'
  <2>1. job'[r] = Idle \/ job'[r].alone = FALSE
    BY <1>1, <1>3 DEF BegunBy
  <2> QED BY <2>1 DEF ReportOK, RepairOK
<1>4. ReportOK(q)'
  <2> SUFFICES ASSUME kind \in DOMAIN Reports, NEW k \in 1..(Len(Reports[kind]) - Len(Steps[kind]))
               PROVE  job'[q].snap[Reports[kind][k]] = Books[Reports[kind][k]]
    BY <1>1, <1>2 DEF ReportOK, BegunBy
  <2>1. CASE Postgres
    <3>1. kind \notin DOMAIN Writes /\ kind \in DOMAIN Steps
      BY DEF Reports, Writes, Steps
    <3>2. Steps[kind] = Reports[kind]
      BY <2>1, <3>1 DEF Steps
    <3>3. Len(Steps[kind]) \in Nat
      BY <3>1, StepsOK
    <3> QED BY <3>2, <3>3
  <2>2. CASE ~ Postgres
    BY <1>1, <2>2 DEF BegunBy
  <2> QED BY <2>1, <2>2
<1>5. RepairOK(q)'
  <2> SUFFICES ASSUME kind = "reset"
               PROVE  IF Postgres THEN Stages(job[q], Len(job[q].todo), deployment.type)'
                      ELSE MemoryStages(Len(job[q].todo))'
    BY <1>1, <1>2 DEF RepairOK, BegunBy
  <2>1. job'[q].todo = Steps["reset"] /\ "reset" \in DOMAIN Steps
    BY <1>1 DEF BegunBy
  <2>2. CASE Postgres
    <3>1. Steps["reset"] = <<"runs", "links", "clear", "stripe", "amount", "bank", "payouts", "banks", "match">>
      BY <2>1, <2>2 DEF Steps, Writes
    <3>2. Len(job'[q].todo) = 9
      BY <2>1, <3>1
    <3> QED BY <2>2, <3>2 DEF Stages
  <2>3. CASE ~ Postgres
    <3>1. Steps["reset"] = <<"clear", "check", "seed", "match">>
      BY <2>1, <2>3 DEF Steps, Writes
    <3>2. Len(job'[q].todo) = 4
      BY <2>1, <3>1
    <3> QED BY <2>3, <3>2 DEF MemoryStages
  <2> QED BY <2>2, <2>3
<1> QED BY <1>3, <1>4, <1>5 DEF Watched

LEMMA EndWatched ==
  ASSUME IInv, Watched, NEW q \in Requests, job[q] # Idle, job'[q] = Idle,
         \A r \in Requests : r # q => job'[r] = job[r]
  PROVE  Watched'
BY Bystanders, AtRest DEF IInv, Watched

(* A step by q leaves it watched if it is well with q.                     *)
LEMMA StepWatched ==
  ASSUME IInv, NEW q \in Requests, job[q] # Idle, \A r \in Requests : r # q => job'[r] = job[r],
         ReportOK(q)', RepairOK(q)'
  PROVE  Watched'
BY Bystanders DEF IInv, Watched

LEMMA ReadWatched ==
  ASSUME IInv, Watched, NEW q \in Requests, NEW table \in DOMAIN Books, Read(q, table)
  PROVE  Watched'
<1>1. At(q, table) /\ UNCHANGED <<deployment, date, tables, runs, setup>> /\ job[q] # Idle
  BY Working DEF Read
<1>2. \A r \in Requests : r # q => job'[r] = job[r]
  BY ReadOn
<1>3. PICK j : MovesTo(q, j) /\ Reads(q, j, table)
  BY ReadOn
<1>4. CASE job'[q] = Idle
  BY <1>1, <1>2, <1>4, EndWatched
<1>5. CASE job'[q] # Idle
  <2> DEFINE n == Len(job[q].todo)
  <2>1. /\ n > 1 /\ Len(job'[q].todo) = n - 1
        /\ job'[q].kind = job[q].kind /\ job'[q].alone = job[q].alone
        /\ job'[q].snap = [job[q].snap EXCEPT ![table] = Books[table]]
        /\ job'[q].amount = job[q].amount /\ job'[q].doomed = job[q].doomed
    BY <1>3, <1>5 DEF MovesTo, Reads
  <2>2. Books' = Books /\ (Postgres' <=> Postgres) /\ today' = today
    BY <1>1, Unmoved DEF Books, tables
  <2>3. DOMAIN job[q].snap = {"payments", "payouts", "banks", "fees", "refunds"}
    BY <1>1, JobIs DEF IInv, JobOK
  <2>4. DOMAIN Books = {"payments", "payouts", "banks", "fees", "refunds"}
        /\ Books["payouts"] = payouts /\ Books["banks"] = banks
    BY DEF Books
  <2>5. ReportOK(q)'
    <3> SUFFICES ASSUME job[q].kind \in DOMAIN Reports, job[q].alone = TRUE,
                        NEW k \in 1..(Len(Reports[job[q].kind]) - (n - 1))
                 PROVE  job'[q].snap[Reports[job[q].kind][k]] = Books[Reports[job[q].kind][k]]
      BY <2>1, <2>2 DEF ReportOK
    <3> DEFINE rep == Reports[job[q].kind]
    <3>1. table # "answer" /\ Postgres
      BY <1>1, <2>4, ReportSteps
    <3>2. table = rep[1 + Len(rep) - n] /\ n \in 1..Len(rep) /\ Len(rep) \in Nat
      BY <1>1, <3>1, ReportSteps
    <3>3. ReportOK(q)
      BY DEF Watched
    <3>4. \A i \in 1..(Len(rep) - n) : job[q].snap[rep[i]] = Books[rep[i]]
      BY <1>1, <3>3 DEF ReportOK
    <3> HIDE DEF rep
    <3>5. CASE rep[k] = table
      BY <2>1, <2>3, <2>4, <3>5 DEF rep
    <3>6. CASE rep[k] # table
      <4>1. k # 1 + Len(rep) - n
        BY <3>2, <3>6
      <4>2. k \in 1..(Len(rep) - n)
        <5>1. k \in 1..(Len(rep) - (n - 1))
          BY DEF rep
        <5>2. \A h, i, x \in Int : x \in 1..(h - (i - 1)) /\ x # 1 + h - i => x \in 1..(h - i)
          OBVIOUS
        <5>3. n \in Int /\ Len(rep) \in Int /\ k \in Int
          BY <3>2
        <5> QED BY <4>1, <5>1, <5>2, <5>3
      <4>3. job'[q].snap[rep[k]] = job[q].snap[rep[k]]
        BY <2>1, <3>6
      <4> QED BY <3>4, <4>2, <4>3 DEF rep
    <3> QED BY <3>5, <3>6
  <2>6. RepairOK(q)'
    <3> SUFFICES ASSUME job[q].kind = "reset", job[q].alone = TRUE
                 PROVE  IF Postgres THEN Stages(job[q], Len(job[q].todo), deployment.type)'
                        ELSE MemoryStages(Len(job[q].todo))'
      BY <2>1, <2>2 DEF RepairOK
    <3>1. RepairOK(q)
      BY DEF Watched
    <3>2. Postgres /\ (\/ n = 3 /\ table = "payouts" 
                       \/ n = 2 /\ table = "banks")
      BY <1>1, <2>4, ResetSteps
    <3>3. Stages(job[q], n, deployment.type)
      BY <1>1, <3>1, <3>2 DEF RepairOK
    <3> HIDE DEF n
    <3>4. runs = {} /\ Loaded(deployment.type) /\ Banked(deployment.type)
          /\ (n = 2 => job[q].snap.payouts = payouts)
      <4>1. CASE n = 3
        BY <3>3, <4>1 DEF Stages
      <4>2. CASE n = 2
        BY <3>3, <4>2 DEF Stages
      <4> QED BY <3>2, <4>1, <4>2
    <3>5. /\ runs' = {} /\ Loaded(deployment.type)' /\ Banked(deployment.type)'
          /\ payouts' = payouts /\ banks' = banks
      BY <1>1, <2>2, <3>4 DEF tables, Loaded, Banked
    <3>6. CASE n = 3
      <4>1. Len(job'[q].todo) = 2 /\ job'[q].snap.payouts = payouts
        BY <2>1, <2>3, <2>4, <3>2, <3>6
      <4> DEFINE m == Len(job'[q].todo)
      <4>2. m = 2
        BY <4>1
      <4> HIDE DEF m
      <4>3. /\ m \notin {7, 8} /\ m # 7 /\ m # 6 /\ m \notin {4, 5, 6} /\ m # 4 /\ ~ (m <= 1)
        BY <4>2
      <4>4. Stages(job[q], Len(job[q].todo), deployment.type)'
        BY <3>5, <4>1, <4>3 DEF Stages, m
      <4> QED BY <2>2, <3>2, <4>4
    <3>7. CASE n = 2
      <4>1. Len(job'[q].todo) = 1 /\ job'[q].snap.banks = banks /\ job'[q].snap.payouts = payouts
        BY <2>1, <2>3, <2>4, <3>2, <3>4, <3>7
      <4> DEFINE m == Len(job'[q].todo)
      <4>2. m = 1
        BY <4>1
      <4> HIDE DEF m
      <4>3. /\ m \notin {7, 8} /\ m # 7 /\ m # 6 /\ m \notin {4, 5, 6} /\ m # 4
        BY <4>2
      <4>4. Stages(job[q], Len(job[q].todo), deployment.type)'
        BY <3>5, <4>1, <4>3 DEF Stages, m
      <4> QED BY <2>2, <3>2, <4>4
    <3> QED BY <3>2, <3>6, <3>7
  <2> QED BY <1>1, <1>2, <2>5, <2>6, StepWatched
<1> QED BY <1>4, <1>5

-----------------------------------------------------------------------------
(* A step that a report does not have.                                     *)
LEMMA NoReport ==
  ASSUME IInv, NEW q \in Requests, NEW step, At(q, step), job'[q] = Idle \/ job'[q].kind = job[q].kind,
         step \notin {"payments", "payouts", "banks", "fees", "refunds", "answer"}
  PROVE  ReportOK(q)'
<1>1. job[q].kind \notin DOMAIN Reports
  BY ReportSteps
<1>2. Idle' = Idle /\ Reports' = Reports
  BY DEF Idle, NoBooks, Reports
<1> QED BY <1>1, <1>2 DEF ReportOK

LEMMA NoReset ==
  ASSUME NEW q \in Requests, job[q].kind # "reset", job'[q] = Idle \/ job'[q].kind = job[q].kind
  PROVE  RepairOK(q)'
BY DEF RepairOK

(* What is known of a reset that is alone.                                 *)
LEMMA ResetIs ==
  ASSUME Watched, NEW q \in Requests, job[q] # Idle, job[q].kind = "reset", job[q].alone = TRUE
  PROVE  IF Postgres THEN Stages(job[q], Len(job[q].todo), deployment.type)
         ELSE MemoryStages(Len(job[q].todo))
BY DEF Watched, RepairOK

(* Only the stage of a reset that is alone and goes on is to be shown.     *)
LEMMA StageWatched ==
  ASSUME IInv, Watched, NEW q \in Requests, NEW step, At(q, step),
         step \notin {"payments", "payouts", "banks", "fees", "refunds", "answer"},
         NEW j, MovesTo(q, j), \A r \in Requests : r # q => job'[r] = job[r],
         UNCHANGED deployment,
         job[q].kind = "reset" /\ job[q].alone = TRUE /\ job'[q] # Idle =>
           IF Postgres THEN Stages(job[q], Len(job[q].todo), deployment.type)'
           ELSE MemoryStages(Len(job[q].todo))'
  PROVE  Watched'
<1>1. job[q] # Idle
  BY Working
<1>2. job'[q] = Idle \/ (job'[q].kind = job[q].kind /\ job'[q].alone = job[q].alone)
  BY DEF MovesTo
<1>3. ReportOK(q)'
  BY <1>2, NoReport
<1>4. RepairOK(q)'
  <2>1. Postgres' <=> Postgres
    BY DEF Postgres
  <2>2. Idle' = Idle
    BY DEF Idle, NoBooks
  <2> QED BY <1>2, <2>1, <2>2 DEF RepairOK
<1> QED BY <1>1, <1>3, <1>4, StepWatched

LEMMA AmountWatched ==
  ASSUME IInv, Watched, NEW q \in Requests, ReadAmount(q)
  PROVE  Watched'
<1>1. At(q, "amount") /\ UNCHANGED <<deployment, date, tables, runs, setup>> /\ job[q] # Idle
  BY Working DEF ReadAmount
<1>2. \A r \in Requests : r # q => job'[r] = job[r]
  BY AmountOn
<1>3. PICK j : /\ MovesTo(q, j) /\ j.snap = job[q].snap /\ j.doomed = job[q].doomed
               /\ j.amount \in IF payouts = {} THEN {DefaultPayout} ELSE {p.amount : p \in payouts}
  BY AmountOn
<1>4. ASSUME job[q].kind = "reset", job[q].alone = TRUE, job'[q] # Idle
      PROVE  IF Postgres THEN Stages(job[q], Len(job[q].todo), deployment.type)'
             ELSE MemoryStages(Len(job[q].todo))'
  <2> DEFINE n == Len(job[q].todo)
             m == Len(job'[q].todo)
             d == deployment.type
  <2>1. Postgres /\ n = 5
    BY <1>1, <1>4, ResetSteps
  <2>2. Stages(job[q], n, d)
    BY <1>1, <1>4, <2>1, ResetIs
  <2>3. m = n - 1 /\ job'[q].amount = j.amount
    BY <1>3, <1>4 DEF MovesTo
  <2>4. today' = today /\ (Postgres' <=> Postgres)
    BY <1>1, Unmoved
  <2> HIDE DEF n, d
  <2>5. runs = {} /\ banks = {} /\ Loaded(d)
    BY <2>1, <2>2 DEF Stages
  <2>6. PICK id, cur : payouts = {Payout(d, id, today, cur)}
    BY <2>5 DEF Loaded
  <2>7. Payout(d, id, today, cur).amount = Net[d]
    BY DEF Payout
  <2>8. job'[q].amount = Net[d]
    BY <1>3, <2>3, <2>6, <2>7
  <2>9. runs' = {} /\ banks' = {} /\ Loaded(d)' /\ Net' = Net
    BY <1>1, <2>4, <2>5 DEF tables, Loaded, d, Net
  <2>10. m = 4
    BY <2>1, <2>3
  <2> HIDE DEF m
  <2>11. /\ m \notin {7, 8} /\ m # 7 /\ m # 6 /\ ~ (m <= 3) /\ ~ (m <= 2) /\ ~ (m <= 1)
    BY <2>10
  <2>12. Stages(job[q], Len(job[q].todo), deployment.type)'
    BY <1>1, <2>8, <2>9, <2>11 DEF Stages, m, d
  <2> QED BY <2>1, <2>4, <2>12
<1> QED BY <1>1, <1>2, <1>3, <1>4, StageWatched

LEMMA DeleteWatched ==
  ASSUME IInv, Watched, NEW q \in Requests, DeleteRuns(q) \/ DeleteLinks(q)
  PROVE  Watched'
<1>1. UNCHANGED <<deployment, date, tables, runs, setup>> /\ \E step \in {"runs", "links"} : At(q, step)
  BY DEF DeleteRuns, DeleteLinks
<1>2. \A r \in Requests : r # q => job'[r] = job[r]
  BY DeleteOn
<1>3. PICK j : MovesTo(q, j) /\ Dooms(q, j)
  BY DeleteOn
<1>a. job[q] # Idle
  BY <1>1, Working
<1>b. DOMAIN job[q].doomed = {"runs", "fees", "refunds"}
  BY <1>a, JobIs DEF IInv, JobOK
<1>4. ASSUME job[q].kind = "reset", job[q].alone = TRUE, job'[q] # Idle
      PROVE  IF Postgres THEN Stages(job[q], Len(job[q].todo), deployment.type)'
             ELSE MemoryStages(Len(job[q].todo))'
  <2> DEFINE n == Len(job[q].todo)
             m == Len(job'[q].todo)
  <2>1. m = n - 1 /\ job'[q].doomed = j.doomed
    BY <1>3, <1>4 DEF MovesTo
  <2>2. Postgres' <=> Postgres
    BY <1>1, Unmoved
  <2>3. CASE DeleteRuns(q)
    <3>1. At(q, "runs")
      BY <2>3 DEF DeleteRuns
    <3>2. Postgres /\ n = 9
      BY <1>4, <3>1, ResetSteps
    <3>3. job'[q].doomed.runs = runs'
      BY <1>1, <1>3, <1>b, <2>1, <2>3 DEF Dooms
    <3>4. m = 8
      BY <2>1, <3>2
    <3> HIDE DEF m
    <3>5. m # 7 /\ ~ (m <= 6) /\ m # 6 /\ m \notin {4, 5, 6} /\ ~ (m <= 5) /\ m # 4 /\ ~ (m <= 3) /\ ~ (m <= 2) /\ ~ (m <= 1)
      BY <3>4
    <3>6. Stages(job[q], Len(job[q].todo), deployment.type)'
      BY <3>3, <3>5 DEF Stages, m
    <3> QED BY <2>2, <3>2, <3>6
  <2>4. CASE DeleteLinks(q)
    <3>1. At(q, "links")
      BY <2>4 DEF DeleteLinks
    <3>2. Postgres /\ n = 8
      BY <1>4, <3>1, ResetSteps
    <3>a. Stages(job[q], n, deployment.type)
      BY <1>4, <1>a, <3>2, ResetIs
    <3>b. job[q].doomed.runs = runs
      <4> HIDE DEF n
      <4> QED BY <3>2, <3>a DEF Stages
    <3>3. job'[q].doomed.runs = runs' /\ job'[q].doomed.fees = fees' /\ job'[q].doomed.refunds = refunds'
      BY <1>1, <1>3, <2>1, <2>4, <3>b DEF Dooms, tables
    <3>4. m = 7
      BY <2>1, <3>2
    <3> HIDE DEF m
    <3>5. ~ (m <= 6) /\ m # 6 /\ m \notin {4, 5, 6} /\ ~ (m <= 5) /\ m # 4 /\ ~ (m <= 3) /\ ~ (m <= 2) /\ ~ (m <= 1)
      BY <3>4
    <3>6. Stages(job[q], Len(job[q].todo), deployment.type)'
      BY <3>3, <3>5 DEF Stages, m
    <3> QED BY <2>2, <3>2, <3>6
  <2> QED BY <2>3, <2>4
<1>5. deployment' = deployment
  BY <1>1
<1> QED BY <1>1, <1>2, <1>3, <1>4, <1>5, StageWatched

LEMMA LeftNothing ==
  ASSUME NEW table PROVE Left(table, table) = {}
BY DEF Left

LEMMA ClearWatched ==
  ASSUME IInv, Watched, NEW q \in Requests, ClearPostgres(q)
  PROVE  Watched'
<1>1. /\ UNCHANGED <<deployment, date, setup>> /\ At(q, "clear") /\ Postgres
      /\ payments' = {} /\ payouts' = {} /\ items' = EmptyBag /\ banks' = {}
      /\ fees' = Left(fees, job[q].doomed.fees) /\ refunds' = Left(refunds, job[q].doomed.refunds)
      /\ runs' = {[r EXCEPT !.matches = {[payout |-> <<>>, deposit |-> <<>>] : m \in @}] :
                r \in {r \in runs : \A d \in job[q].doomed.runs : d.id # r.id}}
  BY DEF ClearPostgres
<1>2. \A r \in Requests : r # q => job'[r] = job[r]
  BY DeleteOn
<1>3. PICK j : MovesTo(q, j)
  BY DeleteOn
<1>4. ASSUME job[q].kind = "reset", job[q].alone = TRUE, job'[q] # Idle
      PROVE  IF Postgres THEN Stages(job[q], Len(job[q].todo), deployment.type)'
             ELSE MemoryStages(Len(job[q].todo))'
  <2> DEFINE n == Len(job[q].todo)
             m == Len(job'[q].todo)
  <2>1. m = n - 1
    BY <1>3, <1>4 DEF MovesTo
  <2>2. Postgres' <=> Postgres
    BY <1>1, Unmoved
  <2>3. n = 7
    BY <1>1, <1>4, ResetSteps
  <2>4. Stages(job[q], n, deployment.type)
    BY <1>1, <1>4, Working, ResetIs
  <2>5. job[q].doomed.runs = runs /\ job[q].doomed.fees = fees /\ job[q].doomed.refunds = refunds
    <3> HIDE DEF n
    <3> QED BY <2>3, <2>4 DEF Stages
  <2>6. {r \in runs : \A d \in job[q].doomed.runs : d.id # r.id} = {}
    BY <2>5
  <2>7. runs' = {} /\ fees' = {} /\ refunds' = {}
    BY <1>1, <2>5, <2>6, LeftNothing
  <2>8. m = 6
    BY <2>1, <2>3
  <2> HIDE DEF m
  <2>9. m \notin {7, 8} /\ m # 7 /\ ~ (m <= 5) /\ m # 4 /\ ~ (m <= 3) /\ ~ (m <= 2) /\ ~ (m <= 1)
    BY <2>8
  <2>10. Stages(job[q], Len(job[q].todo), deployment.type)'
    BY <1>1, <2>7, <2>9 DEF Stages, Nothing, m
  <2> QED BY <1>1, <2>2, <2>10
<1>5. deployment' = deployment
  BY <1>1
<1> QED BY <1>1, <1>2, <1>3, <1>4, <1>5, StageWatched

-----------------------------------------------------------------------------
LEMMA SyncWatched ==
  ASSUME IInv, Watched, NEW q \in Requests, SyncStripeDemo(q)
  PROVE  Watched'
<1> DEFINE d == deployment.type
           p == NewIn("payments")
           f == NewIn("fees")
           r == NewIn("refunds")
           o == NewIn("payouts")
           cur == CurrencyOf(q)
           e == SampleOf(q)
<1>1. /\ Postgres /\ At(q, "stripe") /\ Does(q)
      /\ payments' = Upserted(payments, Paid(e, p))
      /\ refunds' = Upserted(refunds, OfStored({Refund(e, r, p)}))
      /\ fees' = Upserted(fees, OfStored(Charged(e, f, p)))
      /\ payouts' = Upserted(payouts, {Payout(e, o, today, cur)})
      /\ UNCHANGED <<deployment, date, banks, runs, setup>>
  BY DEF SyncStripeDemo
<1>2. MovesTo(q, job[q]) /\ \A x \in Requests : x # q => job'[x] = job[x]
  BY <1>1, DoesOn
<1>3. d \in Data /\ today' = today /\ (Postgres' <=> Postgres)
  BY <1>1, Places, Unmoved DEF IInv
<1>4. ASSUME job[q].kind = "reset", job[q].alone = TRUE, job'[q] # Idle
      PROVE  IF Postgres THEN Stages(job[q], Len(job[q].todo), deployment.type)'
             ELSE MemoryStages(Len(job[q].todo))'
  <2> DEFINE n == Len(job[q].todo)
             m == Len(job'[q].todo)
  <2>0. e = d
    BY <1>1, <1>4, SampleOK DEF IInv
  <2>1. n = 6
    BY <1>1, <1>4, ResetSteps
  <2>2. Stages(job[q], n, d)
    BY <1>1, <1>4, Working, ResetIs
  <2>3. m = n - 1
    BY <1>2, <1>4 DEF MovesTo
  <2> HIDE DEF n, d, e, p, f, r, o, cur
  <2>4. runs = {} /\ banks = {} /\ payments = {} /\ fees = {} /\ refunds = {} /\ payouts = {}
    BY <2>1, <2>2 DEF Stages, Nothing
  <2>5. payments' = Paid(d, p)
    BY <1>1, <1>3, <2>0, <2>4, UpsertedPaid
  <2>6. OfStored(Charged(d, f, p)) = Charged(d, f, p) /\ OfStored({Refund(d, r, p)}) = {Refund(d, r, p)}
    <3>1. {y.key : y \in Paid(d, p)} = LineKeys(d)
      BY <1>3, PaidKeys
    <3>4. PICK c \in Data : c = d
      BY <1>3
    <3>5. PaidOf(c)' = Paid(c, p)
      <4>1. PaidOf(c)' = {y \in payments' : y.key \in LineKeys(c)}
        BY DEF PaidOf, Among, LineKeys, Lines, Charges
      <4> QED BY <2>5, <3>1, <3>4, <4>1
    <3>6. OfStored(Charged(c, f, p)) = Charged(c, f, p) /\ OfStored({Refund(c, r, p)}) = {Refund(c, r, p)}
      BY <3>5, OfStoredWhole
    <3> QED BY <3>4, <3>6
  <2>7. fees' = Charged(d, f, p)
    <3>1. fees' = Upserted({}, Charged(d, f, p))
      BY <1>1, <2>0, <2>4, <2>6
    <3> QED BY <1>3, <3>1, UpsertedCharged
  <2>8. refunds' = {Refund(d, r, p)}
    <3>1. refunds' = Upserted({}, {Refund(d, r, p)})
      BY <1>1, <2>0, <2>4, <2>6
    <3>2. Upserted({}, {Refund(d, r, p)}) = {Refund(d, r, p)}
      BY <1>3, UpsertedRefund
    <3> QED BY <3>1, <3>2, Zenon
  <2>9. payouts' = {Payout(d, o, today, cur)}
    <3>1. payouts' = Upserted({}, {Payout(d, o, today, cur)})
      BY <1>1, <2>0, <2>4
    <3>2. Upserted({}, {Payout(d, o, today, cur)}) = {Payout(d, o, today, cur)}
      BY <1>3, UpsertedPayout
    <3> QED BY <3>1, <3>2, Zenon
  <2>10. Loaded(d)'
    <3>1. d' = d
      BY <1>1 DEF d
    <3>2. \E id : payments' = Paid(d, id)
      BY <2>5
    <3>3. \E id, of : fees' = Charged(d, id, of)
      BY <2>7
    <3>4. \E id, of : refunds' = {Refund(d, id, of)}
      BY <2>8
    <3>5. \E id, c : payouts' = {Payout(d, id, today', c)}
      BY <1>3, <2>9
    <3> QED BY <3>1, <3>2, <3>3, <3>4, <3>5 DEF Loaded
  <2>11. m = 5
    BY <2>1, <2>3
  <2> HIDE DEF m
  <2>12. m \notin {7, 8} /\ m # 7 /\ m # 6 /\ m # 4 /\ ~ (m <= 3) /\ ~ (m <= 2) /\ ~ (m <= 1)
    BY <2>11
  <2>13. Stages(job[q], Len(job[q].todo), deployment.type)'
    BY <1>1, <2>4, <2>10, <2>12 DEF Stages, m, d
  <2> QED BY <1>1, <1>3, <2>13
<1>5. deployment' = deployment
  BY <1>1
<1> HIDE DEF d, e, p, f, r, o, cur
<1> QED BY <1>1, <1>2, <1>4, <1>5, StageWatched

LEMMA MockWatched ==
  ASSUME IInv, Watched, NEW q \in Requests, syncStripeMock(q)
  PROVE  Watched'
<1>1. ~ Postgres /\ At(q, "stripe") /\ Does(q) /\ UNCHANGED <<deployment, date>>
  BY DEF syncStripeMock
<1>2. MovesTo(q, job[q]) /\ \A x \in Requests : x # q => job'[x] = job[x]
  BY <1>1, DoesOn
<1>3. job[q].kind # "reset"
  BY <1>1, ResetSteps
<1>4. deployment' = deployment
  BY <1>1
<1> QED BY <1>1, <1>2, <1>3, <1>4, StageWatched

LEMMA BankWatched ==
  ASSUME IInv, Watched, NEW q \in Requests, SyncBank(q)
  PROVE  Watched'
<1> DEFINE d == deployment.type
           b == NewIn("banks")
           cur == CurrencyOf(q)
<1>1. /\ At(q, "bank") /\ Does(q)
      /\ banks' = Upserted(banks, Posted(SampleOf(q), job[q].amount, b, today, cur))
      /\ UNCHANGED <<deployment, date, payments, fees, refunds, payouts, items, runs, setup>>
  BY DEF SyncBank
<1>2. MovesTo(q, job[q]) /\ \A x \in Requests : x # q => job'[x] = job[x]
  BY <1>1, DoesOn
<1>3. d \in Data /\ today' = today /\ (Postgres' <=> Postgres) /\ today \in Nat
  BY <1>1, Places, Unmoved DEF IInv
<1>4. ASSUME job[q].kind = "reset", job[q].alone = TRUE, job'[q] # Idle
      PROVE  IF Postgres THEN Stages(job[q], Len(job[q].todo), deployment.type)'
             ELSE MemoryStages(Len(job[q].todo))'
  <2> DEFINE n == Len(job[q].todo)
             m == Len(job'[q].todo)
  <2>0. Postgres => SampleOf(q) = d
    BY <1>4, SampleOK DEF IInv
  <2>1. n = 4 /\ Postgres
    BY <1>1, <1>4, ResetSteps
  <2>2. Stages(job[q], n, d)
    BY <1>1, <1>4, <2>1, Working, ResetIs
  <2>3. m = n - 1
    BY <1>2, <1>4 DEF MovesTo
  <2> HIDE DEF n, d, b, cur
  <2>4. runs = {} /\ banks = {} /\ Loaded(d) /\ job[q].amount = Net[d]
    BY <2>1, <2>2 DEF Stages
  <2>5. banks' = Posted(d, Net[d], b, today, cur)
    <3>1. banks' = Upserted({}, Posted(d, Net[d], b, today, cur)) /\ Net[d] \in Nat
      BY <1>1, <1>3, <2>0, <2>1, <2>4, NetNat
    <3> QED BY <1>3, <3>1, UpsertedPosted
  <2>6. d' = d /\ Net' = Net
    BY <1>1 DEF d, Net
  <2>7. Banked(d)'
    <3>1. \E id, c : banks' = Posted(d, Net[d], id, today', c)
      BY <1>3, <2>5
    <3> QED BY <2>6, <3>1 DEF Banked
  <2>8. Loaded(d)'
    BY <1>1, <1>3, <2>4, <2>6 DEF Loaded
  <2>9. m = 3
    BY <2>1, <2>3
  <2> HIDE DEF m
  <2>10. m \notin {7, 8} /\ m # 7 /\ m # 6 /\ m \notin {4, 5, 6} /\ m # 4 /\ ~ (m <= 2) /\ ~ (m <= 1)
    BY <2>9
  <2>11. Stages(job[q], Len(job[q].todo), deployment.type)'
    BY <1>1, <2>4, <2>7, <2>8, <2>10 DEF Stages, m, d
  <2> QED BY <1>3, <2>1, <2>11
<1>5. deployment' = deployment
  BY <1>1
<1> HIDE DEF d, b, cur
<1> QED BY <1>1, <1>2, <1>4, <1>5, StageWatched

LEMMA ForgetWatched ==
  ASSUME IInv, Watched, NEW q \in Requests, ClearMemory(q)
  PROVE  Watched'
<1>1. /\ At(q, "clear") /\ Does(q) /\ ~ Postgres /\ UNCHANGED <<deployment, date>>
      /\ payments' = {} /\ fees' = {} /\ refunds' = {} /\ payouts' = {} /\ banks' = {} /\ runs' = {}
  BY DEF ClearMemory, NoTables
<1>2. MovesTo(q, job[q]) /\ \A x \in Requests : x # q => job'[x] = job[x]
  BY <1>1, DoesOn
<1>3. ASSUME job[q].kind = "reset", job[q].alone = TRUE, job'[q] # Idle
      PROVE  IF Postgres THEN Stages(job[q], Len(job[q].todo), deployment.type)'
             ELSE MemoryStages(Len(job[q].todo))'
  <2> DEFINE m == Len(job'[q].todo)
  <2>1. Len(job[q].todo) = 4 /\ m = Len(job[q].todo) - 1
    BY <1>1, <1>2, <1>3, ResetSteps DEF MovesTo
  <2>2. m = 3
    BY <2>1
  <2> HIDE DEF m
  <2>3. ~ (m <= 1)
    BY <2>2
  <2>4. MemoryStages(Len(job[q].todo))'
    BY <1>1, <2>3 DEF MemoryStages, Nothing, m
  <2> QED BY <1>1, <2>4
<1>4. deployment' = deployment
  BY <1>1
<1> QED BY <1>1, <1>2, <1>3, <1>4, StageWatched

LEMMA CheckWatched ==
  ASSUME IInv, Watched, NEW q \in Requests, Check(q)
  PROVE  Watched'
<1>1. At(q, "check") /\ UNCHANGED <<deployment, date, tables, runs, setup>> /\ (Does(q) \/ Ends(q))
  BY DEF Check
<1>2. CASE Ends(q)
  <2>1. job'[q] = Idle /\ \A x \in Requests : x # q => job'[x] = job[x]
    BY <1>1, <1>2, EndsOn DEF IInv
  <2> QED BY <1>1, <2>1, Working, EndWatched
<1>3. CASE Does(q)
  <2>1. MovesTo(q, job[q]) /\ \A x \in Requests : x # q => job'[x] = job[x]
    BY <1>1, <1>3, DoesOn
  <2>2. ASSUME job[q].kind = "reset", job[q].alone = TRUE, job'[q] # Idle
        PROVE  IF Postgres THEN Stages(job[q], Len(job[q].todo), deployment.type)'
               ELSE MemoryStages(Len(job[q].todo))'
    <3> DEFINE n == Len(job[q].todo)
               m == Len(job'[q].todo)
    <3>1. n = 3 /\ m = n - 1 /\ ~ Postgres
      BY <1>1, <2>1, <2>2, ResetSteps DEF MovesTo
    <3>2. MemoryStages(n)
      BY <1>1, <2>2, <3>1, Working, ResetIs
    <3>3. m = 2
      BY <3>1
    <3> HIDE DEF n, m
    <3>4. runs = {} /\ Nothing /\ banks = {}
      BY <3>1, <3>2 DEF MemoryStages
    <3>5. ~ (m <= 1)
      BY <3>3
    <3>6. MemoryStages(Len(job[q].todo))'
      BY <1>1, <3>4, <3>5 DEF MemoryStages, Nothing, tables, m
    <3> QED BY <3>1, <3>6
  <2>3. deployment' = deployment
    BY <1>1
  <2> QED BY <1>1, <2>1, <2>2, <2>3, StageWatched
<1> QED BY <1>1, <1>2, <1>3

LEMMA SeedWatched ==
  ASSUME IInv, Watched, NEW q \in Requests, Seed(q)
  PROVE  Watched'
<1> DEFINE p == NewIn("payments")
           f == NewIn("fees")
           r == NewIn("refunds")
           o == NewIn("payouts")
           b == NewIn("banks")
           cur == deployment.currency
<1>1. /\ At(q, "seed") /\ Does(q)
      /\ payments' = payments \cup Paid("seed", p)
      /\ fees' = fees \cup Charged("seed", f, p)
      /\ refunds' = refunds \cup {Refund("seed", r, p)}
      /\ payouts' = payouts \cup {Payout("seed", o, today, cur)}
      /\ banks' = banks \cup Posted("seed", Net["seed"], b, today, cur)
      /\ UNCHANGED <<deployment, date, items, runs, setup>>
  BY DEF Seed
<1>2. MovesTo(q, job[q]) /\ \A x \in Requests : x # q => job'[x] = job[x]
  BY <1>1, DoesOn
<1>3. today' = today /\ ~ Postgres /\ Net' = Net
  BY <1>1, Unmoved, Unseeded DEF Net
<1> HIDE DEF p, f, r, o, b, cur
<1>4. ASSUME job[q].kind = "reset", job[q].alone = TRUE, job'[q] # Idle
      PROVE  IF Postgres THEN Stages(job[q], Len(job[q].todo), deployment.type)'
             ELSE MemoryStages(Len(job[q].todo))'
  <2> DEFINE n == Len(job[q].todo)
             m == Len(job'[q].todo)
  <2>1. n = 2 /\ m = n - 1
    BY <1>1, <1>2, <1>3, <1>4, ResetSteps DEF MovesTo
  <2>2. MemoryStages(n)
    BY <1>1, <1>3, <1>4, Working, ResetIs
  <2>3. m = 1
    BY <2>1
  <2> HIDE DEF n, m
  <2>4. runs = {} /\ Nothing /\ banks = {}
    BY <2>1, <2>2 DEF MemoryStages
  <2>5. payments' = Paid("seed", p) /\ fees' = Charged("seed", f, p)
    BY <1>1, <2>4 DEF Nothing
  <2>6. refunds' = {Refund("seed", r, p)} /\ payouts' = {Payout("seed", o, today, cur)}
    BY <1>1, <2>4 DEF Nothing
  <2>7. banks' = Posted("seed", Net["seed"], b, today, cur)
    BY <1>1, <2>4
  <2>8. Loaded("seed")'
    <3>1. /\ \E id : payments' = Paid("seed", id)
          /\ \E id, of : fees' = Charged("seed", id, of)
      BY <2>5
    <3>2. /\ \E id, of : refunds' = {Refund("seed", id, of)}
          /\ \E id, c : payouts' = {Payout("seed", id, today', c)}
      BY <1>3, <2>6
    <3> QED BY <3>1, <3>2 DEF Loaded
  <2>9. Banked("seed")'
    <3>1. \E id, c : banks' = Posted("seed", Net["seed"], id, today', c)
      BY <1>3, <2>7
    <3> QED BY <1>3, <3>1 DEF Banked
  <2>10. m \notin {2, 3}
    BY <2>3
  <2>11. MemoryStages(Len(job[q].todo))'
    BY <1>1, <2>4, <2>8, <2>9, <2>10 DEF MemoryStages, m
  <2> QED BY <1>3, <2>11
<1>5. deployment' = deployment
  BY <1>1
<1> QED BY <1>1, <1>2, <1>4, <1>5, StageWatched

LEMMA MatchWatched ==
  ASSUME IInv, Watched, NEW q \in Requests, Reconcile(q)
  PROVE  Watched'
<1>1. At(q, "match") /\ Does(q) /\ UNCHANGED <<deployment, date>>
  BY DEF Reconcile
<1>2. MovesTo(q, job[q]) /\ \A x \in Requests : x # q => job'[x] = job[x]
  BY <1>1, DoesOn
<1>3. ASSUME job[q].kind = "reset", job'[q] # Idle PROVE FALSE
  <2>1. Len(job[q].todo) = 1
    BY <1>1, <1>3, ResetSteps
  <2> QED BY <1>2, <1>3, <2>1 DEF MovesTo
<1>4. deployment' = deployment
  BY <1>1
<1> QED BY <1>1, <1>2, <1>3, <1>4, StageWatched

LEMMA AnswerIsLast ==
  ASSUME IInv, NEW q \in Requests, At(q, "answer"), job[q].kind \in DOMAIN Reports
  PROVE  Len(job[q].todo) = 1
<1> DEFINE n == Len(job[q].todo)
           rep == Reports[job[q].kind]
<1>1. CASE Postgres
  <2>1. "answer" = rep[1 + Len(rep) - n] /\ n \in 1..Len(rep)
    BY <1>1, ReportSteps
  <2>2. /\ Reports["explain"] = <<"payments", "payouts", "banks", "fees", "refunds", "answer">>
        /\ Reports["cash"] = <<"banks", "payouts", "fees", "refunds", "answer">>
        /\ Reports["month"] = <<"payments", "refunds", "fees", "payouts", "answer">>
        /\ DOMAIN Reports = {"explain", "cash", "month"}
    BY DEF Reports
  <2> HIDE DEF n
  <2>3. CASE job[q].kind = "explain"
    <3>1. rep = <<"payments", "payouts", "banks", "fees", "refunds", "answer">>
      BY <2>2, <2>3
    <3> HIDE DEF rep
    <3>2. Len(rep) = 6 /\ \A i \in 1..5 : rep[i] # "answer"
      BY <3>1
    <3>3. n \in 1..6 /\ "answer" = rep[7 - n]
      BY <2>1, <3>2
    <3>4. n # 1 => 7 - n \in 1..5
      BY <3>3
    <3> QED BY <3>2, <3>3, <3>4 DEF n
  <2>4. CASE job[q].kind = "cash" \/ job[q].kind = "month"
    <3>1. rep = <<"banks", "payouts", "fees", "refunds", "answer">>
          \/ rep = <<"payments", "refunds", "fees", "payouts", "answer">>
      BY <2>2, <2>4
    <3> HIDE DEF rep
    <3>2. Len(rep) = 5 /\ \A i \in 1..4 : rep[i] # "answer"
      BY <3>1
    <3>3. n \in 1..5 /\ "answer" = rep[6 - n]
      BY <2>1, <3>2
    <3>4. n # 1 => 6 - n \in 1..4
      BY <3>3
    <3> QED BY <3>2, <3>3, <3>4 DEF n
  <2> QED BY <2>2, <2>3, <2>4
<1>2. CASE ~ Postgres
  <2>1. Steps[job[q].kind] = <<"answer">>
    BY <1>2 DEF Steps, Reports, Writes
  <2>2. n \in 1..Len(Steps[job[q].kind])
    BY StepNow DEF IInv
  <2>3. Len(Steps[job[q].kind]) = 1
    BY <2>1
  <2> QED BY <2>2, <2>3
<1> QED BY <1>1, <1>2

LEMMA AnswerWatched ==
  ASSUME IInv, Watched, NEW q \in Requests, Answer(q)
  PROVE  Watched'
<1>1. At(q, "answer") /\ Does(q) /\ UNCHANGED <<deployment, date, tables, runs, setup>> /\ job[q] # Idle
  BY Working DEF Answer
<1>2. MovesTo(q, job[q]) /\ \A x \in Requests : x # q => job'[x] = job[x]
  BY <1>1, DoesOn
<1>3. CASE job'[q] = Idle
  BY <1>1, <1>2, <1>3, EndWatched
<1>4. CASE job'[q] # Idle
  <2> DEFINE n == Len(job[q].todo)
  <2>1. n > 1 /\ Len(job'[q].todo) = n - 1 /\ job'[q].kind = job[q].kind
        /\ job'[q].alone = job[q].alone /\ job'[q].snap = job[q].snap
    BY <1>2, <1>4 DEF MovesTo
  <2>2. job[q].kind # "reset"
    BY <1>1, ResetSteps
  <2>3. job[q].kind \notin DOMAIN Reports
    <3> SUFFICES ASSUME job[q].kind \in DOMAIN Reports PROVE FALSE
      OBVIOUS
    <3>1. n = 1
      BY <1>1, AnswerIsLast
    <3> QED BY <2>1, <3>1
  <2>4. ReportOK(q)'
    <3>1. Reports' = Reports
      BY DEF Reports
    <3> QED BY <2>1, <2>3, <3>1 DEF ReportOK
  <2>5. RepairOK(q)'
    BY <2>1, <2>2, NoReset
  <2> QED BY <1>1, <1>2, <2>4, <2>5, StepWatched
<1> QED BY <1>3, <1>4

LEMMA FailWatched ==
  ASSUME IInv, Watched, NEW q \in Requests, Fail(q)
  PROVE  Watched'
<1>1. Ends(q) /\ UNCHANGED <<deployment, date>> /\ job[q] # Idle
  BY DEF Fail, AtWork
<1>2. job'[q] = Idle /\ \A x \in Requests : x # q => job'[x] = job[x]
  BY <1>1, EndsOn DEF IInv
<1> QED BY <1>1, <1>2, EndWatched

LEMMA StillWatched ==
  ASSUME Watched, UNCHANGED <<deployment, date, tables, runs, job>>
  PROVE  Watched'
<1>1. today' = today /\ (Postgres' <=> Postgres) /\ Books' = Books
  BY Unmoved DEF Books, tables
<1>2. UNCHANGED <<payments, fees, refunds, payouts, items, banks>>
  BY DEF tables
<1>3. Reports' = Reports /\ Idle' = Idle /\ Net' = Net
  BY DEF Reports, Idle, NoBooks, Net
<1>4. \A d : (Loaded(d) => Loaded(d)') /\ (Banked(d) => Banked(d)') /\ (Nothing => Nothing')
  BY <1>1, <1>2, <1>3 DEF Loaded, Banked, Nothing
<1>5. \A q \in Requests : ReportOK(q)'
  BY <1>1, <1>3 DEF Watched, ReportOK
<1>6. \A j, n, d : Stages(j, n, d) => Stages(j, n, d)'
  BY <1>2, <1>3, <1>4 DEF Stages
<1>7. \A n : MemoryStages(n) => MemoryStages(n)'
  BY <1>2, <1>4 DEF MemoryStages
<1>8. \A q \in Requests : RepairOK(q)'
  BY <1>1, <1>3, <1>6, <1>7 DEF Watched, RepairOK
<1> QED BY <1>5, <1>8 DEF Watched

LEMMA TomorrowWatched ==
  ASSUME Tomorrow
  PROVE  Watched'
<1>1. \A q \in Requests : job'[q] = Idle
  BY DEF Tomorrow, AtWork
<1> QED BY <1>1, AtRest DEF Watched

LEMMA NextWatched == IInv /\ Watched /\ [Next]_vars => Watched'
<1> SUFFICES ASSUME IInv, Watched, [Next]_vars PROVE Watched'
  OBVIOUS
<1>1. CASE UNCHANGED vars
  BY <1>1, StillWatched DEF vars
<1>2. ASSUME NEW q \in Requests,
             \/ SyncStripeDemo(q) \/ syncStripeMock(q) \/ SyncBank(q) \/ Seed(q) \/ Reconcile(q)
             \/ ClearPostgres(q) \/ ClearMemory(q)
      PROVE  Watched'
  BY <1>2, SyncWatched, MockWatched, BankWatched, SeedWatched, MatchWatched, ClearWatched, ForgetWatched
<1>3. ASSUME NEW q \in Requests,
             \/ Fail(q) \/ Answer(q) \/ ReadAmount(q) \/ DeleteRuns(q) \/ DeleteLinks(q) \/ Check(q)
      PROVE  Watched'
  BY <1>3, FailWatched, AnswerWatched, AmountWatched, DeleteWatched, CheckWatched
<1>4. ASSUME NEW q \in Requests, NEW kind \in deployment.load, Begin(q, kind) PROVE Watched'
  BY <1>4, BeginWatched
<1>5. ASSUME NEW q \in Requests, NEW table \in DOMAIN Books, Read(q, table) PROVE Watched'
  BY <1>5, ReadWatched
<1>6. ASSUME NEW a \in Answers, UpsertOnboardingStatus(a) PROVE Watched'
  BY <1>6, StillWatched DEF UpsertOnboardingStatus
<1>7. CASE Tomorrow
  BY <1>7, TomorrowWatched
<1> QED BY <1>1, <1>2, <1>3, <1>4, <1>5, <1>6, <1>7 DEF Next

(* A request that is alone is where its own steps have brought it.         *)
THEOREM AloneIsUndisturbed == Spec => []Watched
<1>1. Init => Watched
  BY InitWatched
<1>2. IInv /\ Watched /\ [Next]_vars => Watched'
  BY NextWatched
<1> QED BY <1>1, <1>2, Invariance, PTL DEF Spec

-----------------------------------------------------------------------------
(***************************************************************************)
(* A report that is read while nothing else is going on.                   *)
(***************************************************************************)
LEMMA ReadsAll ==
  ASSUME IInv, Watched, Postgres, NEW q \in Requests, NEW kind \in {"explain", "month"}, Alone(q, kind)
  PROVE  LET s == Seen(q) IN
         /\ s.payments = payments /\ s.fees = fees /\ s.refunds = refunds /\ s.payouts = payouts
         /\ kind = "explain" => s.banks = banks
<1>1. job[q].kind = kind /\ At(q, "answer") /\ job[q].alone = TRUE /\ job[q] # Idle
  BY Working DEF Alone, IInv
<1>2. /\ Reports["explain"] = <<"payments", "payouts", "banks", "fees", "refunds", "answer">>
      /\ Reports["month"] = <<"payments", "refunds", "fees", "payouts", "answer">>
      /\ kind \in DOMAIN Reports
  BY DEF Reports
<1>3. Len(job[q].todo) = 1
  BY <1>1, <1>2, AnswerIsLast
<1>4. \A k \in 1..(Len(Reports[kind]) - 1) : job[q].snap[Reports[kind][k]] = Books[Reports[kind][k]]
  BY <1>1, <1>2, <1>3 DEF Watched, ReportOK
<1> DEFINE got(table) == job[q].snap[table] = Books[table]
<1>5. got("payments") /\ got("fees") /\ got("refunds") /\ got("payouts") /\ (kind = "explain" => got("banks"))
  <2>1. CASE kind = "explain"
    <3> DEFINE rep == Reports[kind]
    <3>1. rep = <<"payments", "payouts", "banks", "fees", "refunds", "answer">>
      BY <1>2, <2>1
    <3>2. \A k \in 1..(Len(rep) - 1) : got(rep[k])
      BY <1>4
    <3> HIDE DEF rep, got
    <3>3. /\ Len(rep) = 6 /\ rep[1] = "payments" /\ rep[2] = "payouts" /\ rep[3] = "banks"
          /\ rep[4] = "fees" /\ rep[5] = "refunds"
      BY <3>1
    <3>4. got(rep[1]) /\ got(rep[2]) /\ got(rep[3]) /\ got(rep[4]) /\ got(rep[5])
      BY <3>2, <3>3
    <3> QED BY <3>3, <3>4
  <2>2. CASE kind = "month"
    <3> DEFINE rep == Reports[kind]
    <3>1. rep = <<"payments", "refunds", "fees", "payouts", "answer">>
      BY <1>2, <2>2
    <3>2. \A k \in 1..(Len(rep) - 1) : got(rep[k])
      BY <1>4
    <3> HIDE DEF rep, got
    <3>3. /\ Len(rep) = 5 /\ rep[1] = "payments" /\ rep[2] = "refunds" /\ rep[3] = "fees"
          /\ rep[4] = "payouts"
      BY <3>1
    <3>4. got(rep[1]) /\ got(rep[2]) /\ got(rep[3]) /\ got(rep[4])
      BY <3>2, <3>3
    <3> QED BY <2>2, <3>3, <3>4
  <2> QED BY <2>1, <2>2
<1> QED BY <1>5 DEF Seen, Listed, Books

LEMMA ExplainedAlways == IInv /\ Watched => ExplanationAddsUp
<1> SUFFICES ASSUME IInv, Watched, NEW q \in Requests, Postgres, Alone(q, "explain"),
                    OneSample(Seen(q)), NEW p \in Seen(q).payouts, NEW e \in Explain(p, Seen(q))
             PROVE  e.gross - e.fees - e.refunds = e.net
  BY DEF ExplanationAddsUp
<1> DEFINE s == Seen(q)
<1>0. /\ s.payments = payments /\ s.fees = fees /\ s.refunds = refunds /\ s.payouts = payouts
  BY ReadsAll
<1>1. OneSample(Books) /\ payouts # {}
  BY <1>0 DEF OneSample, Books
<1>2. PICK d \in Data : Complete(s.payments, s.fees, s.refunds, s.payouts, d) /\ d \in Samples
  BY <1>0, <1>1, WholeComplete, Places DEF IInv
<1>3. e.gross = Gross(p, s) /\ e.fees = Total(s.fees) /\ e.refunds = Total(s.refunds) /\ e.net = p.amount
  BY ExplainIs
<1>4. p.amount = Net[d]
  BY <1>2 DEF Complete, Payout
<1> HIDE DEF s
<1>5. Total(s.payments) = Sales(d) /\ Total(s.fees) = Costs(d) /\ Total(s.refunds) = Back(d)
  BY <1>1, <1>2, CompleteMonth
<1>6. Sales(d) # 0 /\ Net[d] = Sales(d) - Costs(d) - Back(d)
  BY Amounts, NetIs DEF Data, Samples
<1>7. Gross(p, s) = Sales(d)
  BY <1>5, <1>6 DEF Gross
<1> QED BY <1>3, <1>4, <1>5, <1>6, <1>7

LEMMA ReportedAlways == IInv /\ Watched => ReportAddsUp
<1> SUFFICES ASSUME IInv, Watched, NEW q \in Requests, Postgres, Alone(q, "month"),
                    Seen(q).payouts # {}, OneSample(Seen(q))
             PROVE  LET s == Seen(q) IN
                    MonthlyReport(s).payouts
                      = MonthlyReport(s).net + Total({r \in s.payments : r.status = "refunded"})
  BY DEF ReportAddsUp
<1> DEFINE s == Seen(q)
           refunded == {r \in s.payments : r.status = "refunded"}
<1>0. /\ s.payments = payments /\ s.fees = fees /\ s.refunds = refunds /\ s.payouts = payouts
  BY ReadsAll
<1>1. OneSample(Books) /\ payouts # {}
  BY <1>0 DEF OneSample, Books
<1>2. PICK d \in Data : Complete(s.payments, s.fees, s.refunds, s.payouts, d) /\ d \in Samples
  BY <1>0, <1>1, WholeComplete, Places DEF IInv
<1> HIDE DEF s
<1>3. MonthlyReport(s) = [net |-> Kept(d) - Back(d) - Costs(d), payouts |-> Net[d]]
  BY <1>1, <1>2, CompleteMonth
<1>4. Total(refunded) = Sales(d) - Kept(d) /\ Kept(d) \in Int
  <2>1. PICK id : s.payments = Paid(d, id)
    BY <1>2 DEF Complete
  <2> QED BY <1>1, <2>1, PaidByStatus
<1>5. /\ Net[d] = Sales(d) - Costs(d) - Back(d)
      /\ Sales(d) \in Int /\ Costs(d) \in Int /\ Back(d) \in Int
  BY Amounts, NetIs DEF Data, Samples
<1>6. Net[d] = (Kept(d) - Back(d) - Costs(d)) + (Sales(d) - Kept(d))
  BY <1>4, <1>5
<1> HIDE DEF refunded
<1>7. MonthlyReport(s).payouts = MonthlyReport(s).net + Total(refunded)
  BY <1>3, <1>4, <1>6
<1> QED BY <1>7 DEF s, refunded

(* What an explanation and the report of a month take off is what was not  *)
(* paid out, whoever synced and reset before, and however often.           *)
THEOREM ReportsAreComplete == Spec => []ReportsAddUp
<1>1. IInv /\ Watched => ReportsAddUp
  BY ExplainedAlways, ReportedAlways DEF ReportsAddUp
<1> QED BY <1>1, Invariance, AloneIsUndisturbed, PTL

-----------------------------------------------------------------------------
(***************************************************************************)
(* A payout of the sample data, and the deposits it is matched with.       *)
(***************************************************************************)
NetAmounts == {166372, 1545674, 157110}
OtherAmounts == [student |-> {21245}, restaurant |-> {195610, 141000}, seed |-> {21245}]

Ago == [student |-> 2, restaurant |-> 1, seed |-> 4]
IsDeposit(b, d, n, day) ==
  /\ b.key = Deposit[d] /\ b.amount = n /\ b.day = day - Ago[d]
  /\ d # "restaurant" <=> "stripe" \in b.words
IsOther(b, d) ==
  b.key # Deposit[d] /\ b.amount \in OtherAmounts[d] /\ "stripe" \notin b.words /\ b.day \in Int

Fits(e, d, n) ==
  /\ e.key = Deposit[d] /\ e.amount = n /\ e.ago = Ago[d]
  /\ d # "restaurant" <=> "stripe" \in e.words
Other(e, d) ==
  e.key # Deposit[d] /\ e.amount \in OtherAmounts[d] /\ "stripe" \notin e.words /\ e.ago \in Nat

LEMMA EntryIs ==
  ASSUME NEW key, NEW amount, NEW direction, NEW words, NEW ago
  PROVE  LET e == Entry(key, amount, direction, words, ago) IN
         e.key = key /\ e.amount = amount /\ e.direction = direction /\ e.words = words /\ e.ago = ago
BY DEF Entry

(* The entries that are credits.                                           *)
LEMMA CreditEntries ==
  ASSUME NEW d \in Data, NEW n
  PROVE  /\ \A e \in Entries(d, n) : e.direction = "credit" => Fits(e, d, n) \/ Other(e, d)
         /\ \E e \in Entries(d, n) : e.direction = "credit" /\ Fits(e, d, n)
<1>1. CASE d = "student"
  <2> DEFINE a == Entry("student_deposit", n, "credit", {"stripe"}, 2)
             b == Entry("venue", 30000, "debit", {"venue"}, 1)
             c == Entry("unmatched", 21245, "credit", {}, 1)
  <2>1. Entries(d, n) = {a, b, c}
    BY <1>1, EntriesAre DEF OfStudents, Deposit
  <2>2. Deposit[d] = "student_deposit" /\ Ago[d] = 2
    BY <1>1 DEF Deposit, Ago
  <2>3. a.direction = "credit" /\ Fits(a, d, n)
    BY <1>1, <2>2, EntryIs DEF Fits
  <2>4. b.direction = "debit" /\ Other(c, d)
    BY <1>1, <2>2, EntryIs DEF Other, OtherAmounts
  <2> HIDE DEF a, b, c
  <2> QED BY <2>1, <2>3, <2>4
<1>2. CASE d = "restaurant"
  <2> DEFINE a == Entry("restaurant_deposit", n, "credit", {}, 1)
             b == Entry("delivery", 195610, "credit", {}, 1)
             c == Entry("branch", 141000, "credit", {}, 1)
             f == Entry("supplier", 287540, "debit", {"food"}, 0)
             g == Entry("payroll", 684500, "debit", {}, 0)
  <2>1. Entries(d, n) = {a, b, c, f, g}
    BY <1>2, EntriesAre DEF OfRestaurant, Deposit
  <2>2. Deposit[d] = "restaurant_deposit" /\ Ago[d] = 1
    BY <1>2 DEF Deposit, Ago
  <2>3. a.direction = "credit" /\ Fits(a, d, n)
    BY <1>2, <2>2, EntryIs DEF Fits
  <2>4. Other(b, d) /\ Other(c, d) /\ f.direction = "debit" /\ g.direction = "debit"
    BY <1>2, <2>2, EntryIs DEF Other, OtherAmounts
  <2> HIDE DEF a, b, c, f, g
  <2> QED BY <2>1, <2>3, <2>4
<1>3. CASE d = "seed"
  <2> DEFINE a == Entry("seed_deposit", n, "credit", {"stripe"}, 4)
             b == Entry("seed_unmatched", 21245, "credit", {}, 2)
             c == Entry("seed_venue", 30000, "debit", {"venue"}, 1)
  <2>1. Entries(d, n) = {a, b, c}
    BY <1>3, EntriesAre DEF OfSeed, Deposit
  <2>2. Deposit[d] = "seed_deposit" /\ Ago[d] = 4
    BY <1>3 DEF Deposit, Ago
  <2>3. a.direction = "credit" /\ Fits(a, d, n)
    BY <1>3, <2>2, EntryIs DEF Fits
  <2>4. Other(b, d) /\ c.direction = "debit"
    BY <1>3, <2>2, EntryIs DEF Other, OtherAmounts
  <2> HIDE DEF a, b, c
  <2> QED BY <2>1, <2>3, <2>4
<1> QED BY <1>1, <1>2, <1>3 DEF Data

LEMMA CreditsOf ==
  ASSUME NEW s, NEW d \in Data, NEW n \in Nat, NEW id, NEW day \in Nat, NEW cur,
         s.banks = Posted(d, n, id, day, cur)
  PROVE  /\ \A b \in Credits(s) : IsDeposit(b, d, n, day) \/ IsOther(b, d)
         /\ \E b \in Credits(s) : IsDeposit(b, d, n, day)
         /\ \A b, c \in Credits(s) : b.key = c.key => b = c
<1>1. s.banks = {BankRow(e, id, day, cur) : e \in Entries(d, n)}
  BY PostedRows
<1>2. \A b, c \in Credits(s) : b.key = c.key => b = c
  BY PostedRows DEF Credits
<1>3. \A b : b \in Credits(s) <=>
        \E e \in Entries(d, n) : b = BankRow(e, id, day, cur) /\ e.direction = "credit"
  BY <1>1 DEF Credits, BankRow
<1>4. /\ \A e \in Entries(d, n) : e.direction = "credit" => Fits(e, d, n) \/ Other(e, d)
      /\ \E e \in Entries(d, n) : e.direction = "credit" /\ Fits(e, d, n)
  BY CreditEntries
<1>5. \A e : /\ Fits(e, d, n) => IsDeposit(BankRow(e, id, day, cur), d, n, day)
             /\ Other(e, d) => IsOther(BankRow(e, id, day, cur), d)
  BY DEF BankRow, IsDeposit, IsOther, Fits, Other
<1>6. ASSUME NEW b \in Credits(s) PROVE IsDeposit(b, d, n, day) \/ IsOther(b, d)
  <2>1. PICK e \in Entries(d, n) : b = BankRow(e, id, day, cur) /\ e.direction = "credit"
    BY <1>3
  <2> QED BY <1>4, <1>5, <2>1
<1>7. \E b \in Credits(s) : IsDeposit(b, d, n, day)
  <2>1. PICK e \in Entries(d, n) : e.direction = "credit" /\ Fits(e, d, n)
    BY <1>4
  <2>2. BankRow(e, id, day, cur) \in Credits(s)
    BY <1>3, <2>1
  <2> QED BY <1>5, <2>1, <2>2
<1> QED BY <1>2, <1>6, <1>7

(* The confidence in a deposit of the amount, and in the others.           *)
LEMMA ConfidenceFits ==
  ASSUME NEW p, NEW b, p.amount \in NetAmounts, b.amount = p.amount
  PROVE  Confidence(p, b) = 700 + (IF Apart(p, b) < 5 THEN 200 - 40 * Apart(p, b) ELSE 0)
                                + (IF Mentions(b) THEN 200 ELSE 0)
<1> DEFINE gap == IF Distance(p.amount, b.amount) < p.amount
                  THEN Distance(p.amount, b.amount) ELSE p.amount
<1>1. gap = 0
  BY DEF Distance, NetAmounts
<1>2. (700 * gap + p.amount - 1) \div p.amount = 0
  <2> HIDE DEF gap
  <2>1. (700 * gap + p.amount - 1) = p.amount - 1
    BY <1>1 DEF NetAmounts
  <2>2. (p.amount - 1) \div p.amount = 0
    BY DEF NetAmounts
  <2> QED BY <2>1, <2>2
<1>3. Confidence(p, b) = 700 - (700 * gap + p.amount - 1) \div p.amount
        + (IF Apart(p, b) < 5 THEN 200 - 40 * Apart(p, b) ELSE 0)
        + (IF Mentions(b) THEN 200 ELSE 0)
  BY DEF Confidence
<1> HIDE DEF gap
<1> QED BY <1>2, <1>3

LEMMA ApartNat ==
  ASSUME NEW p, NEW b, p.day \in Int, b.day \in Int
  PROVE  Apart(p, b) \in Nat
BY DEF Apart, Distance

LEMMA ConfidenceFar ==
  ASSUME NEW d \in Data, NEW p, NEW b, p.amount = Net[d], IsOther(b, d), p.day \in Int
  PROVE  Confidence(p, b) \in Int /\ Confidence(p, b) < 600
<1> DEFINE gap == IF Distance(p.amount, b.amount) < p.amount
                  THEN Distance(p.amount, b.amount) ELSE p.amount
           lost == (700 * gap + p.amount - 1) \div p.amount
           near == IF Apart(p, b) < 5 THEN 200 - 40 * Apart(p, b) ELSE 0
           said == IF Mentions(b) THEN 200 ELSE 0
<1>1. Confidence(p, b) = 700 - lost + near + said
  BY DEF Confidence
<1>2. near \in Int /\ near <= 200
  BY ApartNat DEF IsOther
<1>3. said = 0
  BY DEF IsOther, Mentions
<1>4. lost \in Int /\ lost > 300
  <2>1. gap \in Nat /\ 2 * gap >= p.amount /\ p.amount \in Nat
    <3>1. p.amount \in Nat /\ b.amount \in Nat \ {0} /\ 2 * b.amount <= p.amount
      BY NetIs DEF Data, IsOther, OtherAmounts
    <3>2. Distance(p.amount, b.amount) = p.amount - b.amount
      BY <3>1 DEF Distance
    <3>3. gap = p.amount - b.amount
      BY <3>1, <3>2
    <3> HIDE DEF gap
    <3> QED BY <3>1, <3>3
  <2>2. CASE p.amount = 166372
    <3> HIDE DEF gap
    <3> QED BY <2>1, <2>2
  <2>3. CASE p.amount = 1545674
    <3> HIDE DEF gap
    <3> QED BY <2>1, <2>3
  <2>4. CASE p.amount = 157110
    <3> HIDE DEF gap
    <3> QED BY <2>1, <2>4
  <2> QED BY <2>2, <2>3, <2>4, NetIs DEF Data
<1> HIDE DEF lost, near, said
<1> QED BY <1>1, <1>2, <1>3, <1>4

(* A deposit with the amount that is near and says where it is from is     *)
(* taken before any other.                                                 *)
LEMMA DepositTaken ==
  ASSUME NEW left, NEW d \in Data, NEW p, p.amount = Net[d], p.day \in Int, NEW b \in left,
         b.amount = p.amount, Mentions(b), b.day \in Int, Apart(p, b) <= 2,
         \A c \in left : c = b \/ IsOther(c, d)
  PROVE  TakenFrom(left, p) = {b}
<1> DEFINE scores == {0} \cup {Confidence(p, c) : c \in left}
           best == Confidence(p, b)
<1>1. best \in Int /\ best >= 1020
  BY ConfidenceFits, ApartNat, NetIs DEF Data, NetAmounts
<1>2. ASSUME NEW c \in left, c # b PROVE Confidence(p, c) \in Int /\ Confidence(p, c) < 600
  BY <1>2, ConfidenceFar
<1> HIDE DEF best
<1>3. best \in scores /\ \A x \in scores : x \in Int /\ best >= x
  BY <1>1, <1>2 DEF best
<1>4. Max(scores) = best
  <2>1. Max(scores) \in scores /\ \A y \in scores : Max(scores) >= y
    <3> HIDE DEF scores
    <3> QED BY <1>3 DEF Max
  <2> HIDE DEF scores
  <2> QED BY <1>3, <2>1
<1>5. TakenFrom(left, p) = {c \in left : best >= 880 /\ Confidence(p, c) = best}
  BY <1>4 DEF TakenFrom
<1> QED BY <1>1, <1>2, <1>5 DEF best

LEMMA NoneTaken ==
  ASSUME NEW left, NEW p, \A c \in left : Confidence(p, c) \in Int /\ Confidence(p, c) < 880
  PROVE  TakenFrom(left, p) = {}
BY DEF TakenFrom

(* One payout takes the best of all deposits.                              *)
LEMMA OneMatching ==
  ASSUME NEW s, NEW p, s.payouts = {p}, NEW m \in Matchings(s)
  PROVE  IF TakenFrom(Credits(s), p) = {} THEN m[p] = NoDeposit ELSE m[p] \in TakenFrom(Credits(s), p)
<1> DEFINE credits == Credits(s)
<1>1. PICK order \in SetToSeqs(s.payouts) : \A i \in DOMAIN order :
        LET taken == TakenFrom(credits \ {m[order[j]] : j \in 1..(i - 1)}, order[i])
        IN  IF taken = {} THEN m[order[i]] = NoDeposit ELSE m[order[i]] \in taken
  BY DEF Matchings
<1>2. IsFiniteSet(s.payouts) /\ Cardinality(s.payouts) = 1
  BY FS_Singleton
<1>3. 1 \in DOMAIN order /\ order[1] = p
  BY <1>2, OrderCovers
<1>4. credits \ {m[order[j]] : j \in 1..(1 - 1)} = credits
  OBVIOUS
<1> HIDE DEF credits
<1> QED BY <1>1, <1>3, <1>4 DEF credits

LEMMA ScoredMatched ==
  ASSUME NEW s, NEW p, s.payouts = {p}, NEW r \in UNION ScoreAll(s), r.status = "matched"
  PROVE  \E b \in Credits(s) : /\ r.payout = p.key /\ r.deposit = b.key
                               /\ b.amount = p.amount /\ Points(p, b, s) >= 90
<1>1. PICK best \in [s.payouts -> Credits(s)] : r \in Scored(s, best)
  BY DEF ScoreAll
<1> DEFINE good == {x \in DOMAIN best : Points(x, best[x], s) >= 50}
<1>2. PICK x \in good : r = [payout |-> x.key, deposit |-> best[x].key, status |-> Status(x, best[x], s)]
  BY <1>1 DEF Scored
<1>3. x = p /\ best[p] \in Credits(s)
  BY <1>1
<1>4. Status(p, best[p], s) = "matched"
  BY <1>2, <1>3
<1>5. Points(p, best[p], s) >= 90 /\ best[p].amount = p.amount
  BY <1>4 DEF Status
<1> QED BY <1>2, <1>3, <1>5

(* A deposit of another amount neither explains the payout nor scores high. *)
LEMMA OtherFar ==
  ASSUME NEW d \in Data, NEW p, NEW b, p.amount = Net[d], IsOther(b, d)
  PROVE  b.amount # p.amount /\ ~ Near(p, b)
<1>1. p.amount \in Nat /\ b.amount \in Nat /\ b.amount + 500 < p.amount
  BY NetIs DEF Data, IsOther, OtherAmounts
<1> QED BY <1>1 DEF Near, Distance

LEMMA HighScoreNear ==
  ASSUME NEW s, NEW p, NEW b, Points(p, b, s) >= 90, b.amount = p.amount
  PROVE  Apart(p, b) <= 2
<1>0. SameCurrency(p, b)
  BY DEF Points
<1>1. AmountPoints(p, b, s) = 45
  BY DEF AmountPoints
<1>2. ~ (Apart(p, b) <= 2) => DatePoints(p, b) \in {0, 10}
  BY DEF DatePoints
<1> DEFINE said == IF Mentions(b) THEN 5 ELSE 0
<1>3. Points(p, b, s) = 25 + AmountPoints(p, b, s) + DatePoints(p, b) + said /\ said \in {0, 5}
  BY <1>0 DEF Points
<1> HIDE DEF said
<1> QED BY <1>1, <1>2, <1>3

LEMMA ReconciledAlways == IInv /\ Watched => MatchedMeansReconciled
<1> SUFFICES ASSUME IInv, Watched, Postgres, deployment.type = "student",
                    NEW q \in Requests, Alone(q, "explain"),
                    NEW r \in UNION ScoreAll(Seen(q)), r.status = "matched",
                    NEW p \in Seen(q).payouts, p.key = r.payout
             PROVE  LET s == Seen(q) IN
                    /\ \A m \in Matchings(s) : m[p].key = r.deposit
                    /\ \A b \in s.banks : b.key = r.deposit /\ b.currency = p.currency =>
                         \A e \in Explain(p, s) :
                           e.deposit = r.deposit /\ "amount_differs" \notin e.warnings
  BY DEF MatchedMeansReconciled
<1> DEFINE s == Seen(q)
           d == "student"
<1>1. s.payouts = payouts /\ s.banks = banks /\ d \in Data
  BY ReadsAll DEF Data
<1>a. Covered /\ Lot = {d} /\ WholeOf(d) /\ d \in Samples /\ PayoutWhole
  BY LotIs, Places DEF IInv, Whole
<1>2. PICK id \in Ids, day \in Nat, cur \in Currencies : payouts = {Payout(d, id, day, cur)}
  <2>1. PICK c \in Samples, id \in Ids, day \in Nat, cur \in Currencies :
          payouts = {Payout(c, id, day, cur)} /\ PaidOf(c) # {}
    BY <1>1, <1>a DEF PayoutWhole
  <2>2. PICK x \in payments : x.key \in LineKeys(c)
    BY <2>1 DEF PaidOf, Among
  <2>3. c = d
    BY <1>a, <2>1, <2>2, SamplesApart DEF Covered
  <2> QED BY <2>1, <2>3
<1>3. s.payouts = {p} /\ p.amount = Net[d] /\ p.day \in Int
  <2>1. s.payouts = {p}
    BY <1>1, <1>2
  <2>2. p = Payout(d, id, day, cur) /\ Arrived[d] \in Nat
    BY <1>1, <1>2, ChargesOK
  <2> QED BY <2>1, <2>2 DEF Payout
<1> HIDE DEF s
<1>4. PICK b \in Credits(s) : /\ r.deposit = b.key /\ b.amount = p.amount /\ Points(p, b, s) >= 90
  BY <1>3, ScoredMatched DEF s
<1>5. PICK n \in Nat, bank \in Ids, posted \in Nat, w \in Currencies : s.banks = Posted(d, n, bank, posted, w)
  <2>1. s.banks # {}
    BY <1>4 DEF Credits
  <2>2. BanksOf(d) = banks
    BY <1>a DEF Covered, BanksOf, Among
  <2> QED BY <1>1, <1>a, <2>1, <2>2 DEF WholeOf, BanksWhole
<1>6. /\ \A c \in Credits(s) : IsDeposit(c, d, n, posted) \/ IsOther(c, d)
      /\ \A c, g \in Credits(s) : c.key = g.key => c = g
  BY <1>1, <1>5, CreditsOf
<1>7. IsDeposit(b, d, n, posted)
  BY <1>1, <1>3, <1>4, <1>6, OtherFar
<1>8. \A c \in Credits(s) : c = b \/ IsOther(c, d)
  BY <1>6, <1>7 DEF IsDeposit
<1>9. b.day \in Int /\ Mentions(b) /\ Apart(p, b) <= 2
  <2>1. b.day = posted - Ago[d] /\ Ago[d] = 2 /\ "stripe" \in b.words
    BY <1>7 DEF IsDeposit, Ago
  <2> QED BY <1>4, <2>1, HighScoreNear DEF Mentions
<1>10. TakenFrom(Credits(s), p) = {b}
  BY <1>1, <1>3, <1>4, <1>8, <1>9, DepositTaken
<1>11. ASSUME NEW m \in Matchings(s) PROVE m[p].key = r.deposit
  BY <1>3, <1>4, <1>10, OneMatching
<1>12. ASSUME NEW c \in s.banks, c.key = r.deposit, c.currency = p.currency
       PROVE  Reached(p, s) = {b}
  <2>1. c = b
    <3>1. b \in s.banks
      BY <1>4 DEF Credits
    <3>2. \A x, y \in Posted(d, n, bank, posted, w) : x.key = y.key => x = y
      BY <1>1, PostedRows
    <3> QED BY <1>4, <1>5, <1>12, <3>1, <3>2
  <2>2. Near(p, b)
    BY <1>3, <1>4, <1>12, <2>1, NetIs DEF Near, Distance, Data
  <2>3. \A g \in Credits(s) : Near(p, g) => g = b
    BY <1>1, <1>3, <1>8, OtherFar
  <2> QED BY <1>4, <2>2, <2>3 DEF Reached
<1>13. ASSUME NEW c \in s.banks, c.key = r.deposit, c.currency = p.currency, NEW e \in Explain(p, s)
       PROVE  e.deposit = r.deposit /\ "amount_differs" \notin e.warnings
  <2>0. Reached(p, s) = {b}
    BY <1>12, <1>13
  <2>1. e.deposit = b.key /\ e.warnings = Warnings(p, b) \cup Doubts(p, s)
    BY <2>0, ExplainIs
  <2>2. "amount_differs" \notin Warnings(p, b)
    BY <1>4 DEF Warnings
  <2>3. "amount_differs" \notin Doubts(p, s)
    BY DEF Doubts
  <2> QED BY <1>4, <2>1, <2>2, <2>3
<1> QED BY <1>11, <1>13 DEF s

(* What is said of one payout, in four places, is never contradictory.     *)
THEOREM MatchingNeverDisagrees == Spec => []MatchingAgrees
<1>1. IInv /\ Watched => MatchingAgrees
  BY FlagsAgreeAlways, ReconciledAlways DEF MatchingAgrees
<1> QED BY <1>1, Invariance, AloneIsUndisturbed, PTL

-----------------------------------------------------------------------------
(***************************************************************************)
(* What a reset leaves that is alone and gets to its end.                  *)
(***************************************************************************)
Apiece(m, S) == \A x, y \in S : m[x] = m[y] => x = y

LEMMA ApieceMany ==
  ASSUME NEW S, IsFiniteSet(S), NEW m, Apiece(m, S)
  PROVE  Cardinality({m[x] : x \in S}) = Cardinality(S)
<1> DEFINE T == {m[x] : x \in S}
           f == [x \in S |-> m[x]]
<1>1. f \in Surjection(S, T)
  BY DEF Surjection
<1>2. f \in Injection(S, T)
  BY DEF Injection, IsInjective, Apiece
<1> HIDE DEF f, T
<1>3. Cardinality(T) = Cardinality(S)
  BY <1>1, <1>2, FS_Surjection
<1> QED BY <1>3 DEF T

(* Rows that stand for the same things, with the same keys and amounts.    *)
LEMMA SameRows ==
  ASSUME NEW S, IsFiniteSet(S), NEW m, NEW o, Apiece(m, S), Apiece(o, S),
         \A x \in S : m[x].key = o[x].key /\ m[x].amount = o[x].amount
  PROVE  Same({m[x] : x \in S}, {o[x] : x \in S})
<1>1. Cardinality({m[x] : x \in S}) = Cardinality(S) /\ Cardinality({o[x] : x \in S}) = Cardinality(S)
  BY ApieceMany
<1>2. {<<r.key, r.amount>> : r \in {m[x] : x \in S}} = {<<r.key, r.amount>> : r \in {o[x] : x \in S}}
  OBVIOUS
<1> QED BY <1>1, <1>2 DEF Same

LEMMA SamePaid ==
  ASSUME NEW d \in Data, NEW id PROVE Same(Paid(d, id), Paid(d, 1))
<1> DEFINE m == [i \in Lines(d) |-> Payment(d, i, id)]
           o == [i \in Lines(d) |-> Payment(d, i, 1)]
<1>1. \A i \in Lines(d) : m[i].key = <<d, i>> /\ o[i].key = <<d, i>> /\ m[i].amount = o[i].amount
  BY DEF Payment
<1>2. Paid(d, id) = {m[i] : i \in Lines(d)} /\ Paid(d, 1) = {o[i] : i \in Lines(d)}
  BY DEF Paid, Lines
<1> HIDE DEF m, o
<1>3. Apiece(m, Lines(d)) /\ Apiece(o, Lines(d))
  BY <1>1 DEF Apiece
<1>4. \A i \in Lines(d) : m[i].key = o[i].key /\ m[i].amount = o[i].amount
  BY <1>1
<1>5. IsFiniteSet(Lines(d))
  BY LinesFinite
<1>6. Same({m[i] : i \in Lines(d)}, {o[i] : i \in Lines(d)})
  BY <1>3, <1>4, <1>5, SameRows
<1> QED BY <1>2, <1>6

LEMMA SameCharged ==
  ASSUME NEW d \in Data, NEW id, NEW of PROVE Same(Charged(d, id, of), Charged(d, 1, 1))
<1> DEFINE m == [i \in Lines(d) |-> Fee(d, i, id, of)]
           o == [i \in Lines(d) |-> Fee(d, i, 1, 1)]
<1>1. \A i \in Lines(d) : m[i].key = <<d, i>> /\ o[i].key = <<d, i>> /\ m[i].amount = o[i].amount
  BY DEF Fee
<1>2. Charged(d, id, of) = {m[i] : i \in Lines(d)} /\ Charged(d, 1, 1) = {o[i] : i \in Lines(d)}
  BY DEF Charged, Lines
<1> HIDE DEF m, o
<1>3. Apiece(m, Lines(d)) /\ Apiece(o, Lines(d))
  BY <1>1 DEF Apiece
<1>4. \A i \in Lines(d) : m[i].key = o[i].key /\ m[i].amount = o[i].amount
  BY <1>1
<1>5. IsFiniteSet(Lines(d))
  BY LinesFinite
<1>6. Same({m[i] : i \in Lines(d)}, {o[i] : i \in Lines(d)})
  BY <1>3, <1>4, <1>5, SameRows
<1> QED BY <1>2, <1>6

LEMMA SameSingle ==
  ASSUME NEW r, NEW o, r.key = o.key, r.amount = o.amount PROVE Same({r}, {o})
BY FS_Singleton DEF Same

LEMMA SamePosted ==
  ASSUME NEW d \in Data, NEW n \in Nat, NEW id, NEW day \in Nat, NEW cur
  PROVE  Same(Posted(d, n, id, day, cur), Posted(d, n, 1, day, None))
<1> DEFINE S == Entries(d, n)
           m == [e \in S |-> BankRow(e, id, day, cur)]
           o == [e \in S |-> BankRow(e, 1, day, None)]
<1>1. \A e \in S : m[e].key = e.key /\ o[e].key = e.key /\ m[e].amount = o[e].amount
  BY DEF BankRow
<1>2. Posted(d, n, id, day, cur) = {m[e] : e \in S} /\ Posted(d, n, 1, day, None) = {o[e] : e \in S}
  BY DEF Posted, BankRow
<1>3. IsFiniteSet(S) /\ \A e, g \in S : e.key = g.key => e = g
  BY EntriesOK
<1> HIDE DEF m, o, S
<1>4. Apiece(m, S) /\ Apiece(o, S)
  BY <1>1, <1>3 DEF Apiece
<1> QED BY <1>1, <1>2, <1>3, <1>4, SameRows

(* The run over the sample data: the deposit is matched, but for that of a *)
(* restaurant, which does not say where it is from.                        *)
LEMMA RunOverSample ==
  ASSUME NEW s, NEW d \in Data, NEW id, NEW bank, NEW day \in Nat, NEW cur, NEW w,
         s.payouts = {Payout(d, id, day, cur)}, s.banks = Posted(d, Net[d], bank, day, w),
         NEW m \in Matchings(s)
  PROVE  {[payout |-> x.payout[1], deposit |-> x.deposit[1]] : x \in RunOf(s, m).matches}
           = IF d = "restaurant" THEN {} ELSE {[payout |-> PayoutKey[d], deposit |-> Deposit[d]]}
<1> DEFINE p == Payout(d, id, day, cur)
<1>1. p.key = PayoutKey[d] /\ p.amount = Net[d] /\ p.day = day - Arrived[d] /\ Arrived[d] \in Nat /\ p.day \in Int
  BY ChargesOK DEF Payout
<1> HIDE DEF p
<1>2. s.payouts = {p}
  BY DEF p
<1>3. /\ \A b \in Credits(s) : IsDeposit(b, d, Net[d], day) \/ IsOther(b, d)
      /\ \E b \in Credits(s) : IsDeposit(b, d, Net[d], day)
      /\ \A b, c \in Credits(s) : b.key = c.key => b = c
  BY NetNat, CreditsOf
<1>4. PICK b \in Credits(s) : IsDeposit(b, d, Net[d], day)
  BY <1>3
<1>5. \A c \in Credits(s) : c = b \/ IsOther(c, d)
  BY <1>3, <1>4 DEF IsDeposit
<1>6. b.key = Deposit[d] /\ b.amount = p.amount /\ b.day = day - Ago[d] /\ Ago[d] \in Nat /\ b.day \in Int
  <2>1. Ago[d] \in Nat
    BY DEF Ago, Data
  <2> QED BY <1>1, <1>4, <2>1 DEF IsDeposit
<1>7. RunOf(s, m).matches = {[payout |-> Ref(x), deposit |-> Ref(m[x])] : x \in {x \in {p} : m[x] # NoDeposit}}
  BY <1>2 DEF RunOf
<1>8. CASE d = "restaurant"
  <2>1. Apart(p, b) = 1 /\ ~ Mentions(b)
    <3>1. Arrived[d] = 2 /\ Ago[d] = 1
      BY <1>8 DEF Arrived, Ago
    <3> QED BY <1>1, <1>4, <1>6, <1>8, <3>1 DEF Apart, Distance, Mentions, IsDeposit
  <2>2. Confidence(p, b) = 860
    BY <1>1, <1>6, <2>1, NetIs, ConfidenceFits DEF NetAmounts, Data
  <2>3. ASSUME NEW c \in Credits(s) PROVE Confidence(p, c) \in Int /\ Confidence(p, c) < 880
    BY <1>1, <1>5, <2>2, ConfidenceFar
  <2>4. m[p] = NoDeposit
    <3>1. TakenFrom(Credits(s), p) = {}
      BY <2>3, NoneTaken
    <3> QED BY <1>2, <3>1, OneMatching
  <2> QED BY <1>7, <1>8, <2>4
<1>9. CASE d # "restaurant"
  <2>1. Apart(p, b) = 0 /\ Mentions(b)
    <3>1. Arrived[d] = Ago[d]
      BY <1>9 DEF Arrived, Ago, Data
    <3> QED BY <1>1, <1>4, <1>6, <1>9, <3>1 DEF Apart, Distance, Mentions, IsDeposit
  <2>2. TakenFrom(Credits(s), p) = {b}
    BY <1>1, <1>5, <1>6, <2>1, DepositTaken
  <2>3. m[p] = b
    BY <1>2, <2>2, OneMatching
  <2>4. b # NoDeposit
    <3>1. b.key # None
      BY <1>6 DEF Deposit, None, Data
    <3> QED BY <3>1 DEF NoDeposit
  <2>5. RunOf(s, m).matches = {[payout |-> Ref(p), deposit |-> Ref(b)]}
    BY <1>7, <2>3, <2>4
  <2>6. Ref(p)[1] = PayoutKey[d] /\ Ref(b)[1] = Deposit[d]
    BY <1>1, <1>6 DEF Ref
  <2> QED BY <1>9, <2>5, <2>6
<1> QED BY <1>8, <1>9

(* What is loaded and banked is the sample data.                           *)
LEMMA LoadedSame ==
  ASSUME IInv, NEW d \in Data, Loaded(d), Banked(d)
  PROVE  /\ Same(payments, Paid(d, 1)) /\ Same(fees, Charged(d, 1, 1)) /\ Same(refunds, {Refund(d, 1, 1)})
         /\ Same(payouts, {Payout(d, 1, today, None)}) /\ Same(banks, Posted(d, Net[d], 1, today, None))
<1>1. today \in Nat
  BY Places DEF IInv
<1>2. Same(payments, Paid(d, 1)) /\ Same(fees, Charged(d, 1, 1))
  BY SamePaid, SameCharged DEF Loaded
<1>3. Same(refunds, {Refund(d, 1, 1)})
  <2>1. PICK id, of : refunds = {Refund(d, id, of)}
    BY DEF Loaded
  <2>2. Refund(d, id, of).key = Refund(d, 1, 1).key /\ Refund(d, id, of).amount = Refund(d, 1, 1).amount
    BY DEF Refund
  <2> QED BY <2>1, <2>2, SameSingle
<1>4. Same(payouts, {Payout(d, 1, today, None)})
  <2>1. PICK id, cur : payouts = {Payout(d, id, today, cur)}
    BY DEF Loaded
  <2>2. /\ Payout(d, id, today, cur).key = Payout(d, 1, today, None).key
        /\ Payout(d, id, today, cur).amount = Payout(d, 1, today, None).amount
    BY DEF Payout
  <2> QED BY <2>1, <2>2, SameSingle
<1>5. Same(banks, Posted(d, Net[d], 1, today, None))
  BY <1>1, NetNat, SamePosted DEF Banked
<1> QED BY <1>2, <1>3, <1>4, <1>5

(* Only the request's own run is stored while it is alone.                 *)
LEMMA RunsByMatch ==
  ASSUME IInv, [Next]_vars, NEW q \in Requests, At(q, "match"), job[q].alone = TRUE, runs' # runs
  PROVE  Reconcile(q)
<1>1. job[q] # Idle /\ \A x \in Requests : x # q => job[x] = Idle
  BY Working DEF IInv, AloneOK
<1>2. PICK x \in Requests : Reconcile(x) \/ ClearPostgres(x) \/ ClearMemory(x)
  BY DEF Next, vars, Begin, Fail, Read, Answer, SyncStripeDemo, syncStripeMock, ReadAmount, SyncBank,
         DeleteRuns, DeleteLinks, Check, Seed, UpsertOnboardingStatus, Tomorrow
<1>3. At(x, "match") \/ At(x, "clear")
  BY <1>2 DEF Reconcile, ClearPostgres, ClearMemory
<1>4. x = q
  BY <1>1, <1>3, Working
<1>5. ~ At(q, "clear")
  BY DEF At
<1> QED BY <1>2, <1>4, <1>5 DEF ClearPostgres, ClearMemory

LEMMA ResetFresh ==
  ASSUME IInv, Watched, [Next]_vars, NEW q \in Requests, job[q].kind = "reset", At(q, "match"),
         runs' # runs, job[q].alone
  PROVE  Fresh(IF Postgres THEN deployment.type ELSE "seed")'
<1> DEFINE n == Len(job[q].todo)
<1>1. job[q].alone = TRUE /\ job[q] # Idle
  BY Working
<1>2. Reconcile(q)
  BY <1>1, RunsByMatch
<1>3. UNCHANGED <<deployment, date, tables>>
  BY <1>2 DEF Reconcile
<1>a. PICK d \in Data : d = IF Postgres THEN deployment.type ELSE "seed"
  BY Places DEF IInv, Data
<1>4. n = 1
  BY ResetSteps
<1>5. /\ runs = {} /\ Loaded(d) /\ Banked(d)
      /\ Postgres => job[q].snap.payouts = payouts /\ job[q].snap.banks = banks
  <2>1. CASE Postgres
    <3>1. Stages(job[q], 1, deployment.type)
      BY <1>1, <1>4, <2>1, ResetIs
    <3> QED BY <1>a, <2>1, <3>1 DEF Stages
  <2>2. CASE ~ Postgres
    <3>1. MemoryStages(1)
      BY <1>1, <1>4, <2>2, ResetIs
    <3> QED BY <1>a, <2>2, <3>1 DEF MemoryStages
  <2> QED BY <2>1, <2>2
<1> HIDE DEF n
<1>6. PICK s \in {Listed(IF Postgres THEN job[q].snap ELSE Books)} : \E m \in Matchings(s) :
        LET run == RunOf(s, m) IN
        runs' = IF \A x \in run.matches : ForeignKeys(x) THEN runs \cup {run} ELSE runs
  BY <1>2 DEF Reconcile
<1>7. PICK m \in Matchings(s) : runs' = {RunOf(s, m)}
  BY <1>5, <1>6
<1>8. s.payouts = payouts /\ s.banks = banks
  BY <1>5, <1>6 DEF Listed, Books
<1>9. today \in Nat
  BY Places DEF IInv
<1> DEFINE found(r) == {[payout |-> x.payout[1], deposit |-> x.deposit[1]] : x \in r.matches}
           right == IF d = "restaurant" THEN {} ELSE {[payout |-> PayoutKey[d], deposit |-> Deposit[d]]}
<1>10. found(RunOf(s, m)) = right
  <2>1. PICK id, cur : payouts = {Payout(d, id, today, cur)}
    BY <1>5 DEF Loaded
  <2>2. PICK bank, w : banks = Posted(d, Net[d], bank, today, w)
    BY <1>5 DEF Banked
  <2>3. s.payouts = {Payout(d, id, today, cur)} /\ s.banks = Posted(d, Net[d], bank, today, w)
    BY <1>8, <2>1, <2>2
  <2> QED BY <1>9, <2>3, RunOverSample
<1>11. {found(r) : r \in runs'} = {right}
  <2> HIDE DEF found, right
  <2> QED BY <1>7, <1>10
<1>12. /\ Same(payments, Paid(d, 1)) /\ Same(fees, Charged(d, 1, 1)) /\ Same(refunds, {Refund(d, 1, 1)})
       /\ Same(payouts, {Payout(d, 1, today, None)}) /\ Same(banks, Posted(d, Net[d], 1, today, None))
  BY <1>5, LoadedSame
<1>13. /\ today' = today /\ d = (IF Postgres THEN deployment.type ELSE "seed")'
       /\ UNCHANGED <<payments, fees, refunds, payouts, banks>>
  BY <1>3, <1>a DEF today, tables, Postgres
<1>14. Fresh(d)'
  BY <1>11, <1>12, <1>13 DEF Fresh
<1> QED BY <1>13, <1>14

(* A reset that no other request overlaps and that gets to its end leaves  *)
(* the sample data and one run over it.                                    *)
THEOREM ResetsRepair == Spec => ResetRepairs
<1>1. IInv /\ Watched /\ [Next]_vars =>
        [\A q \in Requests :
           /\ job[q].kind = "reset" /\ At(q, "match") /\ runs' # runs
           /\ job[q].alone
           => Fresh(IF Postgres THEN deployment.type ELSE "seed")']_vars
  BY ResetFresh
<1> QED BY <1>1, Invariance, AloneIsUndisturbed, PTL DEF Spec, ResetRepairs
=============================================================================
