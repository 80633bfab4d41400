----------------------------- MODULE SumsProofs -----------------------------
(***************************************************************************)
(* What is true of the sum of any numbers on a finite set: it is of no     *)
(* order, it splits, it is linear and monotonic, it groups and renames.    *)
(* And of functions that are given by a first value and a step.            *)
(***************************************************************************)
EXTENDS Sums, FiniteSetTheorems, WellFoundedInduction, TLAPS

(* Of any family of parts of a finite set one has no other in it.          *)
LEMMA Minimal ==
  ASSUME NEW S, IsFiniteSet(S), NEW B, B \subseteq SUBSET S, B # {}
  PROVE  \E M \in B : \A T \in B : ~ (T \subseteq M /\ T # M)
<1>1. IsWellFoundedOn(StrictSubsetOrdering(S), FiniteSubsetsOf(S))
  BY FS_StrictSubsetOrderingWellFounded
<1>2. B \subseteq FiniteSubsetsOf(S)
  BY FS_FiniteSubsetsOfFinite
<1>3. \E M \in B : \A T \in B : <<T, M>> \notin StrictSubsetOrdering(S)
  BY <1>1, <1>2, WFMin
<1> QED BY <1>3, <1>2 DEF StrictSubsetOrdering

(* g adds f up over any part of S: what one element adds does not depend   *)
(* on when it is taken.                                                    *)
Adds(g, f, S) ==
  /\ g \in [SUBSET S -> Int] /\ g[{}] = 0
  /\ \A T \in SUBSET S : \A x \in T : g[T] = f[x] + g[T \ {x}]

(* There is such a g for any numbers f on a finite set.                    *)
LEMMA AdderExists ==
  ASSUME NEW S, IsFiniteSet(S), NEW f, \A x \in S : f[x] \in Int
  PROVE  \E g : Adds(g, f, S)
<1> DEFINE B == {T \in SUBSET S : ~ \E g : Adds(g, f, T)}
<1>1. SUFFICES ASSUME B # {} PROVE FALSE
  <2>1. S \notin B => \E g : Adds(g, f, S)
    OBVIOUS
  <2> QED BY <1>1, <2>1
<1>2. B \subseteq SUBSET S
  OBVIOUS
<1>3. PICK M \in B : \A T \in B : ~ (T \subseteq M /\ T # M)
  <2> HIDE DEF B
  <2> QED BY <1>1, <1>2, Minimal
<1>4. CASE M = {}
  <2>1. Adds([T \in SUBSET M |-> 0], f, M)
    BY <1>4 DEF Adds
  <2> QED BY <2>1, <1>3
<1>5. CASE M # {}
  <2>1. PICK x \in M : TRUE
    BY <1>5
  <2>2. M \ {x} \notin B
    <3> HIDE DEF B
    <3> QED BY <1>3, <2>1
  <2>3. PICK g : Adds(g, f, M \ {x})
    BY <2>2
  <2> DEFINE h == [T \in SUBSET M |-> IF x \in T THEN f[x] + g[T \ {x}] ELSE g[T]]
  <2>4. f[x] \in Int
    BY <2>1
  <2>5. h \in [SUBSET M -> Int]
    <3>1. ASSUME NEW T \in SUBSET M PROVE h[T] \in Int
      BY <2>3, <2>4 DEF Adds
    <3> QED BY <3>1
  <2>6. h[{}] = 0
    BY <2>3 DEF Adds
  <2>7. ASSUME NEW T \in SUBSET M, NEW y \in T PROVE h[T] = f[y] + h[T \ {y}]
    <3>1. CASE x = y
      BY <3>1
    <3>2. CASE x # y /\ x \notin T
      BY <3>2, <2>3 DEF Adds
    <3>3. CASE x # y /\ x \in T
      <4>1. g[T \ {x}] = f[y] + g[(T \ {x}) \ {y}]
        BY <3>3, <2>3 DEF Adds
      <4>2. (T \ {x}) \ {y} = (T \ {y}) \ {x}
        OBVIOUS
      <4>3. h[T] = f[x] + g[T \ {x}]
        BY <3>3
      <4>4. h[T \ {y}] = f[x] + g[(T \ {y}) \ {x}]
        BY <3>3
      <4>5. f[y] \in Int /\ g[(T \ {y}) \ {x}] \in Int
        BY <2>3 DEF Adds
      <4>6. f[x] + (f[y] + g[(T \ {y}) \ {x}]) = f[y] + (f[x] + g[(T \ {y}) \ {x}])
        BY <4>5, <2>4
      <4> HIDE DEF h
      <4> QED BY <4>1, <4>2, <4>3, <4>4, <4>6, Zenon
    <3> QED BY <3>1, <3>2, <3>3
  <2>8. Adds(h, f, M)
    <3> HIDE DEF h
    <3> QED BY <2>5, <2>6, <2>7 DEF Adds
  <2> QED BY <2>8, <1>3
<1> QED BY <1>4, <1>5

Part(f, T) == SumOver([x \in T |-> f[x]])

(* And any such g gives the sums, which are of one order of the elements.  *)
LEMMA SumAdds ==
  ASSUME NEW S, IsFiniteSet(S), NEW f, \A x \in S : f[x] \in Int,
         NEW g, Adds(g, f, S), NEW T \in SUBSET S
  PROVE  Part(f, T) = g[T]
<1> DEFINE e == [x \in T |-> f[x]]
           First(s) == CHOOSE x \in s : TRUE
           Iter(i) == i = [s \in SUBSET T |-> IF s = {} THEN 0 ELSE e[First(s)] + i[s \ {First(s)}]]
           iter == CHOOSE i : Iter(i)
<1>1. Part(f, T) = iter[T]
  BY DEF Part, SumOver, MapThenSumSet, MapThenFoldSet
<1>2. Iter([s \in SUBSET T |-> g[s]])
  <2> DEFINE k == [s \in SUBSET T |-> g[s]]
  <2>1. ASSUME NEW s \in SUBSET T
        PROVE  k[s] = IF s = {} THEN 0 ELSE e[First(s)] + k[s \ {First(s)}]
    BY DEF Adds
  <2> QED BY <2>1
<1>3. Iter(iter)
  <2> HIDE DEF Iter
  <2> QED BY <1>2
<1>4. ASSUME NEW s \in SUBSET T
      PROVE  iter[s] = IF s = {} THEN 0 ELSE e[First(s)] + iter[s \ {First(s)}]
  <2> HIDE DEF iter
  <2> QED BY <1>3
<1> DEFINE B == {s \in SUBSET T : iter[s] # g[s]}
<1>5. B \subseteq SUBSET S
  OBVIOUS
<1>6. B = {}
  <2>1. SUFFICES ASSUME B # {} PROVE FALSE
    OBVIOUS
  <2>2. PICK M \in B : \A U \in B : ~ (U \subseteq M /\ U # M)
    <3> HIDE DEF B
    <3> QED BY <1>5, <2>1, Minimal
  <2>3. M \in SUBSET T /\ iter[M] # g[M]
    <3> HIDE DEF iter
    <3> QED OBVIOUS
  <2>4. M # {}
    BY <1>4, <2>3 DEF Adds
  <2>5. First(M) \in M
    BY <2>4
  <2>6. M \ {First(M)} \notin B
    <3> HIDE DEF B, First
    <3> QED BY <2>2, <2>5
  <2>7. iter[M \ {First(M)}] = g[M \ {First(M)}]
    <3> HIDE DEF iter, First
    <3> QED BY <2>6, <2>3
  <2>8. iter[M] = e[First(M)] + iter[M \ {First(M)}]
    <3> HIDE DEF iter, First, e
    <3> QED BY <1>4, <2>3, <2>4
  <2>9. g[M] = f[First(M)] + g[M \ {First(M)}]
    <3> HIDE DEF First
    <3> QED BY <2>3, <2>5 DEF Adds
  <2>10. e[First(M)] = f[First(M)]
    <3> HIDE DEF First
    <3> QED BY <2>3, <2>5
  <2> HIDE DEF iter, First, e
  <2> QED BY <2>3, <2>7, <2>8, <2>9, <2>10
<1>7. iter[T] = g[T]
  <2> HIDE DEF iter
  <2> QED BY <1>6
<1> HIDE DEF iter
<1> QED BY <1>1, <1>7

(* The sums add up: the order does not matter.                             *)
LEMMA PartAdds ==
  ASSUME NEW S, IsFiniteSet(S), NEW f, \A x \in S : f[x] \in Int
  PROVE  Adds([T \in SUBSET S |-> Part(f, T)], f, S)
<1>1. PICK g : Adds(g, f, S)
  BY AdderExists
<1>2. [T \in SUBSET S |-> Part(f, T)] = g
  <2>1. \A T \in SUBSET S : Part(f, T) = g[T]
    BY <1>1, SumAdds
  <2> QED BY <1>1, <2>1 DEF Adds
<1> QED BY <1>1, <1>2

(* The sum of nothing.                                                     *)
LEMMA PartEmpty ==
  ASSUME NEW f PROVE Part(f, {}) = 0
<1> DEFINE g == [T \in SUBSET {} |-> 0]
<1>1. Adds(g, f, {})
  BY DEF Adds
<1>2. Part(f, {}) = g[{}]
  <2> HIDE DEF g
  <2> QED BY <1>1, FS_EmptySet, SumAdds
<1> QED BY <1>2

(* A sum of numbers is a number.                                           *)
LEMMA PartInt ==
  ASSUME NEW S, IsFiniteSet(S), NEW f, \A x \in S : f[x] \in Int
  PROVE  Part(f, S) \in Int
<1> DEFINE g == [T \in SUBSET S |-> Part(f, T)]
<1>1. Adds(g, f, S)
  BY PartAdds
<1>2. g[S] = Part(f, S)
  OBVIOUS
<1> HIDE DEF g
<1> QED BY <1>1, <1>2 DEF Adds

(* One element is taken out.                                               *)
LEMMA PartStep ==
  ASSUME NEW S, IsFiniteSet(S), NEW f, \A x \in S : f[x] \in Int, NEW x \in S
  PROVE  Part(f, S) = f[x] + Part(f, S \ {x})
<1> DEFINE g == [T \in SUBSET S |-> Part(f, T)]
<1>1. Adds(g, f, S)
  BY PartAdds
<1>2. g[S] = f[x] + g[S \ {x}]
  <2> HIDE DEF g
  <2> QED BY <1>1 DEF Adds
<1> QED BY <1>2

(* The sum is of the values and of nothing else.                           *)
LEMMA PartSame ==
  ASSUME NEW S, NEW f, NEW e, \A x \in S : f[x] = e[x]
  PROVE  Part(f, S) = Part(e, S)
<1>1. [x \in S |-> f[x]] = [x \in S |-> e[x]]
  OBVIOUS
<1> QED BY <1>1 DEF Part

(* A sum is that of a part and that of the rest.                           *)
LEMMA PartSplit ==
  ASSUME NEW S, IsFiniteSet(S), NEW f, \A x \in S : f[x] \in Int, NEW T
  PROVE  Part(f, S) = Part(f, S \cap T) + Part(f, S \ T)
<1> DEFINE g == [U \in SUBSET S |-> Part(f, U \cap T) + Part(f, U \ T)]
<1>1. \A U \in SUBSET S : IsFiniteSet(U)
  BY FS_Subset
<1>2. \A U \in SUBSET S : Part(f, U) \in Int
  BY <1>1, PartInt
<1>3. g \in [SUBSET S -> Int]
  <2>1. \A U \in SUBSET S : U \cap T \in SUBSET S /\ U \ T \in SUBSET S
    OBVIOUS
  <2> QED BY <2>1, <1>2
<1>4. g[{}] = 0
  <2>1. {} \cap T = {} /\ {} \ T = {}
    OBVIOUS
  <2> QED BY <2>1, PartEmpty
<1>5. ASSUME NEW U \in SUBSET S, NEW x \in U PROVE g[U] = f[x] + g[U \ {x}]
  <2>1. g[U] = Part(f, U \cap T) + Part(f, U \ T)
    OBVIOUS
  <2>2. g[U \ {x}] = Part(f, (U \ {x}) \cap T) + Part(f, (U \ {x}) \ T)
    OBVIOUS
  <2>3. CASE x \in T
    <3>1. Part(f, U \cap T) = f[x] + Part(f, (U \cap T) \ {x})
      BY <2>3, <1>1, PartStep
    <3>2. (U \cap T) \ {x} = (U \ {x}) \cap T /\ (U \ {x}) \ T = U \ T
      BY <2>3
    <3>3. f[x] \in Int /\ Part(f, (U \ {x}) \cap T) \in Int /\ Part(f, U \ T) \in Int
      BY <1>2
    <3>4. g[U] = (f[x] + Part(f, (U \ {x}) \cap T)) + Part(f, U \ T)
      BY <2>1, <3>1, <3>2, Zenon
    <3>5. g[U \ {x}] = Part(f, (U \ {x}) \cap T) + Part(f, U \ T)
      BY <2>2, <3>2, Zenon
    <3> HIDE DEF g
    <3> QED BY <3>3, <3>4, <3>5
  <2>4. CASE x \notin T
    <3>1. Part(f, U \ T) = f[x] + Part(f, (U \ T) \ {x})
      BY <2>4, <1>1, PartStep
    <3>2. (U \ T) \ {x} = (U \ {x}) \ T /\ (U \ {x}) \cap T = U \cap T
      BY <2>4
    <3>3. f[x] \in Int /\ Part(f, (U \ {x}) \ T) \in Int /\ Part(f, U \cap T) \in Int
      BY <1>2
    <3>4. g[U] = Part(f, U \cap T) + (f[x] + Part(f, (U \ {x}) \ T))
      BY <2>1, <3>1, <3>2, Zenon
    <3>5. g[U \ {x}] = Part(f, U \cap T) + Part(f, (U \ {x}) \ T)
      BY <2>2, <3>2, Zenon
    <3> HIDE DEF g
    <3> QED BY <3>3, <3>4, <3>5
  <2> QED BY <2>3, <2>4
<1>6. Part(f, S) = g[S]
  <2> HIDE DEF g
  <2>1. Adds(g, f, S)
    BY <1>3, <1>4, <1>5 DEF Adds
  <2> QED BY <2>1, SumAdds
<1> QED BY <1>6

(* Sums are linear.                                                        *)
LEMMA PartLinear ==
  ASSUME NEW S, IsFiniteSet(S), NEW a \in Int, NEW b \in Int, NEW f, NEW e, NEW h,
         \A x \in S : f[x] \in Int /\ e[x] \in Int /\ h[x] = a * f[x] + b * e[x]
  PROVE  Part(h, S) = a * Part(f, S) + b * Part(e, S)
<1> DEFINE g == [U \in SUBSET S |-> a * Part(f, U) + b * Part(e, U)]
<1>1. \A U \in SUBSET S : IsFiniteSet(U)
  BY FS_Subset
<1>2. \A U \in SUBSET S : Part(f, U) \in Int /\ Part(e, U) \in Int
  BY <1>1, PartInt
<1>3. g \in [SUBSET S -> Int]
  BY <1>2
<1>4. g[{}] = 0
  BY PartEmpty
<1>5. ASSUME NEW U \in SUBSET S, NEW x \in U PROVE g[U] = h[x] + g[U \ {x}]
  <2>1. g[U] = a * Part(f, U) + b * Part(e, U)
    OBVIOUS
  <2>2. g[U \ {x}] = a * Part(f, U \ {x}) + b * Part(e, U \ {x})
    OBVIOUS
  <2>3. Part(f, U) = f[x] + Part(f, U \ {x}) /\ Part(e, U) = e[x] + Part(e, U \ {x})
    BY <1>1, PartStep
  <2>4. f[x] \in Int /\ e[x] \in Int /\ Part(f, U \ {x}) \in Int /\ Part(e, U \ {x}) \in Int
    BY <1>2
  <2>5. /\ a * (f[x] + Part(f, U \ {x})) = a * f[x] + a * Part(f, U \ {x})
        /\ b * (e[x] + Part(e, U \ {x})) = b * e[x] + b * Part(e, U \ {x})
    BY <2>4
  <2>6. h[x] = a * f[x] + b * e[x]
    OBVIOUS
  <2>7. \A k, l, m, n \in Int : (k + l) + (m + n) = (k + m) + (l + n)
    OBVIOUS
  <2>8. a * f[x] \in Int /\ b * e[x] \in Int /\ a * Part(f, U \ {x}) \in Int /\ b * Part(e, U \ {x}) \in Int
    BY <2>4
  <2> HIDE DEF g
  <2> QED BY <2>1, <2>2, <2>3, <2>5, <2>6, <2>7, <2>8
<1>6. \A x \in S : h[x] \in Int
  OBVIOUS
<1>7. Part(h, S) = g[S]
  <2> HIDE DEF g
  <2>1. Adds(g, h, S)
    BY <1>3, <1>4, <1>5 DEF Adds
  <2> QED BY <2>1, <1>6, SumAdds
<1> QED BY <1>7

(* The same, for h that is named and not spelled out.                      *)
Combines(h, a, f, b, e, S) ==
  \A x \in S : f[x] \in Int /\ e[x] \in Int /\ h[x] = a * f[x] + b * e[x]

(* Sums are linear, for a combination that has a name.                     *)
LEMMA PartCombined ==
  ASSUME NEW S, IsFiniteSet(S), NEW a \in Int, NEW b \in Int, NEW f, NEW e, NEW h,
         Combines(h, a, f, b, e, S)
  PROVE  Part(h, S) = a * Part(f, S) + b * Part(e, S)
BY PartLinear DEF Combines

(* A sum of equal values.                                                  *)
LEMMA PartEqual ==
  ASSUME NEW S, IsFiniteSet(S), NEW c \in Int, NEW f, \A x \in S : f[x] = c
  PROVE  Part(f, S) = c * Cardinality(S)
<1> DEFINE g == [U \in SUBSET S |-> c * Cardinality(U)]
<1>1. \A U \in SUBSET S : IsFiniteSet(U) /\ Cardinality(U) \in Nat
  BY FS_Subset, FS_CardinalityType
<1>2. g \in [SUBSET S -> Int]
  BY <1>1
<1>3. g[{}] = 0
  BY FS_EmptySet
<1>4. ASSUME NEW U \in SUBSET S, NEW x \in U PROVE g[U] = f[x] + g[U \ {x}]
  <2>1. Cardinality(U \ {x}) = Cardinality(U) - 1
    BY <1>1, FS_RemoveElement
  <2>2. g[U] = c * Cardinality(U) /\ g[U \ {x}] = c * (Cardinality(U) - 1)
    BY <2>1
  <2>3. c * (Cardinality(U) - 1) = c * Cardinality(U) - c
    BY <1>1
  <2>4. c * Cardinality(U) \in Int
    BY <1>1
  <2> HIDE DEF g
  <2> QED BY <2>2, <2>3, <2>4
<1>5. Part(f, S) = g[S]
  <2> HIDE DEF g
  <2>1. Adds(g, f, S)
    BY <1>2, <1>3, <1>4 DEF Adds
  <2> QED BY <2>1, SumAdds
<1> QED BY <1>5

(* A sum of natural numbers is one.                                        *)
LEMMA PartNat ==
  ASSUME NEW S, IsFiniteSet(S), NEW f, \A x \in S : f[x] \in Nat
  PROVE  Part(f, S) \in Nat
<1> DEFINE B == {T \in SUBSET S : Part(f, T) \notin Nat}
<1>1. SUFFICES ASSUME B # {} PROVE FALSE
  <2> HIDE DEF B
  <2>1. S \notin B
    BY <1>1
  <2> QED BY <2>1 DEF B
<1>2. B \subseteq SUBSET S
  OBVIOUS
<1>3. PICK M \in B : \A T \in B : ~ (T \subseteq M /\ T # M)
  <2> HIDE DEF B
  <2> QED BY <1>1, <1>2, Minimal
<1>4. M # {}
  <2>1. Part(f, M) \notin Nat
    OBVIOUS
  <2> QED BY <2>1, PartEmpty
<1>5. PICK x \in M : TRUE
  BY <1>4
<1>6. M \ {x} \notin B
  <2> HIDE DEF B
  <2> QED BY <1>3, <1>5
<1>7. Part(f, M) = f[x] + Part(f, M \ {x})
  <2>1. IsFiniteSet(M) /\ \A y \in M : f[y] \in Int
    BY FS_Subset
  <2> QED BY <2>1, <1>5, PartStep
<1> QED BY <1>6, <1>7, <1>3

(* Larger values have a larger sum.                                        *)
LEMMA PartMono ==
  ASSUME NEW S, IsFiniteSet(S), NEW f, NEW e,
         \A x \in S : f[x] \in Int /\ e[x] \in Int /\ f[x] <= e[x]
  PROVE  Part(f, S) <= Part(e, S)
<1> DEFINE h == [x \in S |-> 1 * e[x] + (-1) * f[x]]
<1>1. Part(h, S) = 1 * Part(e, S) + (-1) * Part(f, S)
  BY PartLinear
<1>2. Part(h, S) \in Nat
  <2>1. \A x \in S : h[x] \in Nat
    OBVIOUS
  <2> HIDE DEF h
  <2> QED BY <2>1, PartNat
<1>3. Part(e, S) \in Int /\ Part(f, S) \in Int
  BY PartInt
<1> HIDE DEF h
<1> QED BY <1>1, <1>2, <1>3

(* The sum over the groups of what is in each group is the sum of all.     *)
LEMMA PartGroups ==
  ASSUME NEW S, IsFiniteSet(S), NEW f, \A x \in S : f[x] \in Int,
         NEW N, IsFiniteSet(N), NEW group, \A x \in S : group[x] \in N
  PROVE  Part([n \in N |-> Part(f, {x \in S : group[x] = n})], N) = Part(f, S)
<1> DEFINE In(U, n) == {x \in U : group[x] = n}
           by(U) == [n \in N |-> Part(f, In(U, n))]
           g == [U \in SUBSET S |-> Part(by(U), N)]
<1>1. \A U \in SUBSET S : IsFiniteSet(U) /\ Part(f, U) \in Int
  <2>1. \A U \in SUBSET S : IsFiniteSet(U)
    BY FS_Subset
  <2> QED BY <2>1, PartInt
<1>2. \A U \in SUBSET S : \A n \in N : In(U, n) \in SUBSET S /\ by(U)[n] \in Int /\ by(U)[n] = Part(f, In(U, n))
  BY <1>1
<1>3. g \in [SUBSET S -> Int]
  <2>1. ASSUME NEW U \in SUBSET S PROVE Part(by(U), N) \in Int
    <3>1. \A n \in N : by(U)[n] \in Int
      BY <1>2
    <3> HIDE DEF by
    <3> QED BY <3>1, PartInt
  <2> HIDE DEF by
  <2> QED BY <2>1
<1>4. g[{}] = 0
  <2>1. \A n \in N : by({})[n] = 0
    <3>1. \A n \in N : In({}, n) = {}
      OBVIOUS
    <3> HIDE DEF In
    <3> QED BY <3>1, PartEmpty
  <2>2. Part(by({}), N) = 0 * Cardinality(N)
    <3> HIDE DEF by
    <3> QED BY <2>1, PartEqual
  <2>3. Cardinality(N) \in Nat
    BY FS_CardinalityType
  <2> HIDE DEF by
  <2> QED BY <2>2, <2>3
<1>5. ASSUME NEW U \in SUBSET S, NEW x \in U PROVE g[U] = f[x] + g[U \ {x}]
  <2> DEFINE m == group[x]
             V == U \ {x}
  <2>1. m \in N
    OBVIOUS
  <2>2. In(U, m) \ {x} = In(V, m) /\ \A n \in N \ {m} : In(U, n) = In(V, n)
    OBVIOUS
  <2>3. by(U)[m] = f[x] + by(V)[m]
    <3>1. IsFiniteSet(In(U, m)) /\ x \in In(U, m) /\ \A y \in In(U, m) : f[y] \in Int
      BY <1>1
    <3>2. Part(f, In(U, m)) = f[x] + Part(f, In(U, m) \ {x})
      <4> HIDE DEF In, m
      <4> QED BY <3>1, PartStep
    <3>3. by(U)[m] = Part(f, In(U, m)) /\ by(V)[m] = Part(f, In(V, m))
      BY <2>1
    <3> HIDE DEF In, m, by, V
    <3> QED BY <3>2, <3>3, <2>2
  <2>4. Part(by(U), N) = by(U)[m] + Part(by(U), N \ {m})
    <3>1. \A n \in N : by(U)[n] \in Int
      BY <1>2
    <3> HIDE DEF by, m
    <3> QED BY <3>1, <2>1, PartStep
  <2>5. Part(by(V), N) = by(V)[m] + Part(by(V), N \ {m})
    <3>1. \A n \in N : by(V)[n] \in Int
      <4>1. V \in SUBSET S
        OBVIOUS
      <4> HIDE DEF V, by
      <4> QED BY <1>2, <4>1
    <3> HIDE DEF by, m, V
    <3> QED BY <3>1, <2>1, PartStep
  <2>6. Part(by(U), N \ {m}) = Part(by(V), N \ {m})
    <3>1. \A n \in N \ {m} : by(U)[n] = by(V)[n]
      BY <2>2
    <3> HIDE DEF by, m, V
    <3> QED BY <3>1, PartSame
  <2>7. f[x] \in Int /\ by(V)[m] \in Int /\ Part(by(V), N \ {m}) \in Int
    <3>1. V \in SUBSET S /\ f[x] \in Int
      OBVIOUS
    <3>2. \A n \in N : by(V)[n] \in Int
      <4> HIDE DEF V, by
      <4> QED BY <1>2, <3>1
    <3>3. IsFiniteSet(N \ {m})
      BY FS_Subset
    <3> HIDE DEF V, by, m
    <3> QED BY <3>1, <3>2, <3>3, <2>1, PartInt
  <2>8. g[U] = Part(by(U), N) /\ g[V] = Part(by(V), N)
    <3>1. V \in SUBSET S
      OBVIOUS
    <3> HIDE DEF by, V
    <3> QED BY <3>1
  <2> HIDE DEF by, g, m
  <2> QED BY <2>3, <2>4, <2>5, <2>6, <2>7, <2>8
<1>6. Part(f, S) = g[S]
  <2> HIDE DEF g
  <2>1. Adds(g, f, S)
    BY <1>3, <1>4, <1>5 DEF Adds
  <2> QED BY <2>1, SumAdds
<1> QED BY <1>6

(* A set of natural numbers has a least one.                               *)
LEMMA LeastNumber ==
  ASSUME NEW B, B \subseteq Nat, B # {}
  PROVE  \E m \in B : \A k \in B : m <= k
<1> DEFINE R == OpToRel(<, Nat)
<1>1. \E m \in B : \A k \in B : ~ (<<k, m>> \in R)
  <2> HIDE DEF R
  <2>1. IsWellFoundedOn(R, Nat)
    BY NatLessThanWellFounded DEF R
  <2> QED BY <2>1, WFMin
<1>2. \A k, m \in Nat : k < m => <<k, m>> \in R
  BY DEF OpToRel
<1>3. PICK m \in B : \A k \in B : ~ (<<k, m>> \in R)
  BY <1>1
<1>4. ASSUME NEW k \in B PROVE m <= k
  <2>1. k \in Nat /\ m \in Nat /\ ~ (k < m)
    <3> HIDE DEF R
    <3> QED BY <1>2, <1>3
  <2> QED BY <2>1
<1> QED BY <1>4

(* g goes by steps from one number to the next, and stays in S.            *)
Iterates(g, n, S, base, step) ==
  /\ g \in [0..n -> S] /\ g[0] = base
  /\ \A i \in 1..n : g[i] = step[<<i, g[i - 1]>>]

(* A function that is given by its first value and by what follows on each *)
(* value is there.                                                         *)
LEMMA Recursion ==
  ASSUME NEW n \in Nat, NEW S, NEW base \in S, NEW step,
         \A i \in 1..n : \A s \in S : step[<<i, s>>] \in S
  PROVE  \E g : Iterates(g, n, S, base, step)
<1> DEFINE Good(m) == \E g : Iterates(g, m, S, base, step)
           B == {m \in 0..n : ~ Good(m)}
<1>1. SUFFICES ASSUME B # {} PROVE FALSE
  <2>1. n \notin B => Good(n)
    OBVIOUS
  <2> QED BY <1>1, <2>1
<1>2. PICK m \in B : \A k \in B : m <= k
  <2>1. B \subseteq Nat
    OBVIOUS
  <2> HIDE DEF B
  <2> QED BY <1>1, <2>1, LeastNumber
<1>3. CASE m = 0
  <2> DEFINE g == [i \in 0..0 |-> base]
  <2>1. g \in [0..0 -> S] /\ g[0] = base
    OBVIOUS
  <2>2. Good(0)
    <3> HIDE DEF g
    <3>1. 1..0 = {}
      OBVIOUS
    <3>2. Iterates(g, 0, S, base, step)
      BY <2>1, <3>1 DEF Iterates
    <3> QED BY <3>2
  <2> HIDE DEF Good
  <2> QED BY <2>2, <1>2, <1>3
<1>4. CASE m # 0
  <2>1. m \in 1..n /\ m - 1 \in 0..n /\ m - 1 \notin B
    <3>1. m \in 0..n
      OBVIOUS
    <3> HIDE DEF B
    <3> QED BY <1>2, <1>4, <3>1
  <2>2. PICK g \in [0..(m - 1) -> S] :
          g[0] = base /\ \A i \in 1..(m - 1) : g[i] = step[<<i, g[i - 1]>>]
    BY <2>1 DEF Iterates
  <2> DEFINE h == [i \in 0..m |-> IF i < m THEN g[i] ELSE step[<<m, g[m - 1]>>]]
  <2>3. step[<<m, g[m - 1]>>] \in S
    BY <2>1, <2>2
  <2>4. h \in [0..m -> S]
    BY <2>1, <2>2, <2>3
  <2>5. h[0] = base
    BY <2>1, <2>2
  <2>6. ASSUME NEW i \in 1..m PROVE h[i] = step[<<i, h[i - 1]>>]
    <3>1. h[i - 1] = g[i - 1]
      BY <2>1
    <3>2. CASE i < m
      BY <3>1, <3>2, <2>1, <2>2
    <3>3. CASE i = m
      <4>1. h[m] = step[<<m, g[m - 1]>>]
        BY <2>1
      <4> HIDE DEF h
      <4> QED BY <3>1, <3>3, <4>1
    <3> QED BY <3>2, <3>3, <2>1
  <2>7. Good(m)
    <3> HIDE DEF h
    <3> QED BY <2>4, <2>5, <2>6 DEF Iterates
  <2> HIDE DEF Good
  <2> QED BY <2>7, <1>2
<1> QED BY <1>3, <1>4

(* What holds at 0 and from one number to the next holds up to n.          *)
LEMMA UpTo ==
  ASSUME NEW n \in Nat, NEW B, B \subseteq 0..n, 0 \notin B,
         \A i \in 1..n : i - 1 \notin B => i \notin B
  PROVE  B = {}
<1>1. SUFFICES ASSUME B # {} PROVE FALSE
  OBVIOUS
<1>2. PICK m \in B : \A k \in B : m <= k
  <2>1. B \subseteq Nat
    OBVIOUS
  <2> QED BY <1>1, <2>1, LeastNumber
<1>3. m \in 1..n /\ m - 1 \in Nat
  OBVIOUS
<1> QED BY <1>2, <1>3

(* Some element is not above the mean.                                     *)
LEMMA PartLeast ==
  ASSUME NEW S, IsFiniteSet(S), S # {}, NEW f, \A x \in S : f[x] \in Int
  PROVE  \E x \in S : f[x] * Cardinality(S) <= Part(f, S)
<1> DEFINE n == Cardinality(S)
           P == Part(f, S)
           one == [x \in S |-> 1]
           h == [x \in S |-> n * f[x] + (-P) * one[x]]
<1>1. SUFFICES ASSUME \A x \in S : f[x] * n > P PROVE FALSE
  <2>1. P \in Int
    BY PartInt
  <2>2. n \in Nat
    BY FS_CardinalityType
  <2>3. SUFFICES ASSUME ~ \E x \in S : f[x] * n <= P PROVE FALSE
    OBVIOUS
  <2>4. \A x \in S : f[x] * n > P
    <3>1. \A k \in Int : ~ (k <= P) => k > P
      <4> HIDE DEF P
      <4> QED BY <2>1
    <3>2. \A x \in S : f[x] * n \in Int
      <4> HIDE DEF n
      <4> QED BY <2>2
    <3> HIDE DEF n, P
    <3> QED BY <2>3, <3>1, <3>2
  <2> QED BY <1>1, <2>4
<1>2. n \in Nat \ {0} /\ P \in Int
  BY PartInt, FS_CardinalityType, FS_EmptySet
<1>3. Part(one, S) = 1 * n
  <2>1. \A x \in S : one[x] = 1
    OBVIOUS
  <2> HIDE DEF one, n
  <2> QED BY <2>1, PartEqual DEF n
<1>4. Part(h, S) = n * P + (-P) * Part(one, S)
  <2>1. \A x \in S : f[x] \in Int /\ one[x] \in Int /\ h[x] = n * f[x] + (-P) * one[x]
    OBVIOUS
  <2>2. n \in Int /\ -P \in Int
    BY <1>2
  <2> HIDE DEF n, one, h
  <2> QED BY <2>1, <2>2, PartLinear
<1>5. Part(h, S) >= Part(one, S)
  <2>1. ASSUME NEW x \in S PROVE one[x] \in Int /\ h[x] \in Int /\ one[x] <= h[x]
    <3>1. h[x] = n * f[x] + (-P) * 1 /\ one[x] = 1
      OBVIOUS
    <3>2. f[x] \in Int /\ f[x] * n > P
      BY <1>1
    <3> HIDE DEF h, n, P, one
    <3> QED BY <3>1, <3>2, <1>2
  <2> HIDE DEF h, one
  <2> QED BY <2>1, PartMono
<1>6. n * P + (-P) * (1 * n) = 0
  <2> HIDE DEF n, P
  <2> QED BY <1>2
<1> HIDE DEF n, P, one, h
<1> QED BY <1>2, <1>3, <1>4, <1>5, <1>6

(* The images of finitely many elements are finitely many.                 *)
LEMMA ImageFinite ==
  ASSUME NEW S, IsFiniteSet(S), NEW m
  PROVE  IsFiniteSet({m[x] : x \in S})
<1> DEFINE T == {m[x] : x \in S}
           i == [x \in S |-> m[x]]
<1>1. i \in Surjection(S, T)
  BY DEF Surjection
<1> HIDE DEF i, T
<1>2. IsFiniteSet(T)
  BY <1>1, FS_Surjection
<1> QED BY <1>2 DEF T

(* Renaming the elements one by one leaves the sum.                        *)
LEMMA PartRenamed ==
  ASSUME NEW S, IsFiniteSet(S), NEW f, \A x \in S : f[x] \in Int,
         NEW m, \A x, y \in S : m[x] = m[y] => x = y,
         NEW e, \A x \in S : e[m[x]] = f[x]
  PROVE  Part(e, {m[x] : x \in S}) = Part(f, S)
<1> DEFINE Image(U) == {m[x] : x \in U}
           g == [U \in SUBSET S |-> Part(e, Image(U))]
<1>1. ASSUME NEW U \in SUBSET S
      PROVE  IsFiniteSet(Image(U)) /\ \A y \in Image(U) : e[y] \in Int
  <2>1. IsFiniteSet(U)
    BY FS_Subset
  <2>2. IsFiniteSet(Image(U))
    BY <2>1, ImageFinite
  <2> QED BY <2>2
<1>2. g \in [SUBSET S -> Int]
  <2>1. \A U \in SUBSET S : Part(e, Image(U)) \in Int
    <3> HIDE DEF Image
    <3> QED BY <1>1, PartInt
  <2> HIDE DEF Image
  <2> QED BY <2>1
<1>3. g[{}] = 0
  <2>1. Image({}) = {}
    OBVIOUS
  <2> QED BY <2>1, PartEmpty
<1>4. ASSUME NEW U \in SUBSET S, NEW x \in U PROVE g[U] = f[x] + g[U \ {x}]
  <2>1. m[x] \in Image(U) /\ Image(U) \ {m[x]} = Image(U \ {x}) /\ e[m[x]] = f[x]
    OBVIOUS
  <2>2. Part(e, Image(U)) = e[m[x]] + Part(e, Image(U) \ {m[x]})
    <3> HIDE DEF Image
    <3> QED BY <2>1, <1>1, PartStep
  <2>3. g[U] = Part(e, Image(U)) /\ g[U \ {x}] = Part(e, Image(U \ {x}))
    OBVIOUS
  <2> HIDE DEF g, Image
  <2> QED BY <2>1, <2>2, <2>3
<1>5. Part(f, S) = g[S]
  <2> HIDE DEF g
  <2>1. Adds(g, f, S)
    BY <1>2, <1>3, <1>4 DEF Adds
  <2> QED BY <2>1, SumAdds
<1> QED BY <1>5
=============================================================================
