----------------------------- MODULE Ledger_proofs -----------------------------
(***************************************************************************)
(* Proofs about lot selection and the average price, for any lots, fills,  *)
(* times and prices.                                                       *)
(*                                                                         *)
(* What a sum over a set, the queue of a stock and Select's loop compute   *)
(* is shown by induction: the set of the numbers for which a claim holds   *)
(* has 0 and the successor of each of its members.  The loop's invariant   *)
(* gives the closures of the queue's first lots exactly: each lot's share  *)
(* of the sell.                                                            *)
(*                                                                         *)
(* FifoInventory: the lots are numbered as they were recorded, so each     *)
(* closure finds its lot, and the queue is the one SelectIsFifo describes. *)
(* The average, rounded at every fill, stays between prices by the laws of *)
(* products; its error grows by half a unit at most.                       *)
(***************************************************************************)
EXTENDS FifoInventory, FiniteSetTheorems, SequenceTheorems, TLAPS

(* Induction.  The sets of numbers for which a claim holds take the place of   *)
(* the claim.                                                                  *)

\* A set with 0 that is closed under successor has every natural number.
LEMMA SetInduction ==
  ASSUME NEW P, 0 \in P, \A n \in Nat : n \in P => n + 1 \in P
  PROVE  \A n \in Nat : n \in P
<1> SUFFICES ASSUME NEW n \in Nat, n \notin P PROVE FALSE
  OBVIOUS
<1> DEFINE S == {m \in Nat : m \notin P}
<1>1. S \subseteq Nat /\ S # {}
  OBVIOUS
<1>2. PICK m \in S : \A s \in S : ~(<<s, m>> \in OpToRel(<, Nat))
  <2> HIDE DEF S
  <2> QED BY <1>1, NatLessThanWellFounded, WFMin
<1>3. \A s \in S : ~(s < m)
  BY <1>1, <1>2 DEF OpToRel
<1>4. m \in Nat /\ m # 0 /\ m \notin P
  BY <1>2
<1>5. m - 1 \in Nat /\ m - 1 < m /\ (m - 1) + 1 = m
  BY <1>4
<1>6. m - 1 \in P
  BY <1>3, <1>5
<1> QED BY <1>4, <1>5, <1>6

--------------------------------------------------------------------------------
(* Sums of quantities. *)

Total(S) == MapThenSumSet(LAMBDA r : r.qty, S)

Quantified(S) == IsFiniteSet(S) /\ \A r \in S : r.qty \in Nat

\* The element MapThenSumSet takes next, and what g says of s by its rule.
Pick(s) == CHOOSE x \in s : TRUE
Rule(g, s) == IF s = {} THEN 0 ELSE Pick(s).qty + g[s \ {Pick(s)}]

Sums(g, D) == g = [s \in D |-> Rule(g, s)]

Small(T, n) == {s \in SUBSET T : Cardinality(s) <= n}

\* Total is the value at S of the function the rule defines.
LEMMA TotalIs ==
  ASSUME NEW S
  PROVE  Total(S) = (CHOOSE g : Sums(g, SUBSET S))[S]
BY DEF Total, MapThenSumSet, MapThenFoldSet, Sums, Rule, Pick

\* Taking an element from a finite set makes it smaller by one.
LEMMA TakeOne ==
  ASSUME NEW T, IsFiniteSet(T), NEW s \in SUBSET T, NEW y \in s
  PROVE  /\ IsFiniteSet(s) /\ Cardinality(s) \in Nat
         /\ s \ {y} \in SUBSET T
         /\ Cardinality(s \ {y}) = Cardinality(s) - 1
         /\ Cardinality(s \ {y}) \in Nat
<1>1. IsFiniteSet(s)
  BY FS_Subset
<1> QED BY <1>1, FS_RemoveElement, FS_CardinalityType

\* The element taken next belongs to the set.
LEMMA PickIn == \A s : s # {} => Pick(s) \in s
BY DEF Pick

\* The rule defines a function on the subsets of a finite set: on those of n
\* elements from the ones with fewer.
LEMMA SumsExist ==
  ASSUME NEW T, IsFiniteSet(T)
  PROVE  \E g : Sums(g, SUBSET T)
<1> DEFINE P == {n \in Nat : \E g : Sums(g, Small(T, n))}
<1>1. 0 \in P
  <2> DEFINE g == [s \in Small(T, 0) |-> 0]
  <2>1. \A s \in Small(T, 0) : s = {}
    BY FS_Subset, FS_EmptySet, FS_CardinalityType DEF Small
  <2>2. Sums(g, Small(T, 0))
    BY <2>1 DEF Sums, Rule
  <2> QED BY <2>2
<1>2. ASSUME NEW n \in Nat, n \in P PROVE n + 1 \in P
  <2>1. PICK g : Sums(g, Small(T, n))
    BY <1>2
  <2> DEFINE h == [s \in Small(T, n + 1) |-> Rule(g, s)]
  <2>2. ASSUME NEW s \in Small(T, n + 1), s # {}
        PROVE  s \ {Pick(s)} \in Small(T, n)
    <3>1. s \in SUBSET T /\ Cardinality(s) <= n + 1 /\ Pick(s) \in s
      BY <2>2, PickIn DEF Small
    <3> QED BY <3>1, TakeOne DEF Small
  <2>3. \A s \in Small(T, n) : s \in Small(T, n + 1)
    BY FS_Subset, FS_CardinalityType DEF Small
  <2>4. \A s \in Small(T, n) : h[s] = g[s]
    BY <2>1, <2>3 DEF Sums
  <2>5. \A s \in Small(T, n + 1) : Rule(h, s) = Rule(g, s)
    <3> HIDE DEF h
    <3> QED BY <2>2, <2>4 DEF Rule
  <2>6. Sums(h, Small(T, n + 1))
    BY <2>5 DEF Sums
  <2> QED BY <2>6
<1>3. Cardinality(T) \in P
  <2> HIDE DEF P
  <2> QED BY <1>1, <1>2, SetInduction, FS_CardinalityType
<1>4. Small(T, Cardinality(T)) = SUBSET T
  BY FS_Subset DEF Small
<1> QED BY <1>3, <1>4

\* g adds up s whichever element is taken first.
AddsUp(g, s) == g[s] \in Nat /\ \A y \in s : g[s] = y.qty + g[s \ {y}]

\* It does not matter which element is taken first.
LEMMA AnyFirst ==
  ASSUME NEW T, Quantified(T), NEW g, Sums(g, SUBSET T)
  PROVE  \A s \in SUBSET T : AddsUp(g, s)
<1> DEFINE P == {n \in Nat : \A s \in SUBSET T :
                               Cardinality(s) <= n => AddsUp(g, s)}
<1>0. IsFiniteSet(T) /\ \A r \in T : r.qty \in Nat
  BY DEF Quantified
<1>s. \A s \in SUBSET T : IsFiniteSet(s) /\ Cardinality(s) \in Nat
  BY <1>0, FS_Subset, FS_CardinalityType
<1>r. \A s \in SUBSET T : g[s] = Rule(g, s)
  BY DEF Sums
<1>1. 0 \in P
  <2> SUFFICES ASSUME NEW s \in SUBSET T, Cardinality(s) <= 0 PROVE AddsUp(g, s)
    OBVIOUS
  <2>1. s = {}
    BY <1>s, FS_EmptySet
  <2>2. g[s] = 0
    BY <1>r, <2>1 DEF Rule
  <2> QED BY <2>1, <2>2 DEF AddsUp
<1>2. ASSUME NEW n \in Nat, n \in P PROVE n + 1 \in P
  <2>0. \A s \in SUBSET T : Cardinality(s) <= n => AddsUp(g, s)
    BY <1>2
  <2>a. ASSUME NEW s \in SUBSET T, Cardinality(s) = n + 1 PROVE AddsUp(g, s)
    <3> DEFINE x == Pick(s)
    <3>1. s # {}
      BY <2>a, FS_EmptySet
    <3>2. x \in s /\ x \in T /\ x.qty \in Nat
      BY <1>0, <3>1, PickIn
    <3>3. ASSUME NEW y \in s
          PROVE  /\ s \ {y} \in SUBSET T /\ Cardinality(s \ {y}) <= n
                 /\ y.qty \in Nat
      BY <1>0, <2>a, TakeOne
    <3>4. ASSUME NEW y \in s PROVE AddsUp(g, s \ {y})
      BY <2>0, <3>3
    <3>5. g[s] = x.qty + g[s \ {x}]
      BY <1>r, <3>1 DEF Rule
    <3> HIDE DEF x
    <3>6. g[s] \in Nat
      BY <3>2, <3>4, <3>5 DEF AddsUp
    <3>7. ASSUME NEW y \in s PROVE g[s] = y.qty + g[s \ {y}]
      <4>1. CASE y = x
        BY <3>5, <4>1
      <4>2. CASE y # x
        <5>1. y \in s \ {x} /\ x \in s \ {y} /\ y.qty \in Nat
          BY <3>2, <3>3, <4>2
        <5>2. g[s \ {x}] = y.qty + g[(s \ {x}) \ {y}]
          BY <3>2, <3>4, <5>1 DEF AddsUp
        <5>3. g[s \ {y}] = x.qty + g[(s \ {y}) \ {x}]
          BY <3>4, <5>1 DEF AddsUp
        <5>4. (s \ {x}) \ {y} = (s \ {y}) \ {x}
          OBVIOUS
        <5>5. s \ {x} \in SUBSET T /\ Cardinality(s \ {x}) <= n
          BY <3>2, <3>3
        <5>6. /\ (s \ {x}) \ {y} \in SUBSET T
              /\ Cardinality((s \ {x}) \ {y}) = Cardinality(s \ {x}) - 1
              /\ Cardinality(s \ {x}) \in Nat
          BY ONLY <1>0, <5>1, <5>5, TakeOne
        <5>7. Cardinality((s \ {x}) \ {y}) <= n
          BY <5>5, <5>6
        <5>8. g[(s \ {x}) \ {y}] \in Nat
          BY <2>0, <5>6, <5>7 DEF AddsUp
        <5>9. \A a, b, c \in Nat : a + (b + c) = b + (a + c)
          OBVIOUS
        <5>10. x.qty + (y.qty + g[(s \ {x}) \ {y}])
                 = y.qty + (x.qty + g[(s \ {x}) \ {y}])
          BY <3>2, <5>1, <5>8, <5>9
        <5> QED BY <3>5, <5>2, <5>3, <5>4, <5>10
      <4> QED BY <4>1, <4>2
    <3> QED BY <3>6, <3>7 DEF AddsUp
  <2>b. \A s \in SUBSET T : Cardinality(s) <= n + 1 =>
                              Cardinality(s) <= n \/ Cardinality(s) = n + 1
    BY <1>s
  <2> QED BY <2>0, <2>a, <2>b
<1>3. \A n \in Nat : n \in P
  <2> HIDE DEF P
  <2> QED BY <1>1, <1>2, SetInduction
<1>4. ASSUME NEW s \in SUBSET T PROVE AddsUp(g, s)
  <2>1. Cardinality(s) \in Nat /\ Cardinality(s) <= Cardinality(s)
    BY <1>s
  <2> QED BY <1>3, <2>1
<1> QED BY <1>4

\* Summing a part of a larger set gives what summing the part alone gives.
LEMMA SameSums ==
  ASSUME NEW S, Quantified(S), NEW x, NEW g, Sums(g, SUBSET S),
         NEW h, Sums(h, SUBSET (S \cup {x}))
  PROVE  g[S] = h[S]
<1> DEFINE P == {n \in Nat : \A s \in SUBSET S : Cardinality(s) = n => g[s] = h[s]}
<1>0. IsFiniteSet(S)
  BY DEF Quantified
<1>s. \A s \in SUBSET S : IsFiniteSet(s) /\ Cardinality(s) \in Nat
  BY <1>0, FS_Subset, FS_CardinalityType
<1>r. \A s \in SUBSET S : g[s] = Rule(g, s) /\ h[s] = Rule(h, s)
  BY DEF Sums
<1>1. 0 \in P
  <2> SUFFICES ASSUME NEW s \in SUBSET S, Cardinality(s) = 0 PROVE g[s] = h[s]
    OBVIOUS
  <2>1. s = {}
    BY <1>s, FS_EmptySet
  <2> QED BY <1>r, <2>1 DEF Rule
<1>2. ASSUME NEW n \in Nat, n \in P PROVE n + 1 \in P
  <2> SUFFICES ASSUME NEW s \in SUBSET S, Cardinality(s) = n + 1 PROVE g[s] = h[s]
    OBVIOUS
  <2>0. Cardinality(s) # 0 /\ Cardinality({}) = 0
    BY FS_EmptySet
  <2>1. s # {} /\ Pick(s) \in s
    BY ONLY <2>0, PickIn
  <2>2. s \ {Pick(s)} \in SUBSET S /\ Cardinality(s \ {Pick(s)}) = n
    BY <1>0, <2>1, TakeOne
  <2>3. g[s \ {Pick(s)}] = h[s \ {Pick(s)}]
    BY <1>2, <2>2
  <2> QED BY <1>r, <2>1, <2>3 DEF Rule
<1>3. \A n \in Nat : n \in P
  <2> HIDE DEF P
  <2> QED BY <1>1, <1>2, SetInduction
<1> QED BY <1>3, <1>s

\* The total of no rows is 0, and one more row adds its quantity.
LEMMA TotalAdd ==
  ASSUME NEW S, Quantified(S), NEW x, x \notin S, x.qty \in Nat
  PROVE  /\ Total(S) \in Nat /\ Total(S \cup {x}) = Total(S) + x.qty
         /\ Quantified(S \cup {x})
<1> DEFINE T == S \cup {x}
           g == CHOOSE f : Sums(f, SUBSET S)
           h == CHOOSE f : Sums(f, SUBSET T)
<1>1. Quantified(T)
  BY FS_AddElement DEF Quantified
<1>2. Sums(g, SUBSET S) /\ Sums(h, SUBSET T)
  BY <1>1, SumsExist DEF Quantified
<1>3. Total(S) = g[S] /\ Total(T) = h[T]
  BY TotalIs
<1> HIDE DEF g, h
<1>4. g[S] \in Nat
  BY <1>2, AnyFirst DEF AddsUp
<1>5. T \in SUBSET T /\ x \in T /\ T \ {x} = S
  OBVIOUS
<1>6. h[T] = x.qty + h[S]
  <2> HIDE DEF T
  <2> QED BY <1>1, <1>2, <1>5, AnyFirst DEF AddsUp
<1>7. g[S] = h[S]
  BY <1>2, SameSums
<1> QED BY <1>1, <1>3, <1>4, <1>6, <1>7

\* The total of no rows is 0.
LEMMA TotalEmpty == Total({}) = 0 /\ Quantified({})
<1> DEFINE g == CHOOSE f : Sums(f, SUBSET {})
<1>1. Sums(g, SUBSET {})
  BY SumsExist, FS_EmptySet
<1>2. Total({}) = g[{}]
  BY TotalIs
<1> HIDE DEF g
<1>3. g[{}] = 0
  BY <1>1 DEF Sums, Rule
<1> QED BY <1>2, <1>3, FS_EmptySet DEF Quantified

\* The total of one row is its quantity.
LEMMA TotalOne ==
  ASSUME NEW x, x.qty \in Nat
  PROVE  Total({x}) = x.qty /\ Quantified({x})
<1>1. /\ Quantified({}) /\ Total({}) = 0 /\ x \notin {} /\ {} \cup {x} = {x}
  BY TotalEmpty
<1>2. /\ Total({} \cup {x}) = Total({}) + x.qty
      /\ Quantified({} \cup {x})
  BY ONLY <1>1, x.qty \in Nat, TotalAdd
<1> QED BY <1>1, <1>2

--------------------------------------------------------------------------------
(* Products and rounded quotients. *)

\* Products of quantities: the laws the averages need.
LEMMA Products ==
  ASSUME NEW a \in Nat, NEW b \in Nat, NEW c \in Nat
  PROVE  /\ a * b \in Nat /\ a * b = b * a
         /\ (a * b) * c = a * (b * c)
         /\ a * (b + c) = a * b + a * c
         /\ a <= b => a * c <= b * c
         /\ a > 0 /\ b > 0 => a * b > 0
<1>1. a * b \in Nat
  OBVIOUS
<1>2. a * b = b * a
  OBVIOUS
<1>3. (a * b) * c = a * (b * c)
  OBVIOUS
<1>4. a * (b + c) = a * b + a * c
  OBVIOUS
<1>5. a <= b => a * c <= b * c
  OBVIOUS
<1>6. a > 0 /\ b > 0 => a * b > 0
  OBVIOUS
<1> QED BY <1>1, <1>2, <1>3, <1>4, <1>5, <1>6

\* What division leaves over is less than the divisor.
LEMMA Quotient ==
  ASSUME NEW n \in Nat, NEW c \in Nat, c > 0
  PROVE  n \div c \in Nat /\ c * (n \div c) <= n /\ n < c * (n \div c) + c
OBVIOUS

\* A rounded quotient is at most half a unit away.
LEMMA RoundedIs ==
  ASSUME NEW n \in Nat, NEW c \in Nat, c > 0
  PROVE  /\ Rounded(n, c) \in Nat /\ Rounded(n, c) * c \in Nat
         /\ 2 * (Rounded(n, c) * c) - 2 * n <= c
         /\ 2 * n - 2 * (Rounded(n, c) * c) <= c
<1> DEFINE q == Rounded(n, c)
           m == 2 * n + c
           e == 2 * c
<1>1. m \in Nat /\ e \in Nat /\ e > 0 /\ q = m \div e
  BY DEF Rounded
<1> HIDE DEF m, e, q
<1>2. q \in Nat /\ e * q <= m /\ m < e * q + e
  BY <1>1, Quotient
<1>3. e * q = 2 * (q * c)
  BY <1>2 DEF e
<1>4. q * c \in Nat
  BY <1>2, Products
<1>5. 2 * (q * c) - 2 * n <= c /\ 2 * n - 2 * (q * c) <= c
  BY <1>2, <1>3, <1>4 DEF m, e
<1> QED BY <1>2, <1>4, <1>5 DEF q

\* Rounding never crosses a whole number.
LEMMA RoundedWithin ==
  ASSUME NEW n \in Nat, NEW c \in Nat, c > 0, NEW m \in Nat
  PROVE  /\ m * c <= n => m <= Rounded(n, c)
         /\ n <= m * c => Rounded(n, c) <= m
<1> DEFINE q == Rounded(n, c)
<1>1. /\ q \in Nat /\ q * c \in Nat /\ m * c \in Nat
      /\ 2 * (q * c) - 2 * n <= c /\ 2 * n - 2 * (q * c) <= c
  BY RoundedIs, Products
<1> HIDE DEF q
<1>2. ASSUME m * c <= n, ~(m <= q) PROVE FALSE
  <2>1. q + 1 \in Nat /\ q + 1 <= m
    BY <1>1, <1>2
  <2>2. (q + 1) * c <= m * c /\ (q + 1) * c = q * c + c
    BY <1>1, <2>1, Products
  <2> QED BY <1>1, <1>2, <2>2
<1>3. ASSUME n <= m * c, ~(q <= m) PROVE FALSE
  <2>1. m + 1 \in Nat /\ m + 1 <= q
    BY <1>1, <1>3
  <2>2. (m + 1) * c <= q * c /\ (m + 1) * c = m * c + c
    BY <1>1, <2>1, Products
  <2> QED BY <1>1, <1>3, <2>2
<1> QED BY <1>2, <1>3 DEF q

\* The average after d at y, when it was a over f.
Weighed(a, f, y, d) == Rounded(a * f + y * d, f + d)

\* The new average is between the price weighted in and the old average, which
\* no rounding changes.
LEMMA Between ==
  ASSUME NEW a \in Nat, NEW f \in Nat, NEW y \in Nat, NEW d \in Nat, d > 0,
         NEW z \in Nat
  PROVE  /\ Weighed(a, f, y, d) \in Nat
         /\ y <= a \/ f = 0 => y <= Weighed(a, f, y, d)
         /\ a <= y \/ f = 0 => Weighed(a, f, y, d) <= y
         /\ y <= a /\ a <= z => Weighed(a, f, y, d) <= z
         /\ a <= y /\ z <= a => z <= Weighed(a, f, y, d)
<1> DEFINE n == a * f + y * d
           c == f + d
           q == Weighed(a, f, y, d)
<1>1. /\ a * f \in Nat /\ y * d \in Nat /\ y * f \in Nat /\ z * f \in Nat /\ z * d \in Nat
      /\ c \in Nat /\ c > 0 /\ n \in Nat
  BY Products
<1>2. y * c = y * f + y * d /\ z * c = z * f + z * d
  BY Products
<1>3. /\ y <= a => y * f <= a * f
      /\ a <= y => a * f <= y * f
      /\ f = 0 => a * f = 0 /\ y * f = 0
      /\ y <= z => y * d <= z * d
      /\ z <= y => z * d <= y * d
      /\ a <= z => a * f <= z * f
      /\ z <= a => z * f <= a * f
  BY Products
<1>4. /\ y <= a \/ f = 0 => y * c <= n
      /\ a <= y \/ f = 0 => n <= y * c
  BY <1>1, <1>2, <1>3
<1>5. /\ y <= a /\ a <= z => n <= z * c
      /\ a <= y /\ z <= a => z * c <= n
  BY <1>1, <1>2, <1>3
<1>6. q = Rounded(n, c)
  BY DEF Weighed
<1> HIDE DEF n, c, q
<1>7. q \in Nat
  BY <1>1, <1>6, RoundedIs
<1>8. /\ y * c <= n => y <= q
      /\ n <= y * c => q <= y
      /\ z * c <= n => z <= q
      /\ n <= z * c => q <= z
  BY <1>1, <1>6, RoundedWithin
<1> QED BY <1>4, <1>5, <1>7, <1>8 DEF q

\* Twice the error of an average of a over f, when u is what was paid.
Error(a, f, u) == 2 * (a * f) - 2 * u

\* One more price, rounded, adds at most half a unit for each quantity to the
\* error, in either direction.
LEMMA ErrorGrows ==
  ASSUME NEW a \in Nat, NEW f \in Nat, NEW y \in Nat, NEW d \in Nat, d > 0,
         NEW u \in Nat, NEW k \in Nat, NEW q, q = Rounded(a * f + y * d, f + d),
         Error(a, f, u) <= k * f, -Error(a, f, u) <= k * f
  PROVE  /\ Error(q, f + d, u + y * d) <= (k + 1) * (f + d)
         /\ -Error(q, f + d, u + y * d) <= (k + 1) * (f + d)
<1> DEFINE n == a * f + y * d
           c == f + d
<1>1. /\ a * f \in Nat /\ y * d \in Nat /\ k * f \in Nat /\ k * c \in Nat
      /\ c \in Nat /\ c > 0 /\ n \in Nat /\ f <= c
  BY Products
<1>2. k * f <= k * c /\ (k + 1) * c = k * c + c
  BY <1>1, Products
<1>3. q = Rounded(n, c) /\ n = a * f + y * d
  OBVIOUS
<1> HIDE DEF n
<1>4. /\ q * c \in Nat
      /\ 2 * (q * c) - 2 * n <= c /\ 2 * n - 2 * (q * c) <= c
  <2> HIDE DEF c
  <2> QED BY <1>1, <1>3, RoundedIs
<1> HIDE DEF c
<1>5. Error(q, c, u + y * d) <= (k + 1) * c
  BY <1>1, <1>2, <1>3, <1>4 DEF Error
<1>6. -Error(q, c, u + y * d) <= (k + 1) * c
  BY <1>1, <1>2, <1>3, <1>4 DEF Error
<1> QED BY <1>5, <1>6 DEF c

--------------------------------------------------------------------------------
(* Lot selection. *)

\* The open lots of one inventory: finitely many, each with an ID of its own.
Stock(open) == /\ IsFiniteSet(open) /\ open \subseteq Lot
               /\ \A a, b \in open : a.id = b.id => a = b

\* q lists open, the oldest lot first.
Lists(q, open) ==
  /\ q \in [1 .. Cardinality(open) -> open]
  /\ \A i, j \in 1 .. Cardinality(open) : i < j => Older(q[i], q[j])
  /\ \A l \in open : \E i \in 1 .. Cardinality(open) : q[i] = l

\* y is the youngest lot of open.
Youngest(y, open) == y \in open /\ \A x \in open : x # y => Older(x, y)

\* Of two lots one is older, and older is transitive.
LEMMA OlderIsTotal ==
  ASSUME NEW a \in Lot, NEW b \in Lot
  PROVE  /\ a.id # b.id => Older(a, b) \/ Older(b, a)
         /\ \A c \in Lot : Older(a, b) /\ Older(b, c) => Older(a, c)
         /\ ~Older(a, a)
BY DEF Lot, Older

\* Stock without one of its lots is stock.
LEMMA StockWithout ==
  ASSUME NEW open, Stock(open), NEW y \in open
  PROVE  /\ Stock(open \ {y}) /\ Cardinality(open) \in Nat
         /\ Cardinality(open \ {y}) = Cardinality(open) - 1
BY FS_RemoveElement, FS_CardinalityType DEF Stock

\* Stock that is not empty has a youngest lot.
LEMMA YoungestExists ==
  \A open : Stock(open) /\ open # {} => \E y : Youngest(y, open)
<1> DEFINE P == {n \in Nat : \A open : Stock(open) /\ Cardinality(open) = n + 1
                                         => \E y : Youngest(y, open)}
<1>1. 0 \in P
  <2> SUFFICES ASSUME NEW open, Stock(open), Cardinality(open) = 1
               PROVE  \E y : Youngest(y, open)
    OBVIOUS
  <2>1. PICK y : open = {y}
    BY FS_Singleton DEF Stock
  <2> QED BY <2>1 DEF Youngest
<1>2. ASSUME NEW n \in Nat, n \in P PROVE n + 1 \in P
  <2> SUFFICES ASSUME NEW open, Stock(open), Cardinality(open) = n + 2
               PROVE  \E y : Youngest(y, open)
    <3>1. (n + 1) + 1 = n + 2 /\ n + 1 \in Nat
      OBVIOUS
    <3> QED BY <3>1
  <2>0. Cardinality(open) # 0 /\ Cardinality({}) = 0
    BY FS_EmptySet
  <2>1. PICK l \in open : TRUE
    BY ONLY <2>0
  <2>2. Stock(open \ {l}) /\ Cardinality(open \ {l}) = n + 1
    <3>1. /\ Stock(open \ {l})
          /\ Cardinality(open \ {l}) = Cardinality(open) - 1
      BY ONLY Stock(open), l \in open, StockWithout
    <3> QED BY <3>1
  <2>3. PICK y : Youngest(y, open \ {l})
    BY <1>2, <2>2
  <2>4. /\ y \in open /\ y # l /\ y \in Lot /\ l \in Lot /\ y.id # l.id
        /\ \A x \in open : x \in Lot
        /\ \A x \in open : x # y /\ x # l => Older(x, y)
    BY <2>3 DEF Youngest, Stock
  <2>5. CASE Older(l, y)
    BY <2>4, <2>5 DEF Youngest
  <2>6. CASE Older(y, l)
    <3>1. ASSUME NEW x \in open, x # l PROVE Older(x, l)
      BY <2>4, <2>6, <3>1, OlderIsTotal
    <3> QED BY <3>1 DEF Youngest
  <2> QED BY <2>4, <2>5, <2>6, OlderIsTotal
<1>3. \A n \in Nat : n \in P
  <2> HIDE DEF P
  <2> QED BY <1>1, <1>2, SetInduction
<1> SUFFICES ASSUME NEW open, Stock(open), open # {} PROVE \E y : Youngest(y, open)
  OBVIOUS
<1>4. PICK l \in open : TRUE
  OBVIOUS
<1>5. Cardinality(open) - 1 \in Nat /\ Cardinality(open) = (Cardinality(open) - 1) + 1
  <2>1. /\ IsFiniteSet(open \ {l}) /\ Cardinality(open) \in Nat
        /\ Cardinality(open \ {l}) = Cardinality(open) - 1
    BY <1>4, StockWithout DEF Stock
  <2> QED BY <2>1, FS_CardinalityType
<1> QED BY <1>3, <1>5

\* Every stock can be listed oldest first.
LEMMA ListingExists ==
  \A open : Stock(open) => \E q : Lists(q, open)
<1> DEFINE P == {n \in Nat : \A open : Stock(open) /\ Cardinality(open) = n
                                         => \E q : Lists(q, open)}
<1>1. 0 \in P
  <2> SUFFICES ASSUME NEW open, Stock(open), Cardinality(open) = 0
               PROVE  \E q : Lists(q, open)
    OBVIOUS
  <2>1. open = {}
    BY FS_EmptySet DEF Stock
  <2> DEFINE q == [i \in 1 .. Cardinality(open) |-> {}]
  <2>2. 1 .. Cardinality(open) = {}
    OBVIOUS
  <2>3. Lists(q, open)
    BY <2>1, <2>2 DEF Lists
  <2> QED BY <2>3
<1>2. ASSUME NEW n \in Nat, n \in P PROVE n + 1 \in P
  <2> SUFFICES ASSUME NEW open, Stock(open), Cardinality(open) = n + 1
               PROVE  \E q : Lists(q, open)
    OBVIOUS
  <2>0. Cardinality(open) # 0 /\ Cardinality({}) = 0
    BY FS_EmptySet
  <2>1. PICK y : Youngest(y, open)
    BY ONLY <2>0, Stock(open), YoungestExists
  <2>2. y \in open /\ \A x \in open \ {y} : Older(x, y)
    BY <2>1 DEF Youngest
  <2>3. Stock(open \ {y}) /\ Cardinality(open \ {y}) = n
    <3>1. /\ Stock(open \ {y})
          /\ Cardinality(open \ {y}) = Cardinality(open) - 1
      BY ONLY Stock(open), <2>2, StockWithout
    <3> QED BY <3>1
  <2>4. PICK q : Lists(q, open \ {y})
    BY <1>2, <2>3
  <2>5. /\ q \in [1 .. n -> open \ {y}]
        /\ \A i, j \in 1 .. n : i < j => Older(q[i], q[j])
        /\ \A l \in open \ {y} : \E i \in 1 .. n : q[i] = l
    BY <2>3, <2>4 DEF Lists
  <2> DEFINE r == [i \in 1 .. n + 1 |-> IF i = n + 1 THEN y ELSE q[i]]
  <2>6. /\ r[n + 1] = y /\ n + 1 \in 1 .. n + 1
        /\ \A i \in 1 .. n : r[i] = q[i] /\ i \in 1 .. n + 1
        /\ \A i \in 1 .. n + 1 : i \in 1 .. n \/ i = n + 1
        /\ DOMAIN r = 1 .. n + 1
    OBVIOUS
  <2>7. r \in [1 .. n + 1 -> open]
    BY <2>2, <2>5
  <2> HIDE DEF r
  <2>8. ASSUME NEW i \in 1 .. n + 1, NEW j \in 1 .. n + 1, i < j
        PROVE  Older(r[i], r[j])
    <3>1. i \in 1 .. n
      BY <2>8
    <3>2. CASE j = n + 1
      BY <2>2, <2>5, <2>6, <3>1, <3>2
    <3>3. CASE j \in 1 .. n
      BY <2>5, <2>6, <2>8, <3>1, <3>3
    <3> QED BY <2>6, <3>2, <3>3
  <2>9. ASSUME NEW l \in open PROVE \E i \in 1 .. n + 1 : r[i] = l
    BY <2>5, <2>6
  <2>10. Lists(r, open)
    BY <2>7, <2>8, <2>9 DEF Lists
  <2> QED BY <2>10
<1>3. \A n \in Nat : n \in P
  <2> HIDE DEF P
  <2> QED BY <1>1, <1>2, SetInduction
<1> SUFFICES ASSUME NEW open, Stock(open) PROVE \E q : Lists(q, open)
  OBVIOUS
<1>4. Cardinality(open) \in Nat
  BY FS_CardinalityType DEF Stock
<1> QED BY <1>3, <1>4

\* Queue lists the lots.
LEMMA QueueLists == ASSUME NEW open, Stock(open) PROVE Lists(Queue(open), open)
<1> DEFINE Good(q) == /\ \A i, j \in DOMAIN q : i < j => Older(q[i], q[j])
                      /\ \A l \in open : \E i \in DOMAIN q : q[i] = l
           F == [1 .. Cardinality(open) -> open]
<1>1. \E q \in F : Good(q)
  <2>1. PICK q : Lists(q, open)
    BY ListingExists
  <2>2. q \in F /\ DOMAIN q = 1 .. Cardinality(open)
    BY <2>1 DEF Lists
  <2>3. Good(q)
    BY <2>1, <2>2 DEF Lists
  <2> QED BY <2>2, <2>3
<1>2. Queue(open) = CHOOSE q \in F : Good(q)
  BY DEF Queue
<1>3. Queue(open) \in F /\ Good(Queue(open))
  <2> HIDE DEF Good, F
  <2> QED BY <1>1, <1>2
<1> QED BY <1>3 DEF Lists

--------------------------------------------------------------------------------

\* f is what Select's loop has after each lot.
Runs(f, open, qty, n) ==
  f = [k \in 0 .. n |-> IF k = 0 THEN [closures |-> <<>>, unmatched |-> qty]
                        ELSE Allocate(f[k - 1], Queue(open)[k])]

\* The loop defines a function.
LEMMA RunExists ==
  ASSUME NEW open, NEW qty
  PROVE  \A n \in Nat : \E f : Runs(f, open, qty, n)
<1> DEFINE P == {n \in Nat : \E f : Runs(f, open, qty, n)}
           start == [closures |-> <<>>, unmatched |-> qty]
<1>1. 0 \in P
  <2> DEFINE f == [k \in 0 .. 0 |-> start]
  <2>1. Runs(f, open, qty, 0)
    BY DEF Runs
  <2> QED BY <2>1
<1>2. ASSUME NEW n \in Nat, n \in P PROVE n + 1 \in P
  <2>1. PICK f : Runs(f, open, qty, n)
    BY <1>2
  <2> DEFINE g == [k \in 0 .. n + 1 |->
                     IF k = 0 THEN start
                     ELSE Allocate(f[k - 1], Queue(open)[k])]
  <2>2. \A k \in 0 .. n : g[k] = f[k]
    BY <2>1 DEF Runs
  <2>3. \A k \in 0 .. n + 1 : k # 0 => k - 1 \in 0 .. n
    OBVIOUS
  <2>4. \A k \in 0 .. n + 1 : k # 0 => Allocate(g[k - 1], Queue(open)[k])
                                         = Allocate(f[k - 1], Queue(open)[k])
    <3> HIDE DEF g
    <3> QED BY <2>2, <2>3
  <2>5. Runs(g, open, qty, n + 1)
    BY <2>4 DEF Runs
  <2> QED BY <2>5
<1>3. \A n \in Nat : n \in P
  <2> HIDE DEF P
  <2> QED BY <1>1, <1>2, SetInduction
<1> QED BY <1>3

\* Select is where such a run ends.
LEMMA SelectIsRun ==
  ASSUME NEW open, Stock(open), NEW qty
  PROVE  \E f : Runs(f, open, qty, Cardinality(open))
                  /\ Select(open, qty) = f[Cardinality(open)]
<1> DEFINE f == CHOOSE g : Runs(g, open, qty, Cardinality(open))
<1>1. Cardinality(open) \in Nat
  BY FS_CardinalityType DEF Stock
<1>2. Runs(f, open, qty, Cardinality(open))
  BY <1>1, RunExists
<1>3. Select(open, qty) = f[Cardinality(open)]
  BY DEF Select, Runs
<1> QED BY <1>2, <1>3

Bookings == [lot : Nat, qty : Nat]

\* The lot_closures rows Commit makes of the closures of one sell.
ClosureRow(i, name, c) ==
  [inventory |-> i, lot |-> c.lot, fill |-> name, qty |-> c.qty]
ClosureRows(i, name, closed) ==
  {ClosureRow(i, name, closed[k]) : k \in 1 .. Len(closed)}

\* The closures closed are of lots q[1] .. q[m], each lot at most once and for
\* no more than it has.
ClosesOnce(closed, q, m) ==
  /\ closed \in Seq(Bookings)
  /\ \A k \in 1 .. Len(closed) : \E j \in 1 .. m :
       /\ closed[k].lot = q[j].id
       /\ closed[k].qty > 0 /\ closed[k].qty <= q[j].remainingQty
  /\ \A k, l \in 1 .. Len(closed) : closed[k].lot = closed[l].lot => k = l

\* closed takes all that q[1] .. q[m] have.
ClosesAll(closed, q, m) ==
  \A j \in 1 .. m : q[j].remainingQty > 0 =>
    \E k \in 1 .. Len(closed) : /\ closed[k].lot = q[j].id
                                /\ closed[k].qty = q[j].remainingQty

\* The closures and the rest add up to qty, whatever sell they belong to.
AccountsFor(closed, rest, qty) ==
  /\ rest \in Nat
  /\ \A i, name : /\ Quantified(ClosureRows(i, name, closed))
                  /\ Total(ClosureRows(i, name, closed)) + rest = qty

Allocated(acc, q, m, qty) ==
  /\ ClosesOnce(acc.closures, q, m)
  /\ acc.unmatched > 0 => ClosesAll(acc.closures, q, m)
  /\ AccountsFor(acc.closures, acc.unmatched, qty)

\* One more closure is one more row.
LEMMA OneMoreRow ==
  ASSUME NEW closed \in Seq(Bookings), NEW c \in Bookings, NEW i, NEW name,
         \A k \in 1 .. Len(closed) : closed[k].lot # c.lot
  PROVE  /\ ClosureRows(i, name, Append(closed, c))
              = ClosureRows(i, name, closed) \cup {ClosureRow(i, name, c)}
         /\ ClosureRow(i, name, c) \notin ClosureRows(i, name, closed)
         /\ ClosureRow(i, name, c).qty = c.qty
<1> DEFINE n == Len(closed)
           b == Append(closed, c)
<1>1. /\ n \in Nat /\ Len(b) = n + 1 /\ b[n + 1] = c
      /\ \A k \in 1 .. n : b[k] = closed[k]
  OBVIOUS
<1>2. ClosureRow(i, name, c) \notin ClosureRows(i, name, closed)
  BY DEF ClosureRow, ClosureRows
<1>3. ClosureRow(i, name, c).qty = c.qty
  BY DEF ClosureRow
<1> HIDE DEF n, b
<1>4. \A k : k \in 1 .. n + 1 <=> k \in 1 .. n \/ k = n + 1
  BY <1>1
<1>5. {ClosureRow(i, name, b[k]) : k \in 1 .. n + 1}
        = {ClosureRow(i, name, closed[k]) : k \in 1 .. n}
            \cup {ClosureRow(i, name, c)}
  BY <1>1, <1>4
<1> QED BY <1>1, <1>2, <1>3, <1>5 DEF ClosureRows, n, b

\* Two places of a queue hold lots with different IDs.
LEMMA QueueOnce ==
  ASSUME NEW open, Stock(open), NEW q, Lists(q, open),
         NEW j \in 1 .. Cardinality(open), NEW l \in 1 .. Cardinality(open)
  PROVE  /\ q[j] \in Lot /\ q[j] \in open
         /\ q[j].id = q[l].id => j = l
<1>1. q[j] \in open /\ q[l] \in open
  BY DEF Lists
<1>2. q[j] \in Lot /\ q[l] \in Lot
  BY <1>1 DEF Stock
<1>3. ASSUME q[j].id = q[l].id PROVE j = l
  <2>1. q[j] = q[l]
    BY <1>1, <1>3 DEF Stock
  <2>2. ~Older(q[j], q[j])
    BY <1>2, OlderIsTotal
  <2>3. /\ j < l => Older(q[j], q[l])
        /\ l < j => Older(q[l], q[j])
    BY DEF Lists
  <2>4. ~(j < l) /\ ~(l < j)
    BY <2>1, <2>2, <2>3
  <2>5. j \in Int /\ l \in Int
    BY FS_CardinalityType DEF Stock
  <2> QED BY <2>4, <2>5
<1> QED BY <1>1, <1>2, <1>3

\* One iteration of the loop.
LEMMA AllocateStep ==
  ASSUME NEW open, Stock(open), NEW q, Lists(q, open), NEW qty \in Nat,
         NEW m \in Nat, m + 1 <= Cardinality(open),
         NEW acc, Allocated(acc, q, m, qty)
  PROVE  Allocated(Allocate(acc, q[m + 1]), q, m + 1, qty)
<1> DEFINE lot == q[m + 1]
           cl == acc.closures
           rest == acc.unmatched
           n == Len(cl)
           a == IF rest < lot.remainingQty THEN rest ELSE lot.remainingQty
           c == [lot |-> lot.id, qty |-> a]
<1>0. Cardinality(open) \in Nat
  BY FS_CardinalityType DEF Stock
<1>1. /\ lot \in Lot /\ \A j \in 1 .. m : q[j].id # lot.id
      /\ \A j \in 1 .. m + 1 : q[j] \in Lot
  <2>1. m + 1 \in 1 .. Cardinality(open) /\ 1 .. m + 1 \subseteq 1 .. Cardinality(open)
    BY <1>0
  <2>2. \A j \in 1 .. m : j \in 1 .. m + 1 /\ j # m + 1
    OBVIOUS
  <2> QED BY <2>1, <2>2, QueueOnce
<1>2. lot.id \in Nat /\ lot.remainingQty \in Nat
  BY <1>1 DEF Lot
<1>3. /\ cl \in Seq(Bookings) /\ n \in Nat /\ rest \in Nat
  BY DEF Allocated, ClosesOnce, AccountsFor
<1>4. \A j : j \in 1 .. m + 1 <=> j \in 1 .. m \/ j = m + 1
  OBVIOUS
<1>5. CASE ~(rest > 0 /\ lot.remainingQty > 0)
  <2>1. Allocate(acc, lot) = acc
    BY <1>5 DEF Allocate
  <2>2. ClosesOnce(cl, q, m + 1)
    BY <1>4 DEF Allocated, ClosesOnce
  <2>3. ASSUME rest > 0 PROVE ClosesAll(cl, q, m + 1)
    BY <1>4, <1>5, <2>3 DEF Allocated, ClosesAll
  <2> QED BY <2>1, <2>2, <2>3 DEF Allocated
<1>6. CASE rest > 0 /\ lot.remainingQty > 0
  <2> DEFINE new == Append(cl, c)
  <2>1. Allocate(acc, lot) = [closures |-> new, unmatched |-> rest - a]
    BY <1>6 DEF Allocate
  <2>2. /\ a \in Nat /\ a > 0 /\ a <= lot.remainingQty /\ a <= rest
        /\ rest - a \in Nat
        /\ rest - a > 0 => a = lot.remainingQty
    BY <1>2, <1>3, <1>6
  <2> HIDE DEF a
  <2>3. c \in Bookings /\ c.lot = lot.id /\ c.qty = a
    BY <1>2, <2>2 DEF Bookings
  <2> HIDE DEF c
  <2>4. /\ new \in Seq(Bookings) /\ Len(new) = n + 1 /\ new[n + 1] = c
        /\ \A k \in 1 .. n : new[k] = cl[k]
        /\ \A k : k \in 1 .. n + 1 <=> k \in 1 .. n \/ k = n + 1
    BY <1>3, <2>3
  <2> HIDE DEF new
  <2>5. \A k \in 1 .. n : \E j \in 1 .. m :
          /\ cl[k].lot = q[j].id
          /\ cl[k].qty > 0 /\ cl[k].qty <= q[j].remainingQty
    BY DEF Allocated, ClosesOnce
  <2>6. \A k \in 1 .. n : cl[k].lot # c.lot
    BY <1>1, <2>3, <2>5
  <2>7. ClosesOnce(new, q, m + 1)
    <3>1. ASSUME NEW k \in 1 .. n + 1
          PROVE  \E j \in 1 .. m + 1 :
                   /\ new[k].lot = q[j].id
                   /\ new[k].qty > 0 /\ new[k].qty <= q[j].remainingQty
      <4>1. CASE k \in 1 .. n
        BY <1>4, <2>4, <2>5, <4>1
      <4>2. CASE k = n + 1
        BY <1>4, <2>2, <2>3, <2>4, <4>2
      <4> QED BY <2>4, <4>1, <4>2
    <3>2. ASSUME NEW k \in 1 .. n + 1, NEW l \in 1 .. n + 1,
                 new[k].lot = new[l].lot
          PROVE  k = l
      <4>1. CASE k \in 1 .. n /\ l \in 1 .. n
        BY <2>4, <3>2, <4>1 DEF Allocated, ClosesOnce
      <4>2. CASE k = n + 1 \/ l = n + 1
        BY <2>4, <2>6, <3>2, <4>2
      <4> QED BY <2>4, <4>1, <4>2
    <3> QED BY <2>4, <3>1, <3>2 DEF ClosesOnce
  <2>8. ASSUME rest - a > 0 PROVE ClosesAll(new, q, m + 1)
    <3> SUFFICES ASSUME NEW j \in 1 .. m + 1, q[j].remainingQty > 0
                 PROVE  \E k \in 1 .. n + 1 : /\ new[k].lot = q[j].id
                                              /\ new[k].qty = q[j].remainingQty
      BY <2>4 DEF ClosesAll
    <3>1. CASE j = m + 1
      <4>1. a = lot.remainingQty /\ q[j] = lot
        BY <2>2, <2>8, <3>1
      <4>2. n + 1 \in 1 .. n + 1 /\ new[n + 1].lot = lot.id /\ new[n + 1].qty = a
        BY <2>3, <2>4
      <4> QED BY <4>1, <4>2
    <3>2. CASE j \in 1 .. m
      <4>1. PICK k \in 1 .. n : cl[k].lot = q[j].id /\ cl[k].qty = q[j].remainingQty
        BY <1>6, <3>2 DEF Allocated, ClosesAll
      <4> QED BY <2>4, <4>1
    <3> QED BY <1>4, <3>1, <3>2
  <2>9. ASSUME NEW i, NEW name
        PROVE  /\ Quantified(ClosureRows(i, name, new))
               /\ Total(ClosureRows(i, name, new)) + (rest - a) = qty
    <3> DEFINE R == ClosureRows(i, name, cl)
               r == ClosureRow(i, name, c)
    <3>1. ClosureRows(i, name, new) = R \cup {r} /\ r \notin R /\ r.qty = a
      BY <1>3, <2>3, <2>6, OneMoreRow DEF new
    <3>2. Quantified(R) /\ Total(R) + rest = qty
      BY DEF Allocated, AccountsFor
    <3> HIDE DEF R, r
    <3>3. /\ Total(R) \in Nat /\ Total(R \cup {r}) = Total(R) + a
          /\ Quantified(R \cup {r})
      BY <2>2, <3>1, <3>2, TotalAdd
    <3>4. (Total(R) + a) + (rest - a) = qty
      BY <1>3, <2>2, <3>2, <3>3
    <3> QED BY <3>1, <3>3, <3>4
  <2>10. AccountsFor(new, rest - a, qty)
    <3>1. rest - a \in Nat
      BY <2>2
    <3> QED BY ONLY <2>9, <3>1, Zenon DEF AccountsFor
  <2> QED BY <2>1, <2>7, <2>8, <2>10 DEF Allocated
<1> QED BY <1>5, <1>6

\* Select allocates the whole quantity, or everything the lots have.
LEMMA SelectAllocates ==
  ASSUME NEW open, Stock(open), NEW qty \in Nat
  PROVE  Allocated(Select(open, qty), Queue(open), Cardinality(open), qty)
<1> DEFINE q == Queue(open)
           N == Cardinality(open)
<1>0. N \in Nat /\ Lists(q, open)
  BY QueueLists, FS_CardinalityType DEF Stock
<1>1. PICK f : Runs(f, open, qty, N) /\ Select(open, qty) = f[N]
  BY SelectIsRun
<1>2. /\ f[0] = [closures |-> <<>>, unmatched |-> qty]
      /\ \A m \in Nat : m + 1 <= N => f[m + 1] = Allocate(f[m], q[m + 1])
  BY <1>0, <1>1 DEF Runs
<1> HIDE DEF q, N
<1> DEFINE P == {m \in Nat : m <= N => Allocated(f[m], q, m, qty)}
<1>3. 0 \in P
  <2>1. ClosesOnce(<<>>, q, 0) /\ ClosesAll(<<>>, q, 0)
    BY DEF ClosesOnce, ClosesAll
  <2>2. \A i, name : ClosureRows(i, name, <<>>) = {}
    BY DEF ClosureRows
  <2>3. AccountsFor(<<>>, qty, qty)
    <3>1. Quantified({}) /\ Total({}) + qty = qty
      BY TotalEmpty
    <3> QED BY ONLY qty \in Nat, <2>2, <3>1, Zenon DEF AccountsFor
  <2> QED BY <1>2, <2>1, <2>3 DEF Allocated
<1>4. ASSUME NEW m \in Nat, m \in P PROVE m + 1 \in P
  <2> SUFFICES ASSUME m + 1 <= N PROVE Allocated(f[m + 1], q, m + 1, qty)
    OBVIOUS
  <2>1. Allocated(f[m], q, m, qty)
    BY <1>0, <1>4
  <2>2. Allocated(Allocate(f[m], q[m + 1]), q, m + 1, qty)
    BY <1>0, <2>1, AllocateStep DEF N
  <2> QED BY <1>2, <2>2
<1>5. N \in P
  <2> HIDE DEF P
  <2> QED BY <1>0, <1>3, <1>4, SetInduction
<1> QED BY <1>0, <1>1, <1>5 DEF q, N

--------------------------------------------------------------------------------
(* First in, first out. *)

\* What is left of a when b is taken away, but not less than nothing.
Over(a, b) == IF a > b THEN a - b ELSE 0

\* The closures that would empty the lots of S; the first m lots of a queue,
\* and what they hold.
Emptying(S) == {[lot |-> l.id, qty |-> l.remainingQty] : l \in S}
FrontOf(q, m) == {q[j] : j \in 1 .. m}
Upto(q, m) == Held(FrontOf(q, m))

\* The share of the j-th lot of a queue, and the closure of that share.
Part(q, j, qty) == IF q[j].remainingQty < Over(qty, Upto(q, j - 1))
                   THEN q[j].remainingQty ELSE Over(qty, Upto(q, j - 1))
Booked(q, j, qty) == [lot |-> q[j].id, qty |-> Part(q, j, qty)]

\* Max and Min of two numbers.
LEMMA MaxMin ==
  ASSUME NEW a \in Int, NEW b \in Int
  PROVE  /\ Max({0, a - b}) = Over(a, b)
         /\ Min({a, b}) = IF a < b THEN a ELSE b
<1>1. Max({0, a - b}) = Over(a, b)
  <2> DEFINE S == {0, a - b}
             m == Over(a, b)
  <2>1. m \in S /\ \A y \in S : m >= y
    BY DEF Over
  <2>2. \A x \in S : (\A y \in S : x >= y) => x = m
    BY DEF Over
  <2>3. Max(S) \in S /\ \A y \in S : Max(S) >= y
    <3> HIDE DEF S, m
    <3> QED BY <2>1 DEF Max
  <2> QED BY <2>2, <2>3
<1>2. Min({a, b}) = IF a < b THEN a ELSE b
  <2> DEFINE S == {a, b}
             m == IF a < b THEN a ELSE b
  <2>1. m \in S /\ \A y \in S : m <= y
    OBVIOUS
  <2>2. \A x \in S : (\A y \in S : x <= y) => x = m
    OBVIOUS
  <2>3. Min(S) \in S /\ \A y \in S : Min(S) <= y
    <3> HIDE DEF S, m
    <3> QED BY <2>1 DEF Min
  <2> QED BY <2>2, <2>3
<1> QED BY <1>1, <1>2

\* What lots hold is the total of their closures.
LEMMA HeldIs == ASSUME NEW S PROVE Held(S) = Total(Emptying(S))
BY DEF Held, Total, Emptying

\* One more lot of the queue holds what remains of it.
LEMMA FrontStep ==
  ASSUME NEW open, Stock(open), NEW q, Lists(q, open),
         NEW m \in Nat, m + 1 <= Cardinality(open), Quantified(Emptying(FrontOf(q, m)))
  PROVE  /\ Upto(q, m) \in Nat
         /\ Upto(q, m + 1) = Upto(q, m) + q[m + 1].remainingQty
         /\ Quantified(Emptying(FrontOf(q, m + 1)))
<1> DEFINE S == Emptying(FrontOf(q, m))
           l == q[m + 1]
           c == [lot |-> l.id, qty |-> l.remainingQty]
<1>0. Cardinality(open) \in Nat
  BY FS_CardinalityType DEF Stock
<1>1. m + 1 \in 1 .. Cardinality(open) /\ 1 .. m \subseteq 1 .. Cardinality(open)
  BY <1>0
<1>2. l \in Lot /\ \A j \in 1 .. m : q[j].id # l.id
  <2>1. \A j \in 1 .. m : j # m + 1
    OBVIOUS
  <2> QED BY <1>1, <2>1, QueueOnce
<1>3. c.lot = l.id /\ c.qty = l.remainingQty /\ l.remainingQty \in Nat
  BY <1>2 DEF Lot
<1>4. c \notin S
  <2>1. \A r \in S : \E j \in 1 .. m : r.lot = q[j].id
    BY DEF Emptying, FrontOf
  <2> QED BY <1>2, <1>3, <2>1
<1>5. Emptying(FrontOf(q, m + 1)) = S \cup {c}
  <2>1. \A j : j \in 1 .. m + 1 <=> j \in 1 .. m \/ j = m + 1
    OBVIOUS
  <2>2. FrontOf(q, m + 1) = FrontOf(q, m) \cup {l}
    BY <2>1 DEF FrontOf
  <2> QED BY <2>2 DEF Emptying
<1> HIDE DEF S, c
<1>6. /\ Total(S) \in Nat /\ Total(S \cup {c}) = Total(S) + c.qty
      /\ Quantified(S \cup {c})
  <2>1. Quantified(S) /\ c.qty \in Nat
    BY <1>3 DEF S
  <2> QED BY ONLY <1>4, <2>1, TotalAdd
<1>7. Upto(q, m) = Total(S) /\ Upto(q, m + 1) = Total(S \cup {c})
  BY <1>5, HeldIs DEF Upto, S
<1> QED BY <1>3, <1>5, <1>6, <1>7

\* What the front of a queue holds, lot by lot.
LEMMA FrontHolds ==
  ASSUME NEW open, Stock(open), NEW q, Lists(q, open)
  PROVE  /\ Upto(q, 0) = 0 /\ \A m \in 0 .. Cardinality(open) : Upto(q, m) \in Nat
         /\ \A m \in Nat : m + 1 <= Cardinality(open) =>
              Upto(q, m + 1) = Upto(q, m) + q[m + 1].remainingQty
<1> DEFINE N == Cardinality(open)
           P == {m \in Nat : m <= N => Quantified(Emptying(FrontOf(q, m)))}
<1>0. N \in Nat
  BY FS_CardinalityType DEF Stock
<1>1. Emptying(FrontOf(q, 0)) = {}
  BY DEF Emptying, FrontOf
<1>2. 0 \in P
  BY <1>1, TotalEmpty
<1>3. ASSUME NEW m \in Nat, m \in P PROVE m + 1 \in P
  <2> SUFFICES ASSUME m + 1 <= N PROVE Quantified(Emptying(FrontOf(q, m + 1)))
    OBVIOUS
  <2>1. Quantified(Emptying(FrontOf(q, m)))
    BY <1>0, <1>3
  <2> QED BY <2>1, FrontStep
<1>4. \A m \in Nat : m \in P
  <2> HIDE DEF P
  <2> QED BY <1>2, <1>3, SetInduction
<1>5. Upto(q, 0) = 0
  BY <1>1, HeldIs, TotalEmpty DEF Upto
<1>6. ASSUME NEW m \in Nat, m + 1 <= N
      PROVE  /\ Upto(q, m) \in Nat /\ q[m + 1].remainingQty \in Nat
             /\ Upto(q, m + 1) = Upto(q, m) + q[m + 1].remainingQty
  <2>1. m <= N /\ m + 1 \in 1 .. N
    BY <1>0, <1>6
  <2>2. Quantified(Emptying(FrontOf(q, m)))
    BY <1>4, <2>1
  <2>3. q[m + 1] \in Lot
    BY <2>1, QueueOnce
  <2>4. q[m + 1].remainingQty \in Nat
    BY <2>3 DEF Lot
  <2> QED BY <1>6, <2>2, <2>4, FrontStep
<1>7. ASSUME NEW m \in 0 .. N PROVE Upto(q, m) \in Nat
  <2>1. CASE m = 0
    BY <1>5, <2>1
  <2>2. CASE m # 0
    <3>1. m - 1 \in Nat /\ (m - 1) + 1 <= N /\ (m - 1) + 1 = m
      BY <1>0, <2>2
    <3>2. /\ Upto(q, m - 1) \in Nat /\ q[m].remainingQty \in Nat
          /\ Upto(q, m) = Upto(q, m - 1) + q[m].remainingQty
      BY <1>6, <3>1
    <3> QED BY <3>2
  <2> QED BY <2>1, <2>2
<1> QED BY <1>5, <1>6, <1>7

\* The lots in front of a lot are those before it in the queue.
LEMMA FrontIs ==
  ASSUME NEW open, Stock(open), NEW q, Lists(q, open)
  PROVE  /\ FrontOf(q, Cardinality(open)) = open
         /\ \A k \in 1 .. Cardinality(open) :
              {m \in open : InFrontOf(m, q[k])} = FrontOf(q, k - 1)
<1> DEFINE N == Cardinality(open)
<1>0. N \in Nat
  BY FS_CardinalityType DEF Stock
<1>1. \A j \in 1 .. N : q[j] \in open /\ q[j] \in Lot
  BY QueueOnce
<1>2. FrontOf(q, N) = open
  BY DEF Lists, FrontOf
<1>3. ASSUME NEW k \in 1 .. N
      PROVE  {m \in open : InFrontOf(m, q[k])} = FrontOf(q, k - 1)
  <2>1. ASSUME NEW j \in 1 .. N PROVE InFrontOf(q[j], q[k]) <=> j < k
    <3>1. InFrontOf(q[j], q[k]) <=> Older(q[j], q[k])
      BY DEF InFrontOf, Older
    <3>2. j < k => Older(q[j], q[k])
      BY DEF Lists
    <3>3. k < j => Older(q[k], q[j])
      BY DEF Lists
    <3>4. /\ ~Older(q[k], q[k])
          /\ Older(q[k], q[j]) /\ Older(q[j], q[k]) => Older(q[k], q[k])
      BY <1>1, OlderIsTotal
    <3>5. j < k \/ j = k \/ k < j
      BY <1>0
    <3> QED BY <3>1, <3>2, <3>3, <3>4, <3>5
  <2>2. \A j : j \in 1 .. k - 1 <=> j \in 1 .. N /\ j < k
    BY <1>0
  <2>3. \A m \in open : \E j \in 1 .. N : m = q[j]
    BY DEF Lists
  <2> QED BY <1>1, <2>1, <2>2, <2>3 DEF FrontOf
<1> QED BY <1>2, <1>3

\* After m lots the loop has closed the shares of those lots, in the queue's
\* order, and has left what they do not hold.
Shared(acc, q, m, qty) ==
  /\ acc.closures \in Seq(Bookings)
  /\ acc.unmatched = Over(qty, Upto(q, m))
  /\ \A k \in 1 .. Len(acc.closures) :
       \E j \in 1 .. m : Part(q, j, qty) > 0 /\ acc.closures[k] = Booked(q, j, qty)
  /\ \A j \in 1 .. m : Part(q, j, qty) > 0 =>
       \E k \in 1 .. Len(acc.closures) : acc.closures[k] = Booked(q, j, qty)
  /\ \A k, l \in 1 .. Len(acc.closures) : k < l =>
       \E i, j \in 1 .. m : /\ i < j /\ acc.closures[k].lot = q[i].id
                            /\ acc.closures[l].lot = q[j].id

\* One iteration of the loop.
LEMMA ShareStep ==
  ASSUME NEW open, Stock(open), NEW q, Lists(q, open), NEW qty \in Nat,
         NEW m \in Nat, m + 1 <= Cardinality(open),
         NEW acc, Shared(acc, q, m, qty)
  PROVE  Shared(Allocate(acc, q[m + 1]), q, m + 1, qty)
<1> DEFINE lot == q[m + 1]
           r == lot.remainingQty
           u == Upto(q, m)
           cl == acc.closures
           rest == acc.unmatched
           n == Len(cl)
           a == IF rest < r THEN rest ELSE r
           c == [lot |-> lot.id, qty |-> a]
<1>0. /\ Cardinality(open) \in Nat /\ m + 1 \in 1 .. Cardinality(open)
      /\ m \in 0 .. Cardinality(open)
  BY FS_CardinalityType DEF Stock
<1>1. lot \in Lot
  BY <1>0, QueueOnce
<1>2. lot.id \in Nat /\ r \in Nat
  BY <1>1 DEF Lot
<1>3. /\ cl \in Seq(Bookings) /\ n \in Nat /\ rest = Over(qty, u)
  BY DEF Shared
<1>4. u \in Nat /\ Upto(q, m + 1) = u + r
  BY <1>0, FrontHolds
<1>5. \A j : j \in 1 .. m + 1 <=> j \in 1 .. m \/ j = m + 1
  OBVIOUS
<1>6. rest \in Nat /\ rest - a = Over(qty, u + r) /\ a \in Nat
  BY <1>2, <1>3, <1>4 DEF Over
<1>7. Part(q, m + 1, qty) = a
  <2>1. (m + 1) - 1 = m
    OBVIOUS
  <2>2. Part(q, m + 1, qty) = IF r < rest THEN r ELSE rest
    BY <1>3, <2>1 DEF Part
  <2> QED BY <1>2, <1>6, <2>2
<1>8. Booked(q, m + 1, qty) = c
  BY <1>7 DEF Booked
<1> HIDE DEF r, u
<1>9. CASE ~(rest > 0 /\ r > 0)
  <2>1. Allocate(acc, lot) = acc
    BY <1>9 DEF Allocate, r
  <2>2. a = 0
    BY <1>2, <1>6, <1>9
  <2>3. rest = Over(qty, Upto(q, m + 1))
    BY <1>4, <1>6, <2>2
  <2>4. ~(Part(q, m + 1, qty) > 0)
    BY <1>7, <2>2
  <2> HIDE DEF a
  <2> QED BY <1>5, <2>1, <2>3, <2>4 DEF Shared
<1>10. CASE rest > 0 /\ r > 0
  <2> DEFINE new == Append(cl, c)
  <2>1. Allocate(acc, lot) = [closures |-> new, unmatched |-> rest - a]
    BY <1>10 DEF Allocate, r
  <2>2. a > 0
    BY <1>2, <1>6, <1>10
  <2>3. rest - a = Over(qty, Upto(q, m + 1))
    BY <1>4, <1>6
  <2> HIDE DEF a
  <2>4. c \in Bookings /\ c.lot = lot.id
    BY <1>2, <1>6 DEF Bookings
  <2> HIDE DEF c
  <2>5. /\ new \in Seq(Bookings) /\ Len(new) = n + 1 /\ new[n + 1] = c
        /\ \A k \in 1 .. n : new[k] = cl[k]
        /\ \A k : k \in 1 .. n + 1 <=> k \in 1 .. n \/ k = n + 1
    BY <1>3, <2>4
  <2> HIDE DEF new
  <2>6. \A k \in 1 .. n :
          \E j \in 1 .. m : Part(q, j, qty) > 0 /\ cl[k] = Booked(q, j, qty)
    BY DEF Shared
  <2>7. ASSUME NEW k \in 1 .. n + 1
        PROVE  \E j \in 1 .. m + 1 : Part(q, j, qty) > 0 /\ new[k] = Booked(q, j, qty)
    <3>1. CASE k \in 1 .. n
      BY <1>5, <2>5, <2>6, <3>1
    <3>2. CASE k = n + 1
      BY <1>5, <1>7, <1>8, <2>2, <2>5, <3>2
    <3> QED BY <2>5, <3>1, <3>2
  <2>8. ASSUME NEW j \in 1 .. m + 1, Part(q, j, qty) > 0
        PROVE  \E k \in 1 .. n + 1 : new[k] = Booked(q, j, qty)
    <3>1. CASE j \in 1 .. m
      <4>1. PICK k \in 1 .. n : cl[k] = Booked(q, j, qty)
        BY <2>8, <3>1 DEF Shared
      <4> QED BY <2>5, <4>1
    <3>2. CASE j = m + 1
      BY <1>8, <2>5, <3>2
    <3> QED BY <1>5, <3>1, <3>2
  <2>9. ASSUME NEW k \in 1 .. n + 1, NEW l \in 1 .. n + 1, k < l
        PROVE  \E i, j \in 1 .. m + 1 : /\ i < j /\ new[k].lot = q[i].id
                                        /\ new[l].lot = q[j].id
    <3>1. CASE l \in 1 .. n
      <4>1. k \in 1 .. n
        BY <1>3, <2>9, <3>1
      <4>2. PICK i, j \in 1 .. m : i < j /\ cl[k].lot = q[i].id /\ cl[l].lot = q[j].id
        BY <2>9, <3>1, <4>1 DEF Shared
      <4>3. i \in 1 .. m + 1 /\ j \in 1 .. m + 1
        BY <1>5
      <4> QED BY <2>5, <3>1, <4>1, <4>2, <4>3
    <3>2. CASE l = n + 1
      <4>1. k \in 1 .. n
        BY <1>3, <2>9, <3>2
      <4>2. PICK i \in 1 .. m : cl[k] = Booked(q, i, qty)
        BY <2>6, <4>1
      <4>3. new[k].lot = q[i].id
        BY <2>5, <4>1, <4>2 DEF Booked
      <4>4. i \in 1 .. m + 1 /\ m + 1 \in 1 .. m + 1 /\ i < m + 1
        OBVIOUS
      <4>5. new[l].lot = q[m + 1].id
        BY <2>4, <2>5, <3>2
      <4> QED BY <4>3, <4>4, <4>5
    <3> QED BY <2>5, <3>1, <3>2
  <2> DEFINE res == Allocate(acc, lot)
  <2>10. res.closures = new /\ res.unmatched = Over(qty, Upto(q, m + 1))
    BY <2>1, <2>3
  <2> HIDE DEF res
  <2>11. Shared(res, q, m + 1, qty)
    BY <2>5, <2>7, <2>8, <2>9, <2>10 DEF Shared
  <2> QED BY <2>11 DEF res
<1> QED BY <1>9, <1>10

\* Select closes the shares of all lots.
LEMMA SelectShares ==
  ASSUME NEW open, Stock(open), NEW qty \in Nat
  PROVE  Shared(Select(open, qty), Queue(open), Cardinality(open), qty)
<1> DEFINE q == Queue(open)
           N == Cardinality(open)
<1>0. N \in Nat /\ Lists(q, open)
  BY QueueLists, FS_CardinalityType DEF Stock
<1>1. PICK f : Runs(f, open, qty, N) /\ Select(open, qty) = f[N]
  BY SelectIsRun
<1>2. /\ f[0] = [closures |-> <<>>, unmatched |-> qty]
      /\ \A m \in Nat : m + 1 <= N => f[m + 1] = Allocate(f[m], q[m + 1])
  BY <1>0, <1>1 DEF Runs
<1>3. Upto(q, 0) = 0
  BY <1>0, FrontHolds
<1> HIDE DEF q, N
<1> DEFINE P == {m \in Nat : m <= N => Shared(f[m], q, m, qty)}
<1>4. 0 \in P
  <2>1. qty = Over(qty, 0)
    BY DEF Over
  <2>2. f[0].closures = <<>> /\ f[0].unmatched = Over(qty, Upto(q, 0))
    BY <1>2, <1>3, <2>1
  <2>3. <<>> \in Seq(Bookings) /\ Len(<<>>) = 0 /\ 1 .. 0 = {}
    OBVIOUS
  <2>4. Shared(f[0], q, 0, qty)
    BY <2>2, <2>3, Zenon DEF Shared
  <2> QED BY <2>4
<1>5. ASSUME NEW m \in Nat, m \in P PROVE m + 1 \in P
  <2> SUFFICES ASSUME m + 1 <= N PROVE Shared(f[m + 1], q, m + 1, qty)
    OBVIOUS
  <2>1. Shared(f[m], q, m, qty)
    BY <1>0, <1>5
  <2>2. Shared(Allocate(f[m], q[m + 1]), q, m + 1, qty)
    BY <1>0, <2>1, ShareStep DEF N
  <2> QED BY <1>2, <2>2
<1>6. N \in P
  <2> HIDE DEF P
  <2> QED BY <1>0, <1>4, <1>5, SetInduction
<1> QED BY <1>0, <1>1, <1>6 DEF q, N

\* The lots are finitely many and numbered as they were recorded.
StockInv ==
  /\ InventoryTypeOK
  /\ IsFiniteSet(stock)
  /\ \A l \in stock : l.id \in 1 .. Cardinality(stock)
  /\ \A a, b \in stock : a.id = b.id => a = b

\* The share of a lot is its part in the queue.
LEMMA ShareIsPart ==
  ASSUME Stock(stock), NEW q, Lists(q, stock), NEW qty \in Nat,
         NEW k \in 1 .. Cardinality(stock)
  PROVE  Share(q[k], qty) = Part(q, k, qty) /\ Part(q, k, qty) \in Nat
<1> DEFINE u == Upto(q, k - 1)
           r == q[k].remainingQty
<1>0. Cardinality(stock) \in Nat
  BY FS_CardinalityType DEF Stock
<1>1. k - 1 \in 0 .. Cardinality(stock)
  BY <1>0
<1>2. u \in Nat
  BY <1>1, FrontHolds
<1>3. q[k] \in Lot
  BY QueueOnce
<1>4. r \in Nat
  BY <1>3 DEF Lot
<1>5. Ahead(q[k]) = u
  <2>1. {m \in stock : InFrontOf(m, q[k])} = FrontOf(q, k - 1)
    BY FrontIs
  <2> QED BY <2>1 DEF Ahead, Upto
<1> HIDE DEF u, r
<1>6. Max({0, qty - u}) = Over(qty, u) /\ Over(qty, u) \in Nat
  <2>1. qty \in Int /\ u \in Int
    BY <1>2
  <2>2. Over(qty, u) \in Nat
    BY <1>2 DEF Over
  <2> QED BY <2>1, <2>2, MaxMin
<1>7. Min({r, Over(qty, u)}) = IF r < Over(qty, u) THEN r ELSE Over(qty, u)
  <2>1. r \in Int /\ Over(qty, u) \in Int
    BY <1>4, <1>6
  <2> QED BY <2>1, MaxMin
<1>8. Share(q[k], qty) = Min({r, Max({0, qty - u})})
  BY <1>5 DEF Share, r
<1>9. Part(q, k, qty) = IF r < Over(qty, u) THEN r ELSE Over(qty, u)
  BY DEF Part, r, u
<1> QED BY <1>4, <1>6, <1>7, <1>8, <1>9

\* Select answers first in, first out.
LEMMA StockIsFifo == StockInv => SelectIsFifo
<1> SUFFICES ASSUME StockInv, NEW qty \in Nat
             PROVE  LET answer == Select(stock, qty)
                        lotOf(c) == CHOOSE l \in stock : l.id = c.lot
                    IN  /\ ToSet(answer.closures) =
                             {[lot |-> l.id, qty |-> Share(l, qty)] :
                                l \in {m \in stock : Share(m, qty) > 0}}
                        /\ \A i, j \in 1 .. Len(answer.closures) :
                             i < j => InFrontOf(lotOf(answer.closures[i]),
                                                lotOf(answer.closures[j]))
                        /\ answer.unmatched = Max({0, qty - Held(stock)})
  <2>1. MaxQty * MaxLots + 1 \in Nat
    BY InventoryAssumption
  <2>2. \A x \in Nat : \A qty \in 1 .. x : qty \in Nat
    OBVIOUS
  <2> QED BY <2>1, <2>2 DEF SelectIsFifo, StockInv
<1> DEFINE q == Queue(stock)
           N == Cardinality(stock)
           answer == Select(stock, qty)
           cl == answer.closures
           lotOf(c) == CHOOSE l \in stock : l.id = c.lot
<1>1. Stock(stock)
  BY DEF StockInv, InventoryTypeOK, Stock
<1>2. N \in Nat /\ Lists(q, stock) /\ Shared(answer, q, N, qty)
  BY <1>1, QueueLists, SelectShares, FS_CardinalityType DEF Stock
<1> HIDE DEF q, answer
<1>3. \A k \in 1 .. N : /\ q[k] \in stock
                        /\ Share(q[k], qty) = Part(q, k, qty)
  BY <1>1, <1>2, QueueOnce, ShareIsPart
<1>4. \A l \in stock : \E k \in 1 .. N : l = q[k]
  BY <1>2 DEF Lists
<1>5. /\ cl \in Seq(Bookings) /\ DOMAIN cl = 1 .. Len(cl)
      /\ answer.unmatched = Over(qty, Upto(q, N))
      /\ \A k \in 1 .. Len(cl) :
           \E j \in 1 .. N : Part(q, j, qty) > 0 /\ cl[k] = Booked(q, j, qty)
      /\ \A j \in 1 .. N : Part(q, j, qty) > 0 =>
           \E k \in 1 .. Len(cl) : cl[k] = Booked(q, j, qty)
      /\ \A k, l \in 1 .. Len(cl) : k < l =>
           \E i, j \in 1 .. N : i < j /\ cl[k].lot = q[i].id /\ cl[l].lot = q[j].id
  BY <1>2 DEF Shared
<1>6. ToSet(cl) = {[lot |-> l.id, qty |-> Share(l, qty)] :
                     l \in {m \in stock : Share(m, qty) > 0}}
  <2> DEFINE F == {[lot |-> l.id, qty |-> Share(l, qty)] :
                     l \in {m \in stock : Share(m, qty) > 0}}
  <2>1. ASSUME NEW k \in 1 .. Len(cl) PROVE cl[k] \in F
    <3>1. PICK j \in 1 .. N : Part(q, j, qty) > 0 /\ cl[k] = Booked(q, j, qty)
      BY <1>5
    <3>2. /\ q[j] \in stock /\ Share(q[j], qty) > 0
          /\ cl[k] = [lot |-> q[j].id, qty |-> Share(q[j], qty)]
      BY <1>3, <3>1 DEF Booked
    <3> QED BY <3>2
  <2>2. ASSUME NEW l \in stock, Share(l, qty) > 0
        PROVE  \E k \in 1 .. Len(cl) : cl[k] = [lot |-> l.id, qty |-> Share(l, qty)]
    <3>1. PICK j \in 1 .. N : l = q[j]
      BY <1>4
    <3>2. Part(q, j, qty) > 0 /\ Booked(q, j, qty) = [lot |-> l.id, qty |-> Share(l, qty)]
      BY <1>3, <2>2, <3>1 DEF Booked
    <3> QED BY <1>5, <3>2
  <2>3. ToSet(cl) = {cl[k] : k \in 1 .. Len(cl)}
    BY <1>5 DEF ToSet
  <2> QED BY <2>1, <2>2, <2>3
<1>7. ASSUME NEW i \in 1 .. Len(cl), NEW j \in 1 .. Len(cl), i < j
      PROVE  InFrontOf(lotOf(cl[i]), lotOf(cl[j]))
  <2>1. PICK a, b \in 1 .. N : a < b /\ cl[i].lot = q[a].id /\ cl[j].lot = q[b].id
    BY <1>5, <1>7
  <2>2. ASSUME NEW c, NEW k \in 1 .. N, c.lot = q[k].id PROVE lotOf(c) = q[k]
    <3>1. q[k] \in stock /\ \A l \in stock : l.id = c.lot => l = q[k]
      BY <1>1, <1>3, <2>2 DEF Stock
    <3> QED BY <2>2, <3>1
  <2>3. lotOf(cl[i]) = q[a] /\ lotOf(cl[j]) = q[b]
    BY <2>1, <2>2
  <2>4. Older(q[a], q[b])
    BY <1>2, <2>1 DEF Lists
  <2> HIDE DEF lotOf
  <2> QED BY <2>3, <2>4 DEF Older, InFrontOf
<1>8. answer.unmatched = Max({0, qty - Held(stock)})
  <2>1. Upto(q, N) = Held(stock)
    BY <1>1, <1>2, FrontIs DEF Upto
  <2>2. Upto(q, N) \in Int /\ qty \in Int
    <3>1. N \in 0 .. N
      BY <1>2
    <3>2. Upto(q, N) \in Nat
      BY <1>1, <1>2, <3>1, FrontHolds
    <3> QED BY <3>2
  <2>3. Max({0, qty - Upto(q, N)}) = Over(qty, Upto(q, N))
    BY ONLY <2>2, MaxMin
  <2> QED BY ONLY <1>5, <2>1, <2>3
<1> QED BY <1>6, <1>7, <1>8 DEF answer

\* The lots of stock with something left, and what a sell of qty closes of l.
Left == {l \in stock : l.remainingQty > 0}
Closed(l, qty) == {c \in ToSet(Select(Left, qty).closures) : c.lot = l.id}

\* No sell closes more of a lot than it has.
LEMMA ClosedAtMost ==
  ASSUME StockInv, NEW qty \in Nat, NEW l \in stock
  PROVE  Total(Closed(l, qty)) \in Nat /\ Total(Closed(l, qty)) <= l.remainingQty
<1> DEFINE q == Queue(Left)
           N == Cardinality(Left)
           cl == Select(Left, qty).closures
<1>1. Stock(Left)
  <2>1. IsFiniteSet(Left)
    BY FS_Subset DEF StockInv, Left
  <2> QED BY <2>1 DEF StockInv, InventoryTypeOK, Stock, Left
<1>2. Lists(q, Left) /\ ClosesOnce(cl, q, N)
  BY <1>1, QueueLists, SelectAllocates DEF Allocated
<1>3. l \in Lot
  BY DEF StockInv, InventoryTypeOK
<1>4. l.remainingQty \in Nat
  BY <1>3 DEF Lot
<1> HIDE DEF q, N, cl
<1>5. Closed(l, qty) = {c \in {cl[k] : k \in 1 .. Len(cl)} : c.lot = l.id}
  <2>1. DOMAIN cl = 1 .. Len(cl)
    BY <1>2 DEF ClosesOnce
  <2> QED BY <2>1 DEF Closed, ToSet, cl
<1>6. CASE \E k \in 1 .. Len(cl) : cl[k].lot = l.id
  <2>1. PICK k \in 1 .. Len(cl) : cl[k].lot = l.id
    BY <1>6
  <2>2. \A m \in 1 .. Len(cl) : cl[m].lot = l.id => m = k
    BY <1>2, <2>1 DEF ClosesOnce
  <2>3. Closed(l, qty) = {cl[k]}
    BY <1>5, <2>1, <2>2
  <2>4. PICK j \in 1 .. N : cl[k].lot = q[j].id /\ cl[k].qty <= q[j].remainingQty
    BY <1>2 DEF ClosesOnce
  <2>5. q[j] = l
    <3>1. q[j] \in stock
      BY <1>2 DEF Lists, Left, N
    <3> QED BY <2>1, <2>4, <3>1 DEF StockInv
  <2>6. cl[k].qty \in Nat
    <3>1. cl[k] \in Bookings
      BY <1>2 DEF ClosesOnce
    <3> QED BY <3>1 DEF Bookings
  <2>7. Total({cl[k]}) = cl[k].qty
    BY <2>6, TotalOne
  <2> QED BY <2>3, <2>4, <2>5, <2>6, <2>7
<1>7. CASE ~\E k \in 1 .. Len(cl) : cl[k].lot = l.id
  <2>1. Closed(l, qty) = {}
    BY <1>5, <1>7
  <2> QED BY <1>4, <2>1, TotalEmpty
<1> QED BY <1>6, <1>7

\* A sell leaves the lots their IDs, and none with less than nothing.
LEMMA SellKeepsStock == ASSUME StockInv, NEW qty \in Nat, Sell(qty) PROVE StockInv'
<1> DEFINE less(l) == [l EXCEPT !.remainingQty = @ - Total(Closed(l, qty))]
           f == [l \in stock |-> less(l)]
<1>1. /\ stock' = {less(l) : l \in stock}
      /\ UNCHANGED <<buys, filledQty, avgFillPrice>>
  BY DEF Sell, Closed, Left, Total
<1>2. ASSUME NEW l \in stock PROVE less(l) \in Lot /\ less(l).id = l.id
  <2> DEFINE t == Total(Closed(l, qty))
  <2>1. l \in Lot
    BY DEF StockInv, InventoryTypeOK
  <2>2. t \in Nat /\ t <= l.remainingQty
    BY ClosedAtMost
  <2> HIDE DEF t
  <2>3. l.remainingQty - t \in Nat
    BY <2>1, <2>2 DEF Lot
  <2>4. [l EXCEPT !.remainingQty = @ - t] \in Lot
    BY <2>1, <2>3 DEF Lot
  <2>5. [l EXCEPT !.remainingQty = @ - t].id = l.id
    BY <2>1 DEF Lot
  <2> QED BY <2>4, <2>5 DEF t
<1> HIDE DEF less
<1>3. IsFiniteSet(stock') /\ Cardinality(stock') = Cardinality(stock)
  <2>1. f \in Bijection(stock, stock')
    <3>1. f \in [stock -> stock'] /\ \A x \in stock' : \E l \in stock : f[l] = x
      BY <1>1
    <3>2. \A a, b \in stock : f[a] = f[b] => a = b
      BY <1>2 DEF StockInv
    <3> QED BY <3>1, <3>2 DEF Bijection, Injection, Surjection, IsInjective
  <2>2. ExistsBijection(stock, stock')
    BY <2>1 DEF ExistsBijection
  <2>3. IsFiniteSet(stock)
    BY DEF StockInv
  <2> QED BY <2>2, <2>3, FS_Bijection
<1>4. \A l \in stock' : l.id \in 1 .. Cardinality(stock')
  BY <1>1, <1>2, <1>3 DEF StockInv
<1>5. \A a, b \in stock' : a.id = b.id => a = b
  BY <1>1, <1>2 DEF StockInv
<1>6. InventoryTypeOK'
  BY <1>1, <1>2 DEF StockInv, InventoryTypeOK
<1> QED BY <1>3, <1>4, <1>5, <1>6 DEF StockInv

\* Averages are whole numbers of units.
LEMMA AverageType ==
  ASSUME InventoryTypeOK, NEW qty \in Nat \ {0}, NEW price \in Nat
  PROVE  Average(qty, price) \in Nat
<1> DEFINE a == avgFillPrice
           f == filledQty
           y == price * Scale
<1>1. a \in Nat /\ f \in Nat /\ y \in Nat
  BY InventoryAssumption, Products DEF InventoryTypeOK
<1> HIDE DEF a, f, y
<1>2. a * f \in Nat /\ y * qty \in Nat
  BY <1>1, Products
<1>3. a * f + y * qty \in Nat /\ f + qty \in Nat /\ f + qty > 0
  BY <1>1, <1>2
<1>4. Rounded(a * f + y * qty, f + qty) \in Nat
  BY <1>3, RoundedIs
<1> QED BY <1>1, <1>4 DEF Average, a, f, y

\* A buy adds a lot under the next ID.
LEMMA BuyKeepsStock ==
  ASSUME StockInv, NEW qty \in 1 .. MaxQty, NEW at \in Times, NEW price \in Prices,
         Buy(qty, at, price)
  PROVE  StockInv'
<1> DEFINE n == Cardinality(stock)
           new == [id |-> n + 1, openedAt |-> at, remainingQty |-> qty]
<1>1. qty \in Nat \ {0} /\ at \in Nat /\ price \in Nat
  BY InventoryAssumption
<1>2. n \in Nat
  BY FS_CardinalityType DEF StockInv
<1>3. stock' = stock \cup {new} /\ new \in Lot /\ new.id = n + 1
  BY <1>1, <1>2 DEF Buy, Lot
<1>4. \A l \in stock : l.id \in 1 .. n /\ l.id # n + 1
  BY <1>2 DEF StockInv
<1> HIDE DEF new, n
<1>5. IsFiniteSet(stock') /\ Cardinality(stock') = n + 1
  BY <1>3, <1>4, FS_AddElement DEF StockInv, n
<1>6. \A l \in stock' : l.id \in 1 .. Cardinality(stock')
  BY <1>2, <1>3, <1>4, <1>5
<1>7. \A a, b \in stock' : a.id = b.id => a = b
  BY <1>3, <1>4 DEF StockInv
<1>8. InventoryTypeOK'
  <2>1. stock' \subseteq Lot
    BY <1>3 DEF StockInv, InventoryTypeOK
  <2>2. buys' \in Seq([qty : 1 .. MaxQty, price : Prices])
    BY DEF StockInv, InventoryTypeOK, Buy
  <2>3. filledQty' \in Nat
    BY <1>1 DEF StockInv, InventoryTypeOK, Buy
  <2>4. avgFillPrice' \in Nat
    BY <1>1, AverageType DEF StockInv, Buy
  <2> QED BY <2>1, <2>2, <2>3, <2>4 DEF InventoryTypeOK
<1> QED BY <1>5, <1>6, <1>7, <1>8 DEF StockInv

\* Every fill keeps the lots numbered and typed.
LEMMA StockInvariance == InventorySpec => []StockInv
<1>1. InventoryInit => StockInv
  <2> SUFFICES ASSUME InventoryInit PROVE StockInv
    OBVIOUS
  <2>1. IsFiniteSet(stock)
    BY FS_EmptySet DEF InventoryInit
  <2> QED BY <2>1 DEF InventoryInit, StockInv, InventoryTypeOK, Null
<1>2. StockInv /\ [InventoryNext]_inventoryVars => StockInv'
  <2> SUFFICES ASSUME StockInv, [InventoryNext]_inventoryVars PROVE StockInv'
    OBVIOUS
  <2>1. CASE InventoryNext
    <3>1. PICK qty \in 1 .. MaxQty :
            \/ Sell(qty)
            \/ \E at \in Times, price \in Prices : Buy(qty, at, price)
      BY <2>1 DEF InventoryNext
    <3>2. qty \in Nat
      BY InventoryAssumption
    <3> QED BY <3>1, <3>2, SellKeepsStock, BuyKeepsStock
  <2>2. CASE UNCHANGED inventoryVars
    BY <2>2 DEF inventoryVars, StockInv, InventoryTypeOK
  <2> QED BY <2>1, <2>2
<1> QED BY <1>1, <1>2, PTL DEF InventorySpec

\* FIFO.Select answers first in, first out for every inventory that fills can
\* leave behind, however many lots it has and whatever venue times they carry.
THEOREM FifoHolds == InventorySpec => []SelectIsFifo
BY StockInvariance, StockIsFifo, PTL

--------------------------------------------------------------------------------
(* The average price. *)

\* A fill of the buying order.
Bought == [qty : Nat, price : Nat]

\* f is what the fills of s have paid after each of them.
Pays(f, s) == f = [k \in 0 .. Len(s) |->
                     IF k = 0 THEN 0 ELSE f[k - 1] + s[k].qty * s[k].price]
Paid(s) == (CHOOSE f : Pays(f, s))[Len(s)]

\* One more fill pays its quantity times its price.
LEMMA PaysMore ==
  ASSUME NEW s \in Seq(Bought), NEW x, NEW f, Pays(f, s)
  PROVE  \E g : /\ Pays(g, Append(s, x))
                /\ g[Len(s) + 1] = f[Len(s)] + x.qty * x.price
<1> DEFINE n == Len(s)
           t == Append(s, x)
           g == [k \in 0 .. n + 1 |->
                   IF k = 0 THEN 0 ELSE f[k - 1] + t[k].qty * t[k].price]
<1>1. n \in Nat /\ Len(t) = n + 1 /\ t[n + 1] = x /\ \A k \in 1 .. n : t[k] = s[k]
  OBVIOUS
<1> HIDE DEF n, t
<1>2. \A k \in 0 .. n : f[k] = IF k = 0 THEN 0 ELSE f[k - 1] + s[k].qty * s[k].price
  BY DEF Pays, n
<1>3. \A k \in 0 .. n : k \in 0 .. n + 1 /\ (k # 0 => k \in 1 .. n)
  BY <1>1
<1>4. \A k \in 0 .. n : g[k] = f[k]
  BY <1>1, <1>2, <1>3
<1>5. \A k \in 0 .. n + 1 : k # 0 => k - 1 \in 0 .. n
  BY <1>1
<1>6. \A k \in 0 .. n + 1 : k # 0 => g[k] = g[k - 1] + t[k].qty * t[k].price
  BY <1>4, <1>5
<1>7. n + 1 \in 0 .. n + 1 /\ n + 1 # 0 /\ (n + 1) - 1 = n
  BY <1>1
<1>8. g[n + 1] = f[n] + x.qty * x.price
  BY <1>1, <1>7
<1>9. g[0] = 0 /\ DOMAIN g = 0 .. n + 1 /\ g = [k \in 0 .. n + 1 |-> g[k]]
  BY <1>1
<1> HIDE DEF g
<1>10. g = [k \in 0 .. n + 1 |-> IF k = 0 THEN 0 ELSE g[k - 1] + t[k].qty * t[k].price]
  BY <1>6, <1>9
<1>11. Pays(g, t)
  BY <1>1, <1>10 DEF Pays
<1> QED BY <1>8, <1>11 DEF n, t

\* What two such functions say of the first k fills is the same.
LEMMA PaysOnce ==
  ASSUME NEW s \in Seq(Bought), NEW f, Pays(f, s), NEW g, Pays(g, s)
  PROVE  f[Len(s)] = g[Len(s)] /\ f[Len(s)] \in Nat
<1> DEFINE P == {k \in Nat : k <= Len(s) => f[k] = g[k] /\ f[k] \in Nat}
<1>0. Len(s) \in Nat
  OBVIOUS
<1>r. /\ \A k \in 0 .. Len(s) :
           f[k] = IF k = 0 THEN 0 ELSE f[k - 1] + s[k].qty * s[k].price
      /\ \A k \in 0 .. Len(s) :
           g[k] = IF k = 0 THEN 0 ELSE g[k - 1] + s[k].qty * s[k].price
  BY DEF Pays
<1>1. 0 \in P
  BY <1>0, <1>r
<1>2. ASSUME NEW k \in Nat, k \in P PROVE k + 1 \in P
  <2> SUFFICES ASSUME k + 1 <= Len(s) PROVE f[k + 1] = g[k + 1] /\ f[k + 1] \in Nat
    OBVIOUS
  <2>1. k + 1 \in 0 .. Len(s) /\ k + 1 # 0 /\ (k + 1) - 1 = k /\ k + 1 \in 1 .. Len(s)
    BY <1>0
  <2>2. f[k] = g[k] /\ f[k] \in Nat
    BY <1>0, <1>2
  <2>3. /\ f[k + 1] = f[k] + s[k + 1].qty * s[k + 1].price
        /\ g[k + 1] = g[k] + s[k + 1].qty * s[k + 1].price
    BY <1>r, <2>1
  <2>4. s[k + 1] \in Bought
    BY <2>1
  <2>5. s[k + 1].qty \in Nat /\ s[k + 1].price \in Nat
    BY <2>4 DEF Bought
  <2>6. s[k + 1].qty * s[k + 1].price \in Nat
    BY <2>5, Products
  <2> QED BY <2>2, <2>3, <2>6
<1>3. \A k \in Nat : k \in P
  <2> HIDE DEF P
  <2> QED BY <1>1, <1>2, SetInduction
<1> QED BY <1>0, <1>3

\* Some function says what the fills have paid.
LEMMA PaysExist == \A s \in Seq(Bought) : \E f : Pays(f, s)
<1> DEFINE P == {n \in Nat : \A s \in Seq(Bought) : Len(s) = n => \E f : Pays(f, s)}
<1>1. 0 \in P
  <2> SUFFICES ASSUME NEW s \in Seq(Bought), Len(s) = 0 PROVE \E f : Pays(f, s)
    OBVIOUS
  <2> DEFINE f == [k \in 0 .. 0 |-> 0]
  <2>1. Pays(f, s)
    BY DEF Pays
  <2> QED BY <2>1
<1>2. ASSUME NEW n \in Nat, n \in P PROVE n + 1 \in P
  <2> SUFFICES ASSUME NEW s \in Seq(Bought), Len(s) = n + 1 PROVE \E f : Pays(f, s)
    OBVIOUS
  <2> DEFINE r == SubSeq(s, 1, n)
             x == s[n + 1]
  <2>1. r \in Seq(Bought) /\ Len(r) = n /\ s = Append(r, x)
    OBVIOUS
  <2>2. PICK f : Pays(f, r)
    BY <1>2, <2>1
  <2> HIDE DEF r, x
  <2> QED BY <2>1, <2>2, PaysMore
<1>3. \A n \in Nat : n \in P
  <2> HIDE DEF P
  <2> QED BY <1>1, <1>2, SetInduction
<1>4. \A s \in Seq(Bought) : Len(s) \in Nat
  OBVIOUS
<1> QED BY <1>3, <1>4

\* What the fills have paid, as they come.
LEMMA PaidMore ==
  /\ Paid(<<>>) = 0
  /\ \A s \in Seq(Bought) : Paid(s) \in Nat
  /\ \A s \in Seq(Bought), x \in Bought :
       Paid(Append(s, x)) = Paid(s) + x.qty * x.price
<1>1. ASSUME NEW s \in Seq(Bought)
      PROVE  /\ Pays(CHOOSE f : Pays(f, s), s) /\ Paid(s) \in Nat
             /\ \A f : Pays(f, s) => Paid(s) = f[Len(s)]
  <2> DEFINE h == CHOOSE f : Pays(f, s)
  <2>1. Pays(h, s)
    BY PaysExist
  <2>2. Paid(s) = h[Len(s)]
    BY DEF Paid
  <2> HIDE DEF h
  <2>3. h[Len(s)] \in Nat /\ \A f : Pays(f, s) => h[Len(s)] = f[Len(s)]
    BY <2>1, PaysOnce
  <2> QED BY <2>1, <2>2, <2>3 DEF h
<1>2. Paid(<<>>) = 0
  <2>1. <<>> \in Seq(Bought) /\ Len(<<>>) = 0
    OBVIOUS
  <2> DEFINE f == [k \in 0 .. 0 |-> 0]
  <2>2. Pays(f, <<>>) /\ f[0] = 0
    BY DEF Pays
  <2> HIDE DEF f
  <2>3. Paid(<<>>) = f[Len(<<>>)]
    BY <1>1, <2>1, <2>2
  <2> QED BY <2>1, <2>2, <2>3
<1>3. ASSUME NEW s \in Seq(Bought), NEW x \in Bought
      PROVE  Paid(Append(s, x)) = Paid(s) + x.qty * x.price
  <2>1. PICK f : Pays(f, s)
    BY PaysExist
  <2>2. PICK g : Pays(g, Append(s, x)) /\ g[Len(s) + 1] = f[Len(s)] + x.qty * x.price
    BY <2>1, PaysMore
  <2>3. Append(s, x) \in Seq(Bought) /\ Len(Append(s, x)) = Len(s) + 1
    OBVIOUS
  <2>4. Paid(s) = f[Len(s)]
    BY <1>1, <2>1
  <2>5. Paid(Append(s, x)) = g[Len(Append(s, x))]
    BY <1>1, <2>2, <2>3
  <2> QED BY <2>2, <2>3, <2>4, <2>5
<1> QED BY <1>1, <1>2, <1>3

\* The fills of s with a price.
Priced(s) == {i \in DOMAIN s : s[i].price > 0}

\* AverageAgrees, of fills s with quantity f in all and an average of a.
Agrees(a, s, f) ==
  /\ s = <<>> => f = 0
  /\ a = 0 <=> Priced(s) = {}
  /\ Priced(s) = DOMAIN s =>
       /\ Error(a, f, Scale * Paid(s)) <= Len(s) * f
       /\ -Error(a, f, Scale * Paid(s)) <= Len(s) * f
  /\ Priced(s) # {} => /\ \E i \in Priced(s) : s[i].price * Scale <= a
                       /\ \E i \in Priced(s) : a <= s[i].price * Scale

\* t is s with one more fill x.
FilledMore(s, x, t) ==
  /\ t # <<>> /\ DOMAIN t = 1 .. Len(s) + 1 /\ DOMAIN s = 1 .. Len(s)
  /\ Len(s) \in Nat /\ Len(s) + 1 \in DOMAIN t /\ Len(s) + 1 \notin DOMAIN s
  /\ t[Len(s) + 1] = x /\ \A i \in DOMAIN s : i \in DOMAIN t /\ t[i] = s[i]
  /\ x.price = 0 => Priced(t) = Priced(s)
  /\ x.price > 0 => Priced(t) = Priced(s) \cup {Len(s) + 1}

\* One more fill is one more price, if it has one.
LEMMA PricedMore ==
  ASSUME NEW s \in Seq(Bought), NEW x \in Bought
  PROVE  FilledMore(s, x, Append(s, x))
<1> DEFINE n == Len(s)
           t == Append(s, x)
<1>1. /\ t # <<>> /\ DOMAIN t = 1 .. n + 1 /\ DOMAIN s = 1 .. n
      /\ n \in Nat /\ t[n + 1] = x /\ \A i \in 1 .. n : t[i] = s[i]
  OBVIOUS
<1> HIDE DEF n, t
<1>2. \A i : i \in 1 .. n + 1 <=> i \in 1 .. n \/ i = n + 1
  BY <1>1
<1>3. n + 1 \notin 1 .. n
  BY <1>1
<1>4. ~(0 > 0)
  OBVIOUS
<1>5. x.price = 0 => Priced(t) = Priced(s)
  BY <1>1, <1>2, <1>4 DEF Priced
<1>6. x.price > 0 => Priced(t) = Priced(s) \cup {n + 1}
  BY <1>1, <1>2 DEF Priced
<1>7. FilledMore(s, x, t)
  BY <1>1, <1>2, <1>3, <1>5, <1>6 DEF n, FilledMore
<1> QED BY <1>7 DEF t

\* A fill without a price changes nothing the average has to agree with.
LEMMA NoPrice ==
  ASSUME NEW s \in Seq(Bought), NEW x \in Bought, x.price = 0,
         NEW a, NEW f, NEW g, Agrees(a, s, f)
  PROVE  Agrees(a, Append(s, x), g)
<1> DEFINE t == Append(s, x)
           n == Len(s)
<1>1. /\ t # <<>> /\ Priced(t) = Priced(s) /\ n + 1 \in DOMAIN t
      /\ n + 1 \notin DOMAIN s /\ \A i \in DOMAIN s : t[i] = s[i]
  <2>1. FilledMore(s, x, t)
    BY PricedMore
  <2> HIDE DEF t
  <2> QED BY <2>1 DEF FilledMore
<1>2. Priced(s) \subseteq DOMAIN s
  BY DEF Priced
<1>3. Priced(t) # DOMAIN t
  BY <1>1, <1>2
<1>4. \A i \in Priced(s) : t[i] = s[i]
  BY <1>1, <1>2
<1> HIDE DEF t, n
<1>5. Agrees(a, t, g)
  BY <1>1, <1>3, <1>4 DEF Agrees
<1> QED BY <1>5 DEF t

\* The first price after fills without one starts the average.
LEMMA FirstPrice ==
  ASSUME NEW s \in Seq(Bought), NEW x \in Bought, x.price > 0,
         NEW f \in Nat, f > 0, NEW g, Agrees(0, s, f)
  PROVE  Agrees(x.price * Scale, Append(s, x), g)
<1> DEFINE t == Append(s, x)
           n == Len(s)
           y == x.price * Scale
<1>1. /\ t # <<>> /\ Priced(t) = Priced(s) \cup {n + 1} /\ n + 1 \in DOMAIN t
      /\ t[n + 1] = x /\ DOMAIN s = 1 .. n /\ n \in Nat
      /\ \A i \in DOMAIN s : i \in DOMAIN t /\ i # n + 1
  <2>0. FilledMore(s, x, t)
    BY PricedMore
  <2> HIDE DEF t
  <2>1. /\ t # <<>> /\ Priced(t) = Priced(s) \cup {n + 1} /\ n + 1 \in DOMAIN t
        /\ t[n + 1] = x /\ DOMAIN s = 1 .. n /\ n \in Nat /\ n + 1 \notin DOMAIN s
        /\ \A i \in DOMAIN s : i \in DOMAIN t
    BY <2>0 DEF FilledMore
  <2> QED BY <2>1
<1>2. Priced(s) = {}
  BY DEF Agrees
<1>3. s # <<>>
  BY DEF Agrees
<1>4. 1 \in DOMAIN s
  BY <1>3
<1>5. Priced(t) # DOMAIN t
  BY <1>1, <1>2, <1>4
<1>6. x.price \in Nat /\ Scale \in Nat /\ Scale > 0
  BY InventoryAssumption DEF Bought
<1>7. y \in Nat /\ y > 0
  BY <1>6, Products
<1> HIDE DEF t, n, y
<1>8. Priced(t) # {} /\ n + 1 \in Priced(t) /\ t[n + 1].price * Scale = y
  BY <1>1 DEF y
<1>9. y <= y /\ y # 0
  BY <1>7
<1>10. Agrees(y, t, g)
  BY <1>1, <1>5, <1>8, <1>9 DEF Agrees
<1> QED BY <1>10 DEF t, y

\* Any other price is weighted in.
LEMMA MorePrice ==
  ASSUME NEW s \in Seq(Bought), NEW x \in Bought, NEW p, NEW d,
         p = x.price, d = x.qty, p > 0, d > 0,
         NEW a \in Nat, NEW f \in Nat, Agrees(a, s, f), a = 0 => f = 0
  PROVE  Agrees(Rounded(a * f + p * Scale * d, f + d), Append(s, x), f + d)
<1> DEFINE t == Append(s, x)
           n == Len(s)
           y == p * Scale
           q == Rounded(a * f + y * d, f + d)
<1>1. /\ t # <<>> /\ Priced(t) = Priced(s) \cup {n + 1} /\ Len(t) = n + 1 /\ n \in Nat
      /\ t[n + 1] = x /\ n + 1 \notin DOMAIN s /\ \A i \in DOMAIN s : t[i] = s[i]
      /\ DOMAIN s \subseteq DOMAIN t
  <2>1. FilledMore(s, x, t) /\ Len(t) = n + 1
    BY PricedMore
  <2> HIDE DEF t
  <2> QED BY <2>1 DEF FilledMore
<1>2. p \in Nat /\ d \in Nat /\ Scale \in Nat /\ Scale > 0
  BY InventoryAssumption DEF Bought
<1>3. y \in Nat /\ y > 0
  BY <1>2, Products
<1>4. /\ Paid(t) = Paid(s) + d * p /\ Paid(s) \in Nat
      /\ Scale * Paid(s) \in Nat /\ Scale * Paid(t) = Scale * Paid(s) + y * d
  <2>1. Paid(t) = Paid(s) + d * p /\ Paid(s) \in Nat
    BY PaidMore
  <2>2. d * p \in Nat /\ d * p = p * d /\ Scale * Paid(s) \in Nat
    BY <1>2, <2>1, Products
  <2>3. Scale * (d * p) = y * d
    <3>1. Scale * (p * d) = (Scale * p) * d /\ Scale * p = y
      BY <1>2, Products
    <3> QED BY ONLY <2>2, <3>1
  <2>4. Scale * (Paid(s) + d * p) = Scale * Paid(s) + Scale * (d * p)
    BY <1>2, <2>1, <2>2, Products
  <2> QED BY ONLY <2>1, <2>2, <2>3, <2>4
<1>5. Priced(s) \subseteq DOMAIN s
  BY DEF Priced
<1> HIDE DEF y
<1>6. ASSUME Priced(t) = DOMAIN t
      PROVE  /\ Error(q, f + d, Scale * Paid(t)) <= Len(t) * (f + d)
             /\ -Error(q, f + d, Scale * Paid(t)) <= Len(t) * (f + d)
  <2>1. Priced(s) = DOMAIN s
    BY <1>1, <1>5, <1>6
  <2>2. /\ Error(a, f, Scale * Paid(s)) <= n * f
        /\ -Error(a, f, Scale * Paid(s)) <= n * f
    BY <2>1 DEF Agrees
  <2>3. n \in Nat /\ Len(t) = n + 1 /\ Scale * Paid(s) \in Nat
    BY <1>1, <1>4
  <2> HIDE DEF t, n
  <2>4. \A u : u \in Nat /\ Error(a, f, u) <= n * f /\ -Error(a, f, u) <= n * f =>
          /\ Error(q, f + d, u + y * d) <= (n + 1) * (f + d)
          /\ -Error(q, f + d, u + y * d) <= (n + 1) * (f + d)
    BY <1>2, <1>3, <2>3, ErrorGrows
  <2> QED BY <1>4, <2>2, <2>3, <2>4
<1>7. /\ q \in Nat
      /\ y <= a \/ f = 0 => y <= q
      /\ a <= y \/ f = 0 => q <= y
      /\ \A z \in Nat : /\ y <= a /\ a <= z => q <= z
                        /\ a <= y /\ z <= a => z <= q
  <2>1. q = Weighed(a, f, y, d)
    BY DEF Weighed
  <2> HIDE DEF q
  <2>2. ASSUME NEW z \in Nat
        PROVE  /\ q \in Nat
               /\ y <= a \/ f = 0 => y <= q
               /\ a <= y \/ f = 0 => q <= y
               /\ y <= a /\ a <= z => q <= z
               /\ a <= y /\ z <= a => z <= q
    <3>1. /\ a \in Nat /\ f \in Nat /\ y \in Nat /\ d \in Nat /\ d > 0 /\ z \in Nat
      BY <1>2, <1>3
    <3>2. /\ Weighed(a, f, y, d) \in Nat
          /\ y <= a \/ f = 0 => y <= Weighed(a, f, y, d)
          /\ a <= y \/ f = 0 => Weighed(a, f, y, d) <= y
          /\ y <= a /\ a <= z => Weighed(a, f, y, d) <= z
          /\ a <= y /\ z <= a => z <= Weighed(a, f, y, d)
      BY ONLY <3>1, Between
    <3> QED BY ONLY <2>1, <3>2
  <2>3. 0 \in Nat
    OBVIOUS
  <2> QED BY <2>2, <2>3
<1> HIDE DEF q
<1>8. n + 1 \in Priced(t) /\ t[n + 1].price * Scale = y /\ t[n + 1].price > 0
  BY <1>1 DEF y
<1>9. ASSUME NEW i \in Priced(s)
      PROVE  /\ i \in Priced(t) /\ t[i].price = s[i].price
             /\ s[i].price * Scale \in Nat
  <2>1. i \in Priced(t) /\ t[i].price = s[i].price
    BY <1>1, <1>5
  <2>2. s[i] \in Bought
    BY <1>5
  <2>3. s[i].price \in Nat
    BY <2>2 DEF Bought
  <2> QED BY <1>2, <2>1, <2>3, Products
<1>10. /\ \E i \in Priced(t) : t[i].price * Scale <= q
       /\ \E i \in Priced(t) : q <= t[i].price * Scale
  <2>1. CASE a = 0
    <3>1. f = 0
      BY <2>1
    <3> QED BY <1>7, <1>8, <3>1
  <2>2. CASE a # 0
    <3>1. Priced(s) # {}
      BY <2>2 DEF Agrees
    <3>2. PICK i \in Priced(s) : s[i].price * Scale <= a
      BY <3>1 DEF Agrees
    <3>3. PICK j \in Priced(s) : a <= s[j].price * Scale
      BY <3>1 DEF Agrees
    <3>4. CASE y <= a
      <4>1. q <= t[j].price * Scale
        BY <1>7, <1>9, <3>3, <3>4
      <4> QED BY <1>7, <1>8, <1>9, <3>4, <4>1
    <3>5. CASE a <= y
      <4>1. t[i].price * Scale <= q
        BY <1>7, <1>9, <3>2, <3>5
      <4> QED BY <1>7, <1>8, <1>9, <3>5, <4>1
    <3>6. y <= a \/ a <= y
      BY <1>3
    <3> QED BY ONLY <3>4, <3>5, <3>6
  <2> QED BY <2>1, <2>2
<1>11. q # 0 /\ Priced(t) # {}
  <2>1. PICK i \in Priced(t) : t[i].price * Scale <= q
    BY <1>10
  <2>2. t[i] \in Bought /\ t[i].price > 0
    <3>1. t \in Seq(Bought)
      OBVIOUS
    <3> HIDE DEF t
    <3> QED BY <3>1 DEF Priced
  <2>3. t[i].price \in Nat
    BY <2>2 DEF Bought
  <2>4. t[i].price * Scale > 0 /\ t[i].price * Scale \in Nat
    BY <1>2, <2>2, <2>3, Products
  <2>5. \A z \in Nat : z > 0 /\ z <= q => q # 0
    BY <1>7
  <2> QED BY <2>1, <2>4, <2>5
<1> HIDE DEF t, n
<1>12. Agrees(q, t, f + d)
  BY <1>1, <1>6, <1>10, <1>11 DEF Agrees
<1> QED BY <1>12 DEF q, t, y

AverageInv == Agrees(avgFillPrice, buys, filledQty)

\* The average and the fills, with their types.
LEMMA BuysTyped ==
  ASSUME InventoryTypeOK
  PROVE  buys \in Seq(Bought) /\ filledQty \in Nat /\ avgFillPrice \in Nat
<1>1. [qty : 1 .. MaxQty, price : Prices] \subseteq Bought
  <2>1. 1 .. MaxQty \subseteq Nat /\ Prices \subseteq Nat
    BY InventoryAssumption
  <2>2. \A Q, P : Q \subseteq Nat /\ P \subseteq Nat => [qty : Q, price : P] \subseteq Bought
    BY DEF Bought
  <2> QED BY ONLY <2>1, <2>2
<1>2. buys \in Seq([qty : 1 .. MaxQty, price : Prices])
  BY DEF InventoryTypeOK
<1>3. buys \in Seq(Bought)
  <2>1. \A S, T, s : S \subseteq T /\ s \in Seq(S) => s \in Seq(T)
    OBVIOUS
  <2> QED BY ONLY <1>1, <1>2, <2>1
<1> QED BY <1>3 DEF InventoryTypeOK

\* The invariant is AverageAgrees.
LEMMA AverageIs == InventoryTypeOK /\ AverageInv => AverageAgrees
<1> SUFFICES ASSUME InventoryTypeOK, AverageInv PROVE AverageAgrees
  OBVIOUS
<1> DEFINE e == avgFillPrice * filledQty - Scale * Paid(buys)
<1>1. Error(avgFillPrice, filledQty, Scale * Paid(buys)) = 2 * e
  <2> DEFINE m == avgFillPrice * filledQty
             u == Scale * Paid(buys)
  <2>1. m \in Nat /\ u \in Nat
    BY BuysTyped, PaidMore, InventoryAssumption, Products
  <2> HIDE DEF m, u
  <2>2. 2 * m - 2 * u = 2 * (m - u)
    BY <2>1
  <2> QED BY <2>2 DEF m, u, Error
<1>2. /\ avgFillPrice = 0 <=> Priced(buys) = {}
      /\ Priced(buys) = DOMAIN buys =>
           /\ 2 * e <= Len(buys) * filledQty
           /\ -(2 * e) <= Len(buys) * filledQty
      /\ Priced(buys) # {} =>
           /\ \E i \in Priced(buys) : buys[i].price * Scale <= avgFillPrice
           /\ \E i \in Priced(buys) : avgFillPrice <= buys[i].price * Scale
  <2> HIDE DEF e
  <2> QED BY <1>1 DEF AverageInv, Agrees
<1> QED BY <1>2 DEF AverageAgrees, Priced, Paid, Pays, Null

\* A buy keeps the average in agreement.
LEMMA BuyAgrees ==
  ASSUME InventoryTypeOK, AverageInv,
         NEW qty \in 1 .. MaxQty, NEW at \in Times, NEW price \in Prices,
         Buy(qty, at, price)
  PROVE  AverageInv'
<1> DEFINE a == avgFillPrice
           f == filledQty
           x == [qty |-> qty, price |-> price]
<1>1. /\ qty \in Nat /\ qty > 0 /\ price \in Nat
      /\ x \in Bought /\ x.qty = qty /\ x.price = price
  BY InventoryAssumption DEF Bought
<1>2. /\ buys' = Append(buys, x) /\ filledQty' = f + qty
      /\ avgFillPrice' = Average(qty, price)
  BY DEF Buy
<1>3. buys \in Seq(Bought) /\ f \in Nat /\ a \in Nat
  BY BuysTyped
<1>4. Agrees(a, buys, f)
  BY DEF AverageInv
<1> HIDE DEF x
<1>5. CASE price = 0
  <2>1. Average(qty, price) = a
    BY <1>5 DEF Average
  <2>2. Agrees(a, Append(buys, x), f + qty)
    BY ONLY <1>1, <1>3, <1>4, <1>5, NoPrice
  <2> QED BY <1>2, <2>1, <2>2 DEF AverageInv
<1>6. CASE price > 0 /\ a = Null /\ f > 0
  <2>1. Average(qty, price) = price * Scale
    BY <1>1, <1>6 DEF Average
  <2>2. Agrees(0, buys, f)
    BY <1>4, <1>6 DEF Null
  <2>3. Agrees(price * Scale, Append(buys, x), f + qty)
    BY ONLY <1>1, <1>3, <1>6, <2>2, FirstPrice
  <2> QED BY <1>2, <2>1, <2>3 DEF AverageInv
<1>7. CASE price > 0 /\ ~(a = Null /\ f > 0)
  <2>1. Average(qty, price) = Rounded(a * f + price * Scale * qty, f + qty)
    BY <1>1, <1>7 DEF Average
  <2>2. a = 0 => f = 0
    BY <1>3, <1>7 DEF Null
  <2>3. Agrees(Rounded(a * f + price * Scale * qty, f + qty),
               Append(buys, x), f + qty)
    <3> HIDE DEF a, f
    <3>1. price = x.price /\ qty = x.qty
      BY <1>1
    <3> QED BY ONLY <1>1, <1>3, <1>4, <1>7, <2>2, <3>1, MorePrice
  <2> QED BY <1>2, <2>1, <2>3 DEF AverageInv
<1> QED BY <1>1, <1>5, <1>6, <1>7

\* avgFillPrice keeps the volume weighted average of an order's fills, from its
\* last value alone and rounding it at each of them: for any number of fills, any
\* prices, some missing, and any number of decimal places, it is off by half a
\* unit of the last place for each fill at most, and stays between the prices.
THEOREM AverageHolds == InventorySpec => []AverageAgrees
<1>1. InventoryInit => AverageInv
  <2> SUFFICES ASSUME InventoryInit PROVE AverageInv
    OBVIOUS
  <2>1. buys = <<>> /\ filledQty = 0 /\ avgFillPrice = 0
    BY DEF InventoryInit, Null
  <2>2. Priced(<<>>) = {} /\ Len(<<>>) = 0
    BY DEF Priced
  <2>3. Scale * Paid(<<>>) = 0
    BY PaidMore, InventoryAssumption
  <2>4. Error(0, 0, 0) <= 0 * 0 /\ -Error(0, 0, 0) <= 0 * 0
    BY DEF Error
  <2> QED BY <2>1, <2>2, <2>3, <2>4 DEF AverageInv, Agrees
<1>2. InventoryTypeOK /\ AverageInv /\ [InventoryNext]_inventoryVars => AverageInv'
  <2> SUFFICES ASSUME InventoryTypeOK, AverageInv, [InventoryNext]_inventoryVars
               PROVE  AverageInv'
    OBVIOUS
  <2>1. ASSUME NEW qty \in 1 .. MaxQty, Sell(qty) PROVE AverageInv'
    BY <2>1 DEF Sell, AverageInv
  <2>2. CASE UNCHANGED inventoryVars
    BY <2>2 DEF inventoryVars, AverageInv
  <2> QED BY <2>1, <2>2, BuyAgrees DEF InventoryNext
<1>3. StockInv => InventoryTypeOK
  BY DEF StockInv
<1> QED BY <1>1, <1>2, <1>3, StockInvariance, AverageIs, PTL DEF InventorySpec

================================================================================
