-------------------------- MODULE MissingnessProofs --------------------------
(***************************************************************************)
(* mcNemarExact is the two-sided exact binomial test: for any two counts,  *)
(* the doubled tail of binomial coefficients that Gate takes over from     *)
(* missingness.go is the number of ways fair coins fall as unevenly.       *)
(***************************************************************************)
EXTENDS Gate, FiniteSetTheorems, FunctionTheorems, WellFoundedInduction, TLAPS

\* Induction over a set of numbers.
LEMMA Successors ==
  ASSUME NEW S, 0 \in S, \A n \in Nat : n \in S => n + 1 \in S
  PROVE  \A n \in Nat : n \in S
<1>1. SUFFICES ASSUME Nat \ S # {} PROVE FALSE
  BY Zenon
<1>2. PICK i \in Nat \ S : \A j \in Nat \ S : <<j, i>> \notin OpToRel(<, Nat)
  BY <1>1, WFMin, NatLessThanWellFounded, Zenon
<1>3. \A j \in Nat \ S : ~(j < i)
  BY <1>2, Zenon DEF OpToRel
<1>4. i # 0 /\ i - 1 \in Nat /\ i - 1 < i
  OBVIOUS
<1>5. i - 1 \in S
  BY <1>3, <1>4
<1>6. QED
  BY <1>4, <1>5

\* The recursive definition of factorial defines it: its first values exist, up
\* to any number, and are the same up to every number.
LEMMA Factorial == \A n \in Nat : /\ factorial[n] \in Nat \ {0}
                                  /\ factorial[n] = IF n = 0 THEN 1 ELSE n * factorial[n - 1]
<1> DEFINE UpTo(m, g) == /\ g \in [0..m -> Nat \ {0}]
                         /\ \A n \in 0..m : g[n] = IF n = 0 THEN 1 ELSE n * g[n - 1]
           S == {m \in Nat : \E g : UpTo(m, g)}
           h == [n \in Nat |-> (CHOOSE g : UpTo(n, g))[n]]
<1>1. \A m \in Nat : \E g : UpTo(m, g)
  <2>1. 0 \in S
    <3>1. UpTo(0, [n \in 0..0 |-> 1])
      OBVIOUS
    <3>2. QED
      BY <3>1
  <2>2. ASSUME NEW m \in Nat, m \in S PROVE m + 1 \in S
    <3>1. PICK g : UpTo(m, g)
      BY <2>2
    <3>2. \E e : UpTo(m + 1, e)
      <4> DEFINE e == [n \in 0..(m + 1) |-> IF n = m + 1 THEN (m + 1) * g[m] ELSE g[n]]
      <4>1. \A x, y \in Nat \ {0} : x * y \in Nat \ {0}
        OBVIOUS
      <4>2. g[m] \in Nat \ {0} /\ (m + 1) * g[m] \in Nat \ {0}
        BY <3>1, <4>1
      <4>3. \A n \in 0..(m + 1) : n = m + 1 \/ n \in 0..m
        OBVIOUS
      <4>4. e \in [0..(m + 1) -> Nat \ {0}]
        BY <3>1, <4>2, <4>3
      <4>5. e[m + 1] = (m + 1) * e[(m + 1) - 1]
        OBVIOUS
      <4>6. ASSUME NEW n \in 0..m PROVE e[n] = IF n = 0 THEN 1 ELSE n * e[n - 1]
        <5>1. e[n] = g[n] /\ (n # 0 => e[n - 1] = g[n - 1])
          OBVIOUS
        <5>2. QED
          BY <3>1, <5>1
      <4> HIDE DEF e
      <4>7. \A n \in 0..(m + 1) : e[n] = IF n = 0 THEN 1 ELSE n * e[n - 1]
        <5>1. m + 1 # 0
          OBVIOUS
        <5>2. QED
          BY <4>3, <4>5, <4>6, <5>1
      <4>8. UpTo(m + 1, e)
        BY <4>4, <4>7
      <4>9. QED
        BY <4>8, Zenon
    <3>3. m + 1 \in Nat
      OBVIOUS
    <3>4. QED
      BY <3>2, <3>3, Zenon
  <2> HIDE DEF S
  <2>3. \A m \in Nat : m \in S
    BY <2>1, <2>2, Successors, Zenon
  <2>4. QED
    BY <2>3 DEF S
<1>2. ASSUME NEW m \in Nat, NEW g, NEW f, UpTo(m, g), UpTo(m + 1, f)
      PROVE  f[m] = g[m]
  <2> DEFINE A == {n \in Nat : n <= m => f[n] = g[n]}
  <2>1. 0 \in A
    BY <1>2
  <2>2. ASSUME NEW n \in Nat, n \in A PROVE n + 1 \in A
    <3>1. ASSUME n + 1 <= m PROVE f[n + 1] = g[n + 1]
      <4>1. f[n] = g[n] /\ n + 1 \in 0..m /\ n + 1 \in 0..(m + 1) /\ n + 1 # 0 /\ (n + 1) - 1 = n
        BY <2>2, <3>1
      <4>2. f[n + 1] = (n + 1) * f[n] /\ g[n + 1] = (n + 1) * g[n]
        BY <1>2, <4>1
      <4>3. QED
        BY <4>1, <4>2
    <3>2. QED
      BY <3>1
  <2> HIDE DEF A
  <2>3. m \in A
    BY <2>1, <2>2, Successors, Zenon
  <2>4. QED
    BY <2>3 DEF A
<1>3. \A n \in Nat : UpTo(n, CHOOSE g : UpTo(n, g))
  BY <1>1, Zenon
<1>4. ASSUME NEW n \in Nat PROVE /\ h[n] \in Nat \ {0}
                                 /\ h[n] = IF n = 0 THEN 1 ELSE n * h[n - 1]
  <2> DEFINE g == CHOOSE g : UpTo(n, g)
             f == CHOOSE f : UpTo(n - 1, f)
  <2>1. UpTo(n, g) /\ h[n] = g[n]
    BY <1>3, Zenon
  <2>2. ASSUME n # 0 PROVE n - 1 \in Nat /\ UpTo(n - 1, f) /\ h[n - 1] = f[n - 1]
    <3>1. n - 1 \in Nat
      BY <2>2
    <3>2. QED
      BY <1>3, <3>1, Zenon
  <2> HIDE DEF g, f, h
  <2>3. g[n] \in Nat \ {0} /\ g[n] = IF n = 0 THEN 1 ELSE n * g[n - 1]
    BY <2>1
  <2>4. ASSUME n # 0 PROVE g[n - 1] = f[n - 1]
    <3>1. (n - 1) + 1 = n
      OBVIOUS
    <3> HIDE DEF UpTo
    <3>2. QED
      BY <1>2, <2>1, <2>2, <2>4, <3>1
  <2>5. QED
    BY <2>1, <2>2, <2>3, <2>4
<1>5. h = [n \in Nat |-> IF n = 0 THEN 1 ELSE n * h[n - 1]]
  <2>1. h = [n \in Nat |-> h[n]]
    <3> HIDE DEF UpTo
    <3>1. QED
      OBVIOUS
  <2> HIDE DEF h
  <2>2. \A n \in Nat : h[n] = IF n = 0 THEN 1 ELSE n * h[n - 1]
    BY <1>4, Zenon
  <2>3. QED
    BY <2>1, <2>2, Zenon
<1> HIDE DEF h
<1>6. factorial = [n \in Nat |-> IF n = 0 THEN 1 ELSE n * factorial[n - 1]]
  BY <1>5, Zenon DEF factorial
<1>7. \A n \in Nat : factorial[n] = IF n = 0 THEN 1 ELSE n * factorial[n - 1]
  BY <1>6, Zenon
<1> DEFINE P == {n \in Nat : factorial[n] \in Nat \ {0}}
<1>8. 0 \in P
  BY <1>7
<1>9. ASSUME NEW n \in Nat, n \in P PROVE n + 1 \in P
  <2>1. factorial[n + 1] = (n + 1) * factorial[n]
    BY <1>7
  <2>2. \A x, y \in Nat \ {0} : x * y \in Nat \ {0}
    OBVIOUS
  <2>3. QED
    BY <1>9, <2>1, <2>2
<1> HIDE DEF P
<1>10. \A n \in Nat : n \in P
  BY <1>8, <1>9, Successors, Zenon
<1>11. QED
  BY <1>7, <1>10 DEF P

-----------------------------------------------------------------------------
(* choose(n, i) is the number of ways i of n coins fall heads.             *)

Heads(n, i) == {s \in SUBSET (1..n) : Cardinality(s) = i}

\* Ways to fall are finite in number, and so are the heads of each.
LEMMA Subsets ==
  ASSUME NEW n \in Nat
  PROVE  /\ IsFiniteSet(SUBSET (1..n)) /\ Cardinality(SUBSET (1..n)) = 2 ^ n
         /\ \A s \in SUBSET (1..n) : IsFiniteSet(s) /\ Cardinality(s) \in 0..n
         /\ \A S \in SUBSET SUBSET (1..n) : IsFiniteSet(S) /\ Cardinality(S) \in Nat
<1>1. IsFiniteSet(1..n) /\ Cardinality(1..n) = n
  BY FS_Interval
<1>2. IsFiniteSet(SUBSET (1..n)) /\ Cardinality(SUBSET (1..n)) = 2 ^ n
  BY <1>1, FS_SUBSET
<1>3. ASSUME NEW s \in SUBSET (1..n) PROVE IsFiniteSet(s) /\ Cardinality(s) \in 0..n
  <2>1. IsFiniteSet(s) /\ Cardinality(s) <= Cardinality(1..n)
    BY <1>1, FS_Subset
  <2>2. Cardinality(s) \in Nat
    BY <2>1, FS_CardinalityType
  <2>3. QED
    BY <1>1, <2>1, <2>2
<1>4. ASSUME NEW S \in SUBSET SUBSET (1..n) PROVE IsFiniteSet(S) /\ Cardinality(S) \in Nat
  BY <1>2, FS_Subset, FS_CardinalityType
<1>5. QED
  BY <1>2, <1>3, <1>4

\* The next coin is none of those before.
LEMMA Outside ==
  ASSUME NEW n \in Nat
  PROVE  n + 1 \notin 1..n /\ 1..(n + 1) = (1..n) \cup {n + 1}
OBVIOUS

\* Pascal's rule: the last coin falls heads, or it does not.
LEMMA Pascal ==
  ASSUME NEW n \in Nat, NEW i \in Nat
  PROVE  Cardinality(Heads(n + 1, i + 1)) = Cardinality(Heads(n, i)) + Cardinality(Heads(n, i + 1))
<1> DEFINE add == [s \in Heads(n, i) |-> s \cup {n + 1}]
           with == {s \in Heads(n + 1, i + 1) : n + 1 \in s}
<1>1. /\ \A s \in SUBSET (1..n) : IsFiniteSet(s) /\ Cardinality(s) \in Nat
      /\ \A s \in SUBSET (1..(n + 1)) : IsFiniteSet(s) /\ Cardinality(s) \in Nat
  <2>1. ASSUME NEW m \in Nat, NEW s \in SUBSET (1..m) PROVE IsFiniteSet(s) /\ Cardinality(s) \in Nat
    <3>1. IsFiniteSet(s) /\ Cardinality(s) \in 0..m
      BY Subsets
    <3>2. QED
      BY <3>1
  <2>2. n + 1 \in Nat
    OBVIOUS
  <2>3. QED
    BY <2>1, <2>2
<1>2. IsFiniteSet(Heads(n, i)) /\ IsFiniteSet(Heads(n, i + 1))
  BY Subsets DEF Heads
<1>3. ASSUME NEW s \in Heads(n, i) PROVE add[s] \in with
  <2>1. s \in SUBSET (1..n) /\ Cardinality(s) = i /\ n + 1 \notin s
    BY Outside DEF Heads
  <2>2. Cardinality(s \cup {n + 1}) = i + 1
    BY <1>1, <2>1, FS_AddElement
  <2>3. QED
    BY <2>1, <2>2, Outside DEF Heads
<1>4. ASSUME NEW t \in with PROVE \E s \in Heads(n, i) : add[s] = t
  <2>1. t \in SUBSET (1..(n + 1)) /\ Cardinality(t) = i + 1 /\ n + 1 \in t /\ IsFiniteSet(t)
    BY <1>1 DEF Heads
  <2>2. t \ {n + 1} \in SUBSET (1..n)
    BY <2>1, Outside
  <2>3. Cardinality(t \ {n + 1}) = i
    BY <2>1, FS_RemoveElement
  <2>4. t \ {n + 1} \in Heads(n, i) /\ t = (t \ {n + 1}) \cup {n + 1}
    BY <2>1, <2>2, <2>3 DEF Heads
  <2>5. QED
    BY <2>4
<1>5. ASSUME NEW s \in Heads(n, i), NEW t \in Heads(n, i), add[s] = add[t] PROVE s = t
  <2>1. n + 1 \notin s /\ n + 1 \notin t
    BY Outside DEF Heads
  <2>2. s \cup {n + 1} = t \cup {n + 1}
    BY <1>5
  <2>3. QED
    BY <2>1, <2>2
<1>6. add \in Bijection(Heads(n, i), with)
  <2>1. add \in [Heads(n, i) -> with]
    BY <1>3
  <2> HIDE DEF add, with
  <2>2. QED
    BY <1>4, <1>5, <2>1, Fun_IsBij
<1>7. IsFiniteSet(with) /\ Cardinality(with) = Cardinality(Heads(n, i))
  <2> HIDE DEF add, with
  <2>1. QED
    BY <1>2, <1>6, FS_Bijection DEF ExistsBijection
<1>8. Heads(n + 1, i + 1) = with \cup Heads(n, i + 1) /\ with \cap Heads(n, i + 1) = {}
  BY Outside DEF Heads
<1>9. Cardinality(Heads(n, i)) \in Nat /\ Cardinality(Heads(n, i + 1)) \in Nat
  BY <1>2, FS_CardinalityType
<1> HIDE DEF with
<1>10. QED
  BY <1>2, <1>7, <1>8, <1>9, FS_Union, FS_EmptySet

\* None in one way, and all in one.
LEMMA Edges ==
  ASSUME NEW n \in Nat
  PROVE  Cardinality(Heads(n, 0)) = 1 /\ Cardinality(Heads(n, n)) = 1
<1>1. IsFiniteSet(1..n) /\ Cardinality(1..n) = n /\ 1..n \in SUBSET (1..n)
  BY FS_Interval
<1>2. Heads(n, 0) = {{}}
  <2>1. \A s \in SUBSET (1..n) : Cardinality(s) = 0 <=> s = {}
    BY Subsets, FS_EmptySet
  <2>2. {} \in SUBSET (1..n)
    OBVIOUS
  <2>3. QED
    BY <2>1, <2>2 DEF Heads
<1>3. Heads(n, n) = {1..n}
  <2>1. ASSUME NEW s \in SUBSET (1..n), Cardinality(s) = n PROVE s = 1..n
    BY <1>1, <2>1, FS_Subset
  <2>2. QED
    BY <1>1, <2>1 DEF Heads
<1>4. QED
  BY <1>2, <1>3, FS_Singleton

\* The step of the induction below, in numbers.
LEMMA PascalSum ==
  ASSUME NEW A \in Nat, NEW B \in Nat, NEW p \in Nat, NEW r \in Nat, NEW j \in Nat, NEW m \in Nat, NEW F \in Nat,
         A * (p * (m * r)) = F, B * ((j * p) * r) = F
  PROVE  (A + B) * ((j * p) * (m * r)) = (j + m) * F
<1>1. A * ((j * p) * (m * r)) = j * F
  BY Z3
<1>2. B * ((j * p) * (m * r)) = m * F
  BY Z3
<1>3. (A + B) * ((j * p) * (m * r)) = A * ((j * p) * (m * r)) + B * ((j * p) * (m * r))
  BY Z3
<1>4. QED
  BY <1>1, <1>2, <1>3

\* Division undoes a product.
LEMMA Quotient ==
  ASSUME NEW N \in Nat, NEW d \in Nat \ {0}
  PROVE  (N * d) \div d = N
  OBVIOUS

\* n! is their number times the orders of heads and of tails.
LEMMA Ways ==
  ASSUME NEW n \in Nat, NEW i \in 0..n
  PROVE  Cardinality(Heads(n, i)) * (factorial[i] * factorial[n - i]) = factorial[n]
<1> DEFINE All(m) == \A j \in 0..m : Cardinality(Heads(m, j)) * (factorial[j] * factorial[m - j]) = factorial[m]
           S == {m \in Nat : All(m)}
<1>1. \A m \in Nat : factorial[m] \in Nat
  BY Factorial
<1>2. factorial[0] = 1 /\ \A m \in Nat : factorial[m + 1] = (m + 1) * factorial[m]
  BY Factorial
<1>3. ASSUME NEW m \in Nat PROVE \A j \in 0..m : Cardinality(Heads(m, j)) \in Nat
  <2>1. \A j \in 0..m : Heads(m, j) \in SUBSET SUBSET (1..m)
    BY DEF Heads
  <2>2. QED
    BY <2>1, Subsets
<1>4. 0 \in S
  <2>1. ASSUME NEW j \in 0..0 PROVE j = 0 /\ 0 - j = 0
    <3>1. j = 0
      OBVIOUS
    <3>2. QED
      BY <3>1
  <2>2. Cardinality(Heads(0, 0)) * (factorial[0] * factorial[0]) = factorial[0]
    BY <1>2, Edges
  <2>3. QED
    BY <2>1, <2>2
<1>5. ASSUME NEW m \in Nat, m \in S PROVE m + 1 \in S
  <2>1. m + 1 \in Nat
    OBVIOUS
  <2>2. ASSUME NEW j \in 0..(m + 1)
        PROVE  Cardinality(Heads(m + 1, j)) * (factorial[j] * factorial[(m + 1) - j]) = factorial[m + 1]
    <3>1. CASE j = 0
      <4>1. (m + 1) - j = m + 1 /\ Cardinality(Heads(m + 1, j)) = 1
        BY <2>1, <3>1, Edges
      <4>2. factorial[m + 1] \in Nat
        BY <1>1
      <4>3. QED
        BY <1>2, <3>1, <4>1, <4>2
    <3>2. CASE j = m + 1
      <4>1. (m + 1) - j = 0 /\ Cardinality(Heads(m + 1, j)) = 1
        BY <2>1, <3>2, Edges
      <4>2. factorial[m + 1] \in Nat
        BY <1>1
      <4>3. QED
        BY <1>2, <3>2, <4>1, <4>2
    <3>3. CASE j \in 1..m
      <4> DEFINE k == j - 1
                 d == m - j
                 A == Cardinality(Heads(m, k))
                 B == Cardinality(Heads(m, j))
                 p == factorial[k]
                 r == factorial[d]
                 F == factorial[m]
      <4>1. k \in Nat /\ k \in 0..m /\ j = k + 1 /\ d \in Nat /\ j \in 0..m /\ m - k = d + 1 /\ (m + 1) - j = d + 1
        BY <3>3
      <4>2. A \in Nat /\ B \in Nat /\ p \in Nat /\ r \in Nat /\ F \in Nat
        BY <1>1, <1>3, <4>1
      <4>3. factorial[j] = j * p /\ factorial[d + 1] = (d + 1) * r /\ factorial[m + 1] = (m + 1) * F
        BY <1>2, <4>1
      <4>4. A * (p * factorial[d + 1]) = F /\ B * (factorial[j] * r) = F
        BY <1>5, <4>1
      <4>5. Cardinality(Heads(m + 1, j)) = A + B
        BY <4>1, Pascal
      <4>6. j \in Nat /\ d + 1 \in Nat /\ j + (d + 1) = m + 1
        BY <3>3
      <4> HIDE DEF A, B, p, r, F, d, k
      <4>7. A * (p * ((d + 1) * r)) = F /\ B * ((j * p) * r) = F
        BY <4>3, <4>4
      <4>8. (A + B) * ((j * p) * ((d + 1) * r)) = (j + (d + 1)) * F
        BY <4>2, <4>6, <4>7, PascalSum
      <4>9. QED
        BY <4>1, <4>3, <4>5, <4>6, <4>8
    <3>4. j = 0 \/ j = m + 1 \/ j \in 1..m
      OBVIOUS
    <3>5. QED
      BY <3>1, <3>2, <3>3, <3>4
  <2> HIDE DEF All
  <2>3. All(m + 1)
    BY <2>2 DEF All
  <2>4. QED
    BY <2>1, <2>3
<1> HIDE DEF S
<1>6. n \in S
  BY <1>4, <1>5, Successors, Zenon
<1>7. QED
  BY <1>6 DEF S

\* The quotient of factorials is that number.
LEMMA Chosen ==
  ASSUME NEW n \in Nat, NEW i \in 0..n
  PROVE  choose(n, i) = Cardinality(Heads(n, i))
<1> DEFINE d == factorial[i] * factorial[n - i]
<1>1. d \in Nat \ {0}
  <2>1. i \in Nat /\ n - i \in Nat
    OBVIOUS
  <2>2. factorial[i] \in Nat \ {0} /\ factorial[n - i] \in Nat \ {0}
    BY <2>1, Factorial
  <2>3. \A x, y \in Nat \ {0} : x * y \in Nat \ {0}
    OBVIOUS
  <2>4. QED
    BY <2>2, <2>3
<1>2. Cardinality(Heads(n, i)) \in Nat
  <2>1. Heads(n, i) \in SUBSET SUBSET (1..n)
    BY DEF Heads
  <2>2. QED
    BY <2>1, Subsets
<1>3. Cardinality(Heads(n, i)) * d = factorial[n]
  BY Ways
<1>4. choose(n, i) = factorial[n] \div d
  BY DEF choose
<1> HIDE DEF d
<1>5. QED
  BY <1>1, <1>2, <1>3, <1>4, Quotient

-----------------------------------------------------------------------------
(* The tail and the test.                                                  *)

HeadsIn(n, T) == {s \in SUBSET (1..n) : Cardinality(s) \in T}

\* Another number of heads adds its ways.
LEMMA OneMore ==
  ASSUME NEW n \in Nat, NEW T \in SUBSET (0..n), NEW x \in T
  PROVE  Cardinality(HeadsIn(n, T)) = choose(n, x) + Cardinality(HeadsIn(n, T \ {x}))
<1>1. x \in 0..n
  OBVIOUS
<1>2. HeadsIn(n, T) = Heads(n, x) \cup HeadsIn(n, T \ {x}) /\ Heads(n, x) \cap HeadsIn(n, T \ {x}) = {}
  BY DEF HeadsIn, Heads
<1>3. Heads(n, x) \in SUBSET SUBSET (1..n) /\ HeadsIn(n, T \ {x}) \in SUBSET SUBSET (1..n)
  BY DEF HeadsIn, Heads
<1>4. /\ IsFiniteSet(Heads(n, x)) /\ Cardinality(Heads(n, x)) \in Nat
      /\ IsFiniteSet(HeadsIn(n, T \ {x})) /\ Cardinality(HeadsIn(n, T \ {x})) \in Nat
  BY <1>3, Subsets
<1>5. choose(n, x) = Cardinality(Heads(n, x))
  BY <1>1, Chosen
<1> DEFINE P == Heads(n, x)
           Q == HeadsIn(n, T \ {x})
<1>6. Cardinality(P \cup Q) = Cardinality(P) + Cardinality(Q) - Cardinality(P \cap Q)
  BY <1>4, FS_Union
<1>7. Cardinality(P \cap Q) = 0
  BY <1>2, FS_EmptySet
<1> HIDE DEF P, Q
<1>8. Cardinality(P) \in Nat /\ Cardinality(Q) \in Nat /\ Cardinality(HeadsIn(n, T)) = Cardinality(P \cup Q)
  BY <1>2, <1>4 DEF P, Q
<1>9. Cardinality(HeadsIn(n, T)) = Cardinality(P) + Cardinality(Q)
  BY <1>6, <1>7, <1>8
<1>10. QED
  BY <1>5, <1>9 DEF P, Q

\* The sum of a tail is the number of ways that at most k fall heads: counting
\* them satisfies the fold's recursion, and nothing else does.
LEMMA TailCounts ==
  ASSUME NEW n \in Nat, NEW k \in 0..n
  PROVE  Tail(n, k) = Cardinality(HeadsIn(n, 0..k))
<1> DEFINE Any(s)  == CHOOSE x \in s : TRUE
           Sums(g) == g = [s \in SUBSET (0..k) |-> IF s = {} THEN 0 ELSE choose(n, Any(s)) + g[s \ {Any(s)}]]
           sum     == CHOOSE g : Sums(g)
           counts  == [s \in SUBSET (0..k) |-> Cardinality(HeadsIn(n, s))]
<1>1. Tail(n, k) = sum[0..k]
  BY Zenon DEF Tail, MapThenSumSet, MapThenFoldSet
<1>2. \A s \in SUBSET (0..k) : s # {} => Any(s) \in s
  BY Zenon
<1> HIDE DEF Any
<1>3. ASSUME NEW s \in SUBSET (0..k), s # {}
      PROVE  counts[s] = choose(n, Any(s)) + counts[s \ {Any(s)}]
  <2>1. s \in SUBSET (0..n) /\ Any(s) \in s
    BY <1>2, <1>3
  <2>2. Cardinality(HeadsIn(n, s)) = choose(n, Any(s)) + Cardinality(HeadsIn(n, s \ {Any(s)}))
    BY <2>1, OneMore
  <2>3. s \ {Any(s)} \in SUBSET (0..k)
    OBVIOUS
  <2>4. QED
    BY <2>2, <2>3
<1>4. counts[{}] = 0
  <2>1. HeadsIn(n, {}) = {}
    BY DEF HeadsIn
  <2>2. QED
    BY <2>1, FS_EmptySet
<1>5. Sums(counts)
  <2>1. counts = [s \in SUBSET (0..k) |-> counts[s]]
    OBVIOUS
  <2> HIDE DEF counts
  <2>2. \A s \in SUBSET (0..k) : counts[s] = IF s = {} THEN 0 ELSE choose(n, Any(s)) + counts[s \ {Any(s)}]
    BY <1>3, <1>4, Zenon
  <2>3. QED
    BY <2>1, <2>2, Zenon
<1> HIDE DEF counts
<1>6. Sums(sum)
  <2> HIDE DEF Sums
  <2>1. QED
    BY <1>5, Zenon
<1> HIDE DEF sum
<1>7. \A s \in SUBSET (0..k) : sum[s] = IF s = {} THEN 0 ELSE choose(n, Any(s)) + sum[s \ {Any(s)}]
  BY <1>6, Zenon
<1> DEFINE S == {m \in Nat : \A s \in SUBSET (0..k) : IsFiniteSet(s) /\ Cardinality(s) = m => sum[s] = counts[s]}
<1>8. 0 \in S
  <2>1. ASSUME NEW s \in SUBSET (0..k), IsFiniteSet(s), Cardinality(s) = 0 PROVE sum[s] = counts[s]
    <3>1. s = {}
      BY <2>1, FS_EmptySet
    <3>2. QED
      BY <1>4, <1>7, <3>1
  <2>2. QED
    BY <2>1
<1>9. ASSUME NEW m \in Nat, m \in S PROVE m + 1 \in S
  <2>1. ASSUME NEW s \in SUBSET (0..k), IsFiniteSet(s), Cardinality(s) = m + 1 PROVE sum[s] = counts[s]
    <3>1. s # {}
      BY <2>1, FS_EmptySet
    <3>2. Any(s) \in s
      BY <1>2, <3>1
    <3>3. IsFiniteSet(s \ {Any(s)}) /\ Cardinality(s \ {Any(s)}) = m /\ s \ {Any(s)} \in SUBSET (0..k)
      <4>1. s \ {Any(s)} \in SUBSET (0..k)
        OBVIOUS
      <4>2. IsFiniteSet(s \ {Any(s)}) /\ Cardinality(s \ {Any(s)}) = Cardinality(s) - 1
        BY <2>1, <3>2, FS_RemoveElement
      <4>3. QED
        BY <2>1, <4>1, <4>2
    <3>4. sum[s \ {Any(s)}] = counts[s \ {Any(s)}]
      BY <1>9, <3>3
    <3>5. QED
      BY <1>3, <1>7, <3>1, <3>4
  <2>2. QED
    BY <2>1
<1> HIDE DEF S
<1>10. \A m \in Nat : m \in S
  BY <1>8, <1>9, Successors, Zenon
<1>11. IsFiniteSet(0..k) /\ Cardinality(0..k) \in Nat
  BY FS_Interval, FS_CardinalityType
<1>12. sum[0..k] = counts[0..k]
  BY <1>10, <1>11 DEF S
<1>13. counts[0..k] = Cardinality(HeadsIn(n, 0..k))
  BY DEF counts
<1>14. QED
  BY <1>1, <1>12, <1>13

\* Turned over, the ways that few fall heads are those that many do.
LEMMA TailsAreAlike ==
  ASSUME NEW n \in Nat, NEW k \in 0..n
  PROVE  Cardinality(HeadsIn(n, (n - k)..n)) = Cardinality(HeadsIn(n, 0..k))
<1> DEFINE flip == [s \in HeadsIn(n, 0..k) |-> (1..n) \ s]
<1>1. ASSUME NEW s \in SUBSET (1..n) PROVE Cardinality((1..n) \ s) = n - Cardinality(s) /\ Cardinality(s) \in 0..n
  <2>1. IsFiniteSet(1..n) /\ Cardinality(1..n) = n
    BY FS_Interval
  <2>2. IsFiniteSet(s) /\ Cardinality(s) \in 0..n
    BY Subsets
  <2>3. (1..n) \cap s = s
    OBVIOUS
  <2>4. Cardinality((1..n) \ s) = Cardinality(1..n) - Cardinality((1..n) \cap s)
    BY <2>1, FS_Difference
  <2>5. QED
    BY <2>1, <2>2, <2>3, <2>4
<1>2. flip \in [HeadsIn(n, 0..k) -> HeadsIn(n, (n - k)..n)]
  <2>1. ASSUME NEW s \in HeadsIn(n, 0..k) PROVE (1..n) \ s \in HeadsIn(n, (n - k)..n)
    <3>1. s \in SUBSET (1..n) /\ Cardinality(s) \in 0..k
      BY DEF HeadsIn
    <3>2. Cardinality((1..n) \ s) \in (n - k)..n
      BY <1>1, <3>1
    <3>3. QED
      BY <3>2 DEF HeadsIn
  <2>2. QED
    BY <2>1
<1>3. ASSUME NEW t \in HeadsIn(n, (n - k)..n) PROVE \E s \in HeadsIn(n, 0..k) : flip[s] = t
  <2>1. t \in SUBSET (1..n) /\ Cardinality(t) \in (n - k)..n
    BY DEF HeadsIn
  <2>2. Cardinality((1..n) \ t) \in 0..k
    BY <1>1, <2>1
  <2>3. (1..n) \ t \in HeadsIn(n, 0..k) /\ (1..n) \ ((1..n) \ t) = t
    BY <2>1, <2>2 DEF HeadsIn
  <2>4. QED
    BY <2>3
<1>4. ASSUME NEW s \in HeadsIn(n, 0..k), NEW t \in HeadsIn(n, 0..k), flip[s] = flip[t] PROVE s = t
  <2>1. s \subseteq 1..n /\ t \subseteq 1..n
    BY DEF HeadsIn
  <2>2. (1..n) \ s = (1..n) \ t
    BY <1>4
  <2>3. QED
    BY <2>1, <2>2
<1>5. IsFiniteSet(HeadsIn(n, 0..k))
  <2>1. HeadsIn(n, 0..k) \in SUBSET SUBSET (1..n)
    BY DEF HeadsIn
  <2>2. QED
    BY <2>1, Subsets
<1> HIDE DEF flip
<1>6. flip \in Bijection(HeadsIn(n, 0..k), HeadsIn(n, (n - k)..n))
  BY <1>2, <1>3, <1>4, Fun_IsBij
<1>7. QED
  BY <1>5, <1>6, FS_Bijection DEF ExistsBijection

\* mcNemarExact is the exact two-sided test, of any two counts.
LEMMA ExactTest ==
  ASSUME NEW b \in Nat, NEW c \in Nat
  PROVE  McNemar(b, c) = AsUneven(b, c)
<1> DEFINE n == b + c
           k == Smaller(b, c)
           Low  == HeadsIn(n, 0..k)
           High == HeadsIn(n, (n - k)..n)
<1>1. n \in Nat /\ k \in 0..n /\ 2 * k <= n
  BY DEF Smaller
<1>2. McNemar(b, c) = Smaller(2 * Cardinality(Low), 2 ^ n)
  <2>1. Tail(n, k) = Cardinality(Low)
    BY <1>1, TailCounts
  <2>2. QED
    BY <2>1 DEF McNemar
<1>3. AsUneven(b, c) = Cardinality(Low \cup High)
  <2>1. ASSUME NEW s \in SUBSET (1..n)
        PROVE  (IF 2 * Cardinality(s) < b + c THEN (b + c) - 2 * Cardinality(s) ELSE 2 * Cardinality(s) - (b + c))
                  >= (IF b < c THEN c - b ELSE b - c)
               <=> Cardinality(s) \in 0..k \/ Cardinality(s) \in (n - k)..n
    <3>1. Cardinality(s) \in 0..n
      BY <1>1, Subsets
    <3>2. QED
      BY <3>1 DEF Smaller
  <2>2. {s \in SUBSET (1..n) :
           (IF 2 * Cardinality(s) < b + c THEN (b + c) - 2 * Cardinality(s) ELSE 2 * Cardinality(s) - (b + c))
             >= (IF b < c THEN c - b ELSE b - c)}
        = Low \cup High
    BY <2>1 DEF HeadsIn
  <2>3. QED
    BY <2>2 DEF AsUneven
<1> HIDE DEF n, k
<1>4. Cardinality(High) = Cardinality(Low)
  BY <1>1, TailsAreAlike
<1>5. Low \in SUBSET SUBSET (1..n) /\ High \in SUBSET SUBSET (1..n) /\ Low \cup High \in SUBSET SUBSET (1..n)
  BY DEF HeadsIn
<1>6. /\ IsFiniteSet(Low) /\ IsFiniteSet(High) /\ Cardinality(Low) \in Nat
      /\ Cardinality(Low \cup High) \in Nat /\ Cardinality(Low \cap High) \in Nat
  <2>1. Low \cap High \in SUBSET SUBSET (1..n)
    BY <1>5
  <2>2. QED
    BY <1>1, <1>5, <2>1, Subsets
<1>7. Cardinality(Low \cup High) = Cardinality(Low) + Cardinality(High) - Cardinality(Low \cap High)
  BY <1>6, FS_Union
<1>8. IsFiniteSet(SUBSET (1..n)) /\ Cardinality(SUBSET (1..n)) = 2 ^ n
  BY <1>1, Subsets
<1>9. Cardinality(Low \cup High) <= 2 ^ n /\ 2 ^ n \in Nat
  BY <1>5, <1>8, FS_Subset, FS_CardinalityType
<1>10. CASE 2 * k < n
  <2>1. Low \cap High = {}
    BY <1>1, <1>10 DEF HeadsIn
  <2>2. Cardinality(Low \cap High) = 0
    BY <2>1, FS_EmptySet
  <2>3. QED
    BY <1>2, <1>3, <1>4, <1>6, <1>7, <1>9, <2>2 DEF Smaller
<1>11. CASE 2 * k = n
  <2>1. Low \cup High = SUBSET (1..n)
    <3>1. ASSUME NEW s \in SUBSET (1..n) PROVE s \in Low \cup High
      <4>1. Cardinality(s) \in 0..n
        BY <1>1, Subsets
      <4>2. Cardinality(s) \in 0..k \/ Cardinality(s) \in (n - k)..n
        BY <1>1, <1>11, <4>1
      <4>3. QED
        BY <4>2 DEF HeadsIn
    <3>2. QED
      BY <1>5, <3>1
  <2>2. Cardinality(Low \cup High) = 2 ^ n
    BY <1>8, <2>1
  <2> HIDE DEF Low, High
  <2>3. QED
    BY <1>2, <1>3, <1>4, <1>6, <1>7, <1>9, <2>2 DEF Smaller
<1>12. QED
  BY <1>1, <1>10, <1>11

=============================================================================
