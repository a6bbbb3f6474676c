------------------------------ MODULE DataLemmas ------------------------------
(***************************************************************************)
(* Facts about the data the models are built of: induction on numbers,     *)
(* extrema of sets of numbers, the enumeration of sets and sums.             *)
(***************************************************************************)
EXTENDS Enumeration, FiniteSetsExt, WellFoundedInduction, FiniteSetTheorems, TLAPS

-----------------------------------------------------------------------------
(* Induction and extrema *)

\* Induction on the naturals, with the induction hypothesis as a set.
LEMMA NatInduct ==
  ASSUME NEW T, 0 \in T, \A n \in Nat : n \in T => n + 1 \in T
  PROVE  \A n \in Nat : n \in T
<1> DEFINE B == Nat \ T
           R == OpToRel(<, Nat)
<1>1. SUFFICES ASSUME B # {} PROVE FALSE
  OBVIOUS
<1>2. IsWellFoundedOn(R, Nat)
  BY NatLessThanWellFounded, Zenon
<1>3. B \subseteq Nat
  OBVIOUS
<1>4. PICK m \in B : \A y \in B : ~(<<y, m>> \in R)
  <2> HIDE DEF R, B
  <2> QED
    BY <1>1, <1>2, <1>3, WFMin, Zenon
<1>5. \A y \in B : ~(y < m)
  BY <1>4 DEF OpToRel
<1>6. m # 0 /\ m \in Nat /\ m - 1 \in Nat
  OBVIOUS
<1>7. m - 1 \notin T
  BY <1>6
<1>8. QED
  BY <1>5, <1>6, <1>7

\* A nonempty finite set of integers has its maximum.
LEMMA MaxOfFinite ==
  ASSUME NEW S, S \subseteq Int, S # {}, IsFiniteSet(S)
  PROVE  Max(S) \in S /\ \A y \in S : y <= Max(S)
<1> DEFINE Has(s) == \E x \in s : \A y \in s : y <= x
           T == {n \in Nat : \A s \in SUBSET Int :
                   IsFiniteSet(s) /\ s # {} /\ Cardinality(s) = n => Has(s)}
<1>1. 0 \in T
  BY FS_EmptySet
<1>2. ASSUME NEW n \in Nat, n \in T PROVE n + 1 \in T
  <2>1. SUFFICES ASSUME NEW s \in SUBSET Int, IsFiniteSet(s), s # {}, Cardinality(s) = n + 1
                 PROVE  Has(s)
    OBVIOUS
  <2>2. PICK x : x \in s
    BY <2>1
  <2> DEFINE r == s \ {x}
  <2>3. IsFiniteSet(r) /\ Cardinality(r) = n /\ r \in SUBSET Int /\ x \in Int
    <3>1. IsFiniteSet(r) /\ Cardinality(r) = Cardinality(s) - 1
      BY <2>1, <2>2, FS_RemoveElement
    <3>2. r \in SUBSET Int /\ x \in Int
      BY <2>2
    <3>3. QED
      BY <2>1, <3>1, <3>2
  <2>4. CASE r = {}
    BY <2>2, <2>3, <2>4
  <2>5. CASE r # {}
    <3>1. PICK m \in r : \A y \in r : y <= m
      <4>1. Has(r)
        BY <1>2, <2>3, <2>5
      <4>2. QED
        BY <4>1
    <3>2. m \in Int /\ m \in s
      BY <2>3
    <3>3. \A y \in s : y = x \/ y \in r
      OBVIOUS
    <3> HIDE DEF r
    <3>4. CASE m <= x
      <4>1. \A y \in s : y <= x
        <5> TAKE y \in s
        <5>1. y \in Int
          OBVIOUS
        <5>2. QED
          BY <2>3, <3>1, <3>2, <3>3, <3>4, <5>1
      <4>2. QED
        BY <2>2, <4>1
    <3>5. CASE ~(m <= x)
      <4>1. \A y \in s : y <= m
        BY <2>3, <3>1, <3>2, <3>3, <3>5
      <4>2. QED
        BY <3>2, <4>1
    <3>6. QED
      BY <3>4, <3>5
  <2>6. QED
    BY <2>4, <2>5
<1>3. \A n \in Nat : n \in T
  <2> HIDE DEF T
  <2> QED
    BY <1>1, <1>2, NatInduct
<1>4. Has(S)
  <2>1. Cardinality(S) \in Nat
    BY FS_CardinalityType
  <2>2. Cardinality(S) \in T
    BY <1>3, <2>1
  <2>3. QED
    BY <2>2
<1>5. PICK x \in S : \A y \in S : y <= x
  BY <1>4
<1>6. \A y \in S : x >= y
  BY <1>5
<1>7. Max(S) \in S /\ \A y \in S : Max(S) >= y
  BY <1>6 DEF Max
<1>8. QED
  BY <1>7

\* A nonempty bounded set of naturals has its maximum.
LEMMA MaxBelow ==
  ASSUME NEW n \in Nat, NEW S, S \subseteq 0 .. n, S # {}
  PROVE  Max(S) \in S /\ \A y \in S : y <= Max(S)
<1>1. IsFiniteSet(0 .. n)
  BY FS_Interval
<1>2. IsFiniteSet(S)
  BY <1>1, FS_Subset
<1>3. S \subseteq Int
  OBVIOUS
<1>4. QED
  BY <1>2, <1>3, MaxOfFinite

\* A nonempty set of naturals has its minimum.
LEMMA MinOfNats ==
  ASSUME NEW S, S \subseteq Nat, S # {}
  PROVE  Min(S) \in S /\ \A y \in S : Min(S) <= y
<1> DEFINE Less == {p \in Nat \X Nat : p[1] < p[2]}
<1>1. IsWellFoundedOn(Less, Nat)
  BY NatLessThanWellFounded DEF OpToRel
<1>2. PICK x \in S : \A y \in S : <<y, x>> \notin Less
  <2> HIDE DEF Less
  <2> QED BY <1>1, WFMin
<1>3. \A y \in S : x <= y
  <2> TAKE y \in S
  <2>1. x \in Nat /\ y \in Nat
    OBVIOUS
  <2>2. ~ (y < x)
    <3>1. <<y, x>> \in Nat \X Nat /\ <<y, x>>[1] = y /\ <<y, x>>[2] = x
      BY <2>1
    <3>2. QED
      BY <1>2, <3>1
  <2>3. QED
    BY <2>1, <2>2
<1>4. QED
  BY <1>3 DEF Min

-----------------------------------------------------------------------------
(* Enumerations *)

\* The rank of a member counts from 0 and grows with the member.
LEMMA RankIncreases ==
  ASSUME NEW S, S \subseteq Int, IsFiniteSet(S)
  PROVE  /\ Cardinality(S) \in Nat
         /\ \A x \in S : Rank(x, S) \in 0 .. Cardinality(S) - 1
         /\ \A x, y \in S : x < y <=> Rank(x, S) < Rank(y, S)
<1> DEFINE below(x) == {y \in S : y < x}
           n == Cardinality(S)
<1>1. n \in Nat
  BY FS_CardinalityType
<1>2. \A x \in S : /\ IsFiniteSet(below(x)) /\ Rank(x, S) \in Int
                  /\ Rank(x, S) \in 0 .. n - 1
  <2> TAKE x \in S
  <2>1. below(x) \subseteq S \ {x} /\ IsFiniteSet(S \ {x}) /\ Cardinality(S \ {x}) = n - 1
    BY FS_RemoveElement
  <2>2. IsFiniteSet(below(x)) /\ Cardinality(below(x)) <= n - 1
    <3> HIDE DEF below, n
    <3> QED
      BY <2>1, FS_Subset
  <2>3. Cardinality(below(x)) \in Nat
    BY <2>2, FS_CardinalityType
  <2>4. QED
    BY <1>1, <2>2, <2>3 DEF Rank
<1>3. ASSUME NEW x \in S, NEW y \in S, x < y PROVE Rank(x, S) < Rank(y, S)
  <2>0. x \in Int /\ y \in Int
    OBVIOUS
  <2>1. below(x) \subseteq below(y) /\ x \in below(y) /\ x \notin below(x)
    <3>1. \A z \in S : z \in Int /\ (z < x => z < y) /\ ~(x < x)
      BY <1>3, <2>0
    <3>2. QED
      BY <1>3, <3>1
  <2>2. Cardinality(below(x)) # Cardinality(below(y)) /\ Cardinality(below(x)) <= Cardinality(below(y))
    <3>1. IsFiniteSet(below(y))
      BY <1>2
    <3> HIDE DEF below
    <3>2. QED
      BY <2>1, <3>1, FS_Subset
  <2>3. Rank(x, S) \in Int /\ Rank(y, S) \in Int
    BY <1>2
  <2>4. Rank(x, S) = Cardinality(below(x)) /\ Rank(y, S) = Cardinality(below(y))
    BY DEF Rank
  <2> HIDE DEF below
  <2>5. QED
    BY <2>2, <2>3, <2>4
<1>4. ASSUME NEW x \in S, NEW y \in S, Rank(x, S) < Rank(y, S) PROVE x < y
  <2>1. /\ x \in Int /\ y \in Int /\ Rank(x, S) \in Int /\ Rank(y, S) \in Int
        /\ (x = y => Rank(x, S) = Rank(y, S))
    BY <1>2
  <2>2. ~(y < x)
    BY <1>3, <1>4, <2>1
  <2>3. x # y
    BY <1>4, <2>1
  <2>4. QED
    BY <2>1, <2>2, <2>3
<1>5. QED
  BY <1>1, <1>2, <1>3, <1>4

\* The rank of a member tells members apart.
LEMMA RankIsInjective ==
  ASSUME NEW S, S \subseteq Int, IsFiniteSet(S)
  PROVE  [x \in S |-> Rank(x, S)] \in Bijection(S, 0 .. Cardinality(S) - 1)
<1> DEFINE n == Cardinality(S)
           f == [x \in S |-> Rank(x, S)]
<1>1. n \in Nat
  BY FS_CardinalityType
<1>2. \A x \in S : Rank(x, S) \in Int /\ Rank(x, S) \in 0 .. n - 1
  <2>1. \A x \in S : Rank(x, S) \in 0 .. n - 1
    BY RankIncreases
  <2>2. \A i \in 0 .. n - 1 : i \in Int
    OBVIOUS
  <2>3. QED
    BY <2>1, <2>2, Zenon
<1>3. ASSUME NEW x \in S, NEW y \in S, x < y PROVE Rank(x, S) < Rank(y, S)
  BY <1>3, RankIncreases
<1>4. f \in [S -> 0 .. n - 1]
  BY <1>2
<1>5. IsInjective(f)
  <2>1. SUFFICES ASSUME NEW x \in S, NEW y \in S, f[x] = f[y] PROVE x = y
    BY DEF IsInjective
  <2>2. Rank(x, S) \in Int /\ Rank(x, S) = Rank(y, S)
    BY <1>2, <2>1
  <2>3. ~(x < y) /\ ~(y < x)
    BY <1>3, <2>2
  <2>4. QED
    BY <2>3
<1> HIDE DEF f
<1>6. f \in Injection(S, 0 .. n - 1)
  BY <1>4, <1>5 DEF Injection
<1>7. f \in Surjection(S, 0 .. n - 1)
  <2>1. IsFiniteSet(0 .. n - 1) /\ Cardinality(0 .. n - 1) = n
    BY <1>1, FS_Interval
  <2>2. QED
    BY <1>6, <2>1, FS_Injection
<1>8. QED
  BY <1>6, <1>7 DEF Bijection, f

\* Ascending visits every member, in order and only members.
LEMMA AscendingEnumerates ==
  ASSUME NEW S, S \subseteq Int, IsFiniteSet(S)
  PROVE  /\ Cardinality(S) \in Nat
         /\ Ascending(S) \in [1 .. Cardinality(S) -> S]
         /\ \A n \in 1 .. Cardinality(S) : Rank(Ascending(S)[n], S) = n - 1
         /\ \A x \in S : /\ Rank(x, S) + 1 \in 1 .. Cardinality(S)
                         /\ Ascending(S)[Rank(x, S) + 1] = x
<1> DEFINE n == Cardinality(S)
           f == [x \in S |-> Rank(x, S)]
<1>1. n \in Nat
  BY FS_CardinalityType
<1>2. f \in Bijection(S, 0 .. n - 1)
  BY RankIsInjective
<1>3. /\ \A x \in S : Rank(x, S) \in 0 .. n - 1
      /\ \A x, y \in S : Rank(x, S) = Rank(y, S) => x = y
      /\ \A m \in 0 .. n - 1 : \E x \in S : Rank(x, S) = m
  BY <1>2 DEF Bijection, Injection, Surjection, IsInjective
<1>4. \A m \in 1 .. n : /\ Ascending(S)[m] = CHOOSE x \in S : Rank(x, S) = m - 1
                        /\ m - 1 \in 0 .. n - 1
  BY <1>1 DEF Ascending
<1>5. \A m \in 1 .. n : Ascending(S)[m] \in S /\ Rank(Ascending(S)[m], S) = m - 1
  <2> TAKE m \in 1 .. n
  <2>1. \E x \in S : Rank(x, S) = m - 1
    BY <1>3, <1>4
  <2>2. QED
    BY <1>4, <2>1
<1>6. Ascending(S) \in [1 .. n -> S]
  BY <1>5 DEF Ascending
<1>7. \A x \in S : Rank(x, S) + 1 \in 1 .. n /\ Ascending(S)[Rank(x, S) + 1] = x
  <2> TAKE x \in S
  <2>1. Rank(x, S) + 1 \in 1 .. n /\ (Rank(x, S) + 1) - 1 = Rank(x, S)
    BY <1>1, <1>3
  <2>2. QED
    BY <1>3, <1>5, <2>1
<1>8. QED
  BY <1>1, <1>5, <1>6, <1>7

-----------------------------------------------------------------------------
(* Sums *)

SumOver(v, S) == MapThenSumSet(LAMBDA x : v[x], S)

\* g tells the sum of v over every part of S, in whatever order it is taken.
Additive(g, v, S) ==
  g[{}] = 0 /\ \A s \in SUBSET S : \A x \in s : g[s] = g[s \ {x}] + v[x]

\* f is a sum of v over the parts of S that takes the elements in one order.
Iterates(f, v, S) ==
  f = [s \in SUBSET S |-> IF s = {} THEN 0
                          ELSE v[CHOOSE x \in s : TRUE] + f[s \ {CHOOSE x \in s : TRUE}]]

\* Every finite set has its sums.
LEMMA SumsExist ==
  ASSUME NEW S, IsFiniteSet(S), NEW v, \A s \in S : v[s] \in Int
  PROVE  \E g \in [SUBSET S -> Int] : Additive(g, v, S)
<1> DEFINE Has(R) == \E g \in [SUBSET R -> Int] : Additive(g, v, R)
           T == {n \in Nat : \A R \in SUBSET S : Cardinality(R) = n => Has(R)}
<1>1. 0 \in T
  <2>1. SUFFICES ASSUME NEW R \in SUBSET S, Cardinality(R) = 0 PROVE Has(R)
    OBVIOUS
  <2>2. R = {}
    BY <2>1, FS_Subset, FS_EmptySet
  <2> DEFINE g == [s \in SUBSET {} |-> 0]
  <2>3. g \in [SUBSET {} -> Int] /\ g[{}] = 0
    OBVIOUS
  <2>4. Additive(g, v, {})
    BY <2>3 DEF Additive
  <2> HIDE DEF g
  <2>5. QED
    BY <2>2, <2>3, <2>4
<1>2. ASSUME NEW n \in Nat, n \in T PROVE n + 1 \in T
  <2>1. SUFFICES ASSUME NEW R \in SUBSET S, Cardinality(R) = n + 1 PROVE Has(R)
    <3> HIDE DEF Has
    <3> QED
      OBVIOUS
  <2>2. IsFiniteSet(R)
    BY FS_Subset
  <2>3. PICK y : y \in R
    <3> HIDE DEF Has, T
    <3>1. n + 1 # 0
      OBVIOUS
    <3>2. R # {}
      BY <2>1, <2>2, <3>1, FS_EmptySet
    <3>3. QED
      BY <3>2
  <2> DEFINE Q == R \ {y}
  <2>4. Q \in SUBSET S /\ Cardinality(Q) = n
    <3> HIDE DEF Has, T
    <3>1. Cardinality(Q) = Cardinality(R) - 1
      BY <2>2, <2>3, FS_RemoveElement
    <3>2. QED
      BY <2>1, <3>1
  <2>5. PICK g \in [SUBSET Q -> Int] : Additive(g, v, Q)
    <3>1. Has(Q)
      <4> HIDE DEF Has
      <4> QED
        BY <1>2, <2>4
    <3>2. QED
      BY <3>1
  <2> DEFINE h == [s \in SUBSET R |-> IF y \in s THEN g[s \ {y}] + v[y] ELSE g[s]]
  <2>6. v[y] \in Int
    BY <2>3
  <2>7. \A s \in SUBSET R : s \ {y} \in SUBSET Q /\ (y \notin s => s \in SUBSET Q)
    OBVIOUS
  <2>8. h \in [SUBSET R -> Int]
    <3>1. \A s \in SUBSET R : (IF y \in s THEN g[s \ {y}] + v[y] ELSE g[s]) \in Int
      BY <2>6, <2>7
    <3> HIDE DEF Q
    <3>2. QED
      BY <3>1
  <2>9. Additive(h, v, R)
    <3>1. h[{}] = 0
      BY <2>5 DEF Additive
    <3>2. ASSUME NEW s \in SUBSET R, NEW x \in s
          PROVE  h[s] = h[s \ {x}] + v[x]
      <4>1. v[x] \in Int /\ s \ {x} \in SUBSET R
        OBVIOUS
      <4>2. CASE y \notin s
        <5>1. s \in SUBSET Q /\ y \notin s \ {x}
          BY <2>7, <4>2
        <5>2. h[s] = g[s] /\ h[s \ {x}] = g[s \ {x}]
          BY <4>1, <4>2, <5>1
        <5>3. QED
          BY <2>5, <5>1, <5>2 DEF Additive
      <4>3. CASE y \in s /\ x = y
        <5>1. h[s] = g[s \ {y}] + v[y] /\ h[s \ {y}] = g[s \ {y}]
          BY <4>1, <4>3
        <5>2. QED
          BY <4>3, <5>1
      <4>4. CASE y \in s /\ x # y
        <5>1. /\ h[s] = g[s \ {y}] + v[y]
              /\ h[s \ {x}] = g[(s \ {x}) \ {y}] + v[y]
          BY <4>1, <4>4
        <5>2. s \ {y} \in SUBSET Q /\ x \in s \ {y} /\ (s \ {y}) \ {x} = (s \ {x}) \ {y}
          BY <2>7, <4>4
        <5>3. g[s \ {y}] = g[(s \ {x}) \ {y}] + v[x]
          <6> HIDE DEF Q
          <6> QED
            BY <2>5, <5>2 DEF Additive
        <5>4. g[(s \ {x}) \ {y}] \in Int
          <6>1. (s \ {x}) \ {y} \in SUBSET Q
            OBVIOUS
          <6> HIDE DEF Q
          <6>2. QED
            BY <6>1
        <5> HIDE DEF h, Q
        <5>5. QED
          BY <2>6, <4>1, <5>1, <5>3, <5>4
      <4>5. QED
        BY <4>2, <4>3, <4>4
    <3> HIDE DEF h
    <3>3. QED
      BY <3>1, <3>2 DEF Additive
  <2> HIDE DEF h
  <2>10. QED
    BY <2>8, <2>9
<1>3. \A n \in Nat : n \in T
  <2> HIDE DEF T
  <2> QED
    BY <1>1, <1>2, NatInduct
<1>4. Cardinality(S) \in Nat
  BY FS_CardinalityType
<1>5. Has(S)
  <2> HIDE DEF Has
  <2> QED
    BY <1>3, <1>4
<1>6. QED
  BY <1>5

\* The order does not matter.
LEMMA SumIsUnique ==
  ASSUME NEW S, IsFiniteSet(S), NEW v, \A s \in S : v[s] \in Int, NEW g \in [SUBSET S -> Int],
         Additive(g, v, S), NEW f, Iterates(f, v, S)
  PROVE  f[S] = g[S]
<1> DEFINE T == {n \in Nat : \A s \in SUBSET S : Cardinality(s) = n => f[s] = g[s]}
           pick(s) == CHOOSE x \in s : TRUE
<1>1. \A s \in SUBSET S : f[s] = IF s = {} THEN 0 ELSE v[pick(s)] + f[s \ {pick(s)}]
  <2>1. f = [s \in SUBSET S |-> IF s = {} THEN 0 ELSE v[pick(s)] + f[s \ {pick(s)}]]
    BY DEF Iterates
  <2> HIDE DEF pick
  <2>2. QED
    BY <2>1
<1>2. \A s : s # {} => pick(s) \in s
  OBVIOUS
<1> HIDE DEF pick
<1>3. \A s \in SUBSET S : IsFiniteSet(s)
  BY FS_Subset
<1>4. 0 \in T
  <2> SUFFICES ASSUME NEW s \in SUBSET S, Cardinality(s) = 0 PROVE f[s] = g[s]
    OBVIOUS
  <2>1. s = {}
    BY <1>3, FS_EmptySet
  <2>2. QED
    BY <1>1, <2>1 DEF Additive
<1>5. ASSUME NEW n \in Nat, n \in T PROVE n + 1 \in T
  <2> SUFFICES ASSUME NEW s \in SUBSET S, Cardinality(s) = n + 1 PROVE f[s] = g[s]
    OBVIOUS
  <2> DEFINE x == pick(s)
             r == s \ {x}
  <2>1. IsFiniteSet(s) /\ s # {}
    BY <1>3, FS_EmptySet
  <2>2. x \in s
    BY <1>2, <2>1
  <2>3. r \in SUBSET S /\ Cardinality(r) = n
    <3>1. Cardinality(r) = Cardinality(s) - 1
      BY <2>1, <2>2, FS_RemoveElement
    <3>2. QED
      BY <3>1
  <2>4. f[r] = g[r]
    BY <1>5, <2>3
  <2>5. f[s] = v[x] + f[r]
    BY <1>1, <2>1
  <2>6. g[s] = g[r] + v[x]
    BY <2>2 DEF Additive
  <2>7. g[r] \in Int /\ v[x] \in Int
    BY <2>2, <2>3
  <2> HIDE DEF x, r
  <2>8. QED
    BY <2>4, <2>5, <2>6, <2>7
<1>6. \A n \in Nat : n \in T
  <2> HIDE DEF T
  <2> QED
    BY <1>4, <1>5, NatInduct
<1>7. Cardinality(S) \in Nat
  BY FS_CardinalityType
<1>8. QED
  BY <1>6, <1>7

\* Sums that agree on every part are one order's sums too.
LEMMA AdditiveIterates ==
  ASSUME NEW S, IsFiniteSet(S), NEW v, \A s \in S : v[s] \in Int, NEW g \in [SUBSET S -> Int],
         Additive(g, v, S)
  PROVE  Iterates(g, v, S)
<1> DEFINE pick(s) == CHOOSE x \in s : TRUE
<1>1. ASSUME NEW s \in SUBSET S
      PROVE  g[s] = IF s = {} THEN 0 ELSE v[pick(s)] + g[s \ {pick(s)}]
  <2>1. CASE s = {}
    BY <2>1 DEF Additive
  <2>2. CASE s # {}
    <3>1. pick(s) \in s
      BY <2>2
    <3> HIDE DEF pick
    <3>2. g[s] = g[s \ {pick(s)}] + v[pick(s)]
      BY <3>1 DEF Additive
    <3>3. s \ {pick(s)} \in SUBSET S /\ pick(s) \in S
      BY <3>1
    <3>4. g[s \ {pick(s)}] \in Int /\ v[pick(s)] \in Int
      BY <3>3
    <3>5. QED
      BY <2>2, <3>2, <3>4
  <2>3. QED
    BY <2>1, <2>2
<1>2. g = [s \in SUBSET S |-> IF s = {} THEN 0 ELSE v[pick(s)] + g[s \ {pick(s)}]]
  <2> HIDE DEF pick
  <2> QED
    BY <1>1
<1>3. QED
  BY <1>2 DEF Iterates

\* Whatever expression a sum is taken of, it has a solution of its recursion.
LEMMA SumOverIs ==
  ASSUME NEW S, IsFiniteSet(S), NEW v, \A s \in S : v[s] \in Int, NEW g \in [SUBSET S -> Int],
         Additive(g, v, S)
  PROVE  SumOver(v, S) = g[S]
<1> DEFINE Eq(f) == Iterates(f, v, S)
           h == CHOOSE f : Eq(f)
<1>1. Eq(g)
  BY AdditiveIterates
<1>2. Eq(h)
  <2> HIDE DEF Eq
  <2> QED
    BY <1>1
<1>3. SumOver(v, S) = h[S]
  BY Zenon DEF SumOver, MapThenSumSet, MapThenFoldSet, Iterates
<1> HIDE DEF h
<1>4. QED
  BY <1>2, <1>3, SumIsUnique

\* A recursion that takes the elements in any one order has a solution, and every
\* solution of it ends in the sum.
LEMMA SumIterated ==
  ASSUME NEW S, IsFiniteSet(S), NEW v, \A s \in S : v[s] \in Int
  PROVE  /\ \E f : Iterates(f, v, S)
         /\ \A f : Iterates(f, v, S) => f[S] = SumOver(v, S)
<1>1. PICK g \in [SUBSET S -> Int] : Additive(g, v, S)
  BY SumsExist
<1>2. SumOver(v, S) = g[S] /\ Iterates(g, v, S)
  BY <1>1, SumOverIs, AdditiveIterates
<1>3. ASSUME NEW f, Iterates(f, v, S) PROVE f[S] = g[S]
  BY <1>1, <1>3, SumIsUnique
<1>4. QED
  BY <1>2, <1>3

\* The sum of nothing is 0, an element adds its value, and values outside the set
\* do not count.
LEMMA SumOfNone ==
  ASSUME NEW v
  PROVE  SumOver(v, {}) = 0
<1> DEFINE Eq(f) == Iterates(f, v, {})
           h == CHOOSE f : Eq(f)
           w == [s \in SUBSET {} |-> 0]
<1>1. Eq(w)
  <2>1. w = [s \in SUBSET {} |-> IF s = {} THEN 0
                      ELSE v[CHOOSE x \in s : TRUE] + w[s \ {CHOOSE x \in s : TRUE}]]
    OBVIOUS
  <2> HIDE DEF w
  <2>2. QED
    BY <2>1 DEF Iterates
<1>2. Eq(h)
  <2> HIDE DEF Eq, w
  <2> QED
    BY <1>1
<1>3. SumOver(v, {}) = h[{}]
  BY Zenon DEF SumOver, MapThenSumSet, MapThenFoldSet, Iterates
<1>4. h[{}] = 0
  <2> HIDE DEF h
  <2> QED
    BY <1>2 DEF Iterates
<1>5. QED
  BY <1>3, <1>4

\* Zeros add up to 0.
LEMMA SumOfZeros ==
  ASSUME NEW S, IsFiniteSet(S), NEW v, \A s \in S : v[s] = 0
  PROVE  SumOver(v, S) = 0
<1> DEFINE g == [s \in SUBSET S |-> 0]
<1>1. g \in [SUBSET S -> Int] /\ g[S] = 0
  OBVIOUS
<1>2. Additive(g, v, S)
  BY DEF Additive
<1> HIDE DEF g
<1>3. QED
  BY <1>1, <1>2, SumOverIs

\* The sum over part of a set, from sums over all its parts.
LEMMA SumOfPart ==
  ASSUME NEW S, IsFiniteSet(S), NEW v, \A s \in S : v[s] \in Int,
         NEW g \in [SUBSET S -> Int], Additive(g, v, S), NEW R \in SUBSET S
  PROVE  SumOver(v, R) = g[R]
<1> DEFINE r == [s \in SUBSET R |-> g[s]]
<1>1. IsFiniteSet(R) /\ (\A s \in R : v[s] \in Int) /\ SUBSET R \subseteq SUBSET S
  BY FS_Subset
<1>2. r \in [SUBSET R -> Int] /\ r[R] = g[R]
  BY <1>1
<1>3. Additive(r, v, R)
  BY <1>1 DEF Additive
<1> HIDE DEF r
<1>4. SumOver(v, R) = r[R]
  BY <1>1, <1>2, <1>3, SumOverIs
<1>5. QED
  BY <1>2, <1>4

\* A sum is a number, and one more element adds its value.
LEMMA SumAdd ==
  ASSUME NEW S, IsFiniteSet(S), NEW v, \A s \in S : v[s] \in Int, NEW x, v[x] \in Int
  PROVE  /\ SumOver(v, S) \in Int
         /\ x \notin S => SumOver(v, S \cup {x}) = SumOver(v, S) + v[x]
<1> DEFINE B == S \cup {x}
<1>1. IsFiniteSet(B) /\ \A s \in B : v[s] \in Int
  BY FS_AddElement
<1>2. S \in SUBSET B /\ B \in SUBSET B /\ x \in B /\ (x \notin S => B \ {x} = S)
  OBVIOUS
<1> HIDE DEF B
<1>3. PICK g \in [SUBSET B -> Int] : Additive(g, v, B)
  BY <1>1, SumsExist
<1>4. SumOver(v, S) = g[S] /\ SumOver(v, B) = g[B]
  BY <1>1, <1>2, <1>3, SumOfPart
<1>5. x \notin S => g[B] = g[S] + v[x]
  BY <1>2, <1>3 DEF Additive
<1>6. QED
  BY <1>2, <1>4, <1>5 DEF B

\* Values outside the set do not count.
LEMMA SumSame ==
  ASSUME NEW S, IsFiniteSet(S), NEW v, \A s \in S : v[s] \in Int,
         NEW w, \A s \in S : w[s] = v[s]
  PROVE  SumOver(w, S) = SumOver(v, S)
<1>1. PICK g \in [SUBSET S -> Int] : Additive(g, v, S)
  BY SumsExist
<1>2. Additive(g, w, S) /\ \A s \in S : w[s] \in Int
  BY <1>1 DEF Additive
<1>3. SumOver(v, S) = g[S] /\ SumOver(w, S) = g[S]
  BY <1>1, <1>2, SumOverIs
<1>4. QED
  BY <1>3

\* A change of one value changes the sum as much.
LEMMA SumChange ==
  ASSUME NEW S, IsFiniteSet(S), NEW v, \A s \in S : v[s] \in Int,
         NEW w, NEW x \in S, NEW n \in Int, w[x] = v[x] + n,
         \A s \in S \ {x} : w[s] = v[s]
  PROVE  SumOver(w, S) = SumOver(v, S) + n
<1> DEFINE R == S \ {x}
<1>1. IsFiniteSet(R) /\ x \notin R /\ R \cup {x} = S
  BY FS_Subset
<1>2. /\ \A s \in R : v[s] \in Int /\ w[s] = v[s] /\ w[s] \in Int
      /\ v[x] \in Int /\ w[x] \in Int
  OBVIOUS
<1> HIDE DEF R
<1>3. ASSUME NEW u, \A s \in R : u[s] \in Int, u[x] \in Int
      PROVE  SumOver(u, S) = SumOver(u, R) + u[x] /\ SumOver(u, R) \in Int
  <2>1. IsFiniteSet(R) /\ x \notin R
    BY <1>1
  <2>2. (\A s \in R : u[s] \in Int) /\ u[x] \in Int
    BY <1>3
  <2>3. SumOver(u, R \cup {x}) = SumOver(u, R) + u[x]
    BY <2>1, <2>2, SumAdd
  <2>4. SumOver(u, R) \in Int
    BY <2>1, <2>2, SumAdd
  <2>5. QED
    BY <1>1, <2>3, <2>4
<1>4. /\ SumOver(v, S) = SumOver(v, R) + v[x] /\ SumOver(v, R) \in Int
      /\ SumOver(w, S) = SumOver(w, R) + w[x]
  BY <1>2, <1>3, Zenon
<1>5. SumOver(w, R) = SumOver(v, R)
  BY <1>1, <1>2, SumSame
<1>6. QED
  BY <1>2, <1>4, <1>5

\* A sum of naturals is a natural.
LEMMA SumOfNats ==
  ASSUME NEW S, IsFiniteSet(S), NEW v, \A s \in S : v[s] \in Nat
  PROVE  SumOver(v, S) \in Nat
<1> DEFINE T == {n \in Nat : \A R \in SUBSET S : Cardinality(R) = n => SumOver(v, R) \in Nat}
<1>1. \A R \in SUBSET S : IsFiniteSet(R)
  BY FS_Subset
<1>2. 0 \in T
  <2> SUFFICES ASSUME NEW R \in SUBSET S, Cardinality(R) = 0 PROVE SumOver(v, R) \in Nat
    OBVIOUS
  <2>1. R = {}
    BY <1>1, FS_EmptySet
  <2>2. QED
    BY <2>1, SumOfNone
<1>3. ASSUME NEW n \in Nat, n \in T PROVE n + 1 \in T
  <2> SUFFICES ASSUME NEW R \in SUBSET S, Cardinality(R) = n + 1 PROVE SumOver(v, R) \in Nat
    OBVIOUS
  <2>1. IsFiniteSet(R) /\ R # {}
    BY <1>1, FS_EmptySet
  <2>2. PICK x \in R : TRUE
    BY <2>1
  <2> DEFINE Q == R \ {x}
  <2>3. Q \in SUBSET S /\ Cardinality(Q) = n
    <3>1. Cardinality(Q) = Cardinality(R) - 1
      BY <2>1, FS_RemoveElement
    <3>2. QED
      BY <3>1
  <2>4. SumOver(v, Q) \in Nat
    BY <1>3, <2>3
  <2>5. /\ IsFiniteSet(Q) /\ (\A s \in Q : v[s] \in Int) /\ v[x] \in Nat
        /\ x \notin Q /\ Q \cup {x} = R
    BY <1>1, <2>3
  <2> HIDE DEF Q, T
  <2>6. SumOver(v, Q \cup {x}) = SumOver(v, Q) + v[x]
    <3>1. IsFiniteSet(Q) /\ (\A s \in Q : v[s] \in Int) /\ v[x] \in Int /\ x \notin Q
      BY <2>5
    <3>2. QED
      BY <3>1, SumAdd
  <2>7. QED
    BY <2>4, <2>5, <2>6
<1>4. \A n \in Nat : n \in T
  <2> HIDE DEF T
  <2> QED
    BY <1>2, <1>3, NatInduct
<1>5. Cardinality(S) \in Nat
  BY FS_CardinalityType
<1>6. QED
  BY <1>4, <1>5
=============================================================================
