------------------------------ MODULE Iteration ------------------------------
(***************************************************************************)
(* Facts the proofs of this project share.  Sets of natural numbers have a *)
(* least and, if bounded, a greatest element; a set that 0 is in and that  *)
(* is closed under + 1 has them all; steps taken from a start make a       *)
(* sequence; and what Sorting sorts is sorted.                             *)
(* They speak of sets and functions, so they can be cited about any.       *)
(***************************************************************************)
EXTENDS Sorting, WellFoundedInduction, FiniteSetTheorems, TLAPS

(* Any set of natural numbers has a least element. *)
LEMMA LeastNatural ==
  ASSUME NEW T \in SUBSET Nat, T # {}
  PROVE  \E m \in T : \A n \in T : m <= n
<1> DEFINE Less == OpToRel(<, Nat)
<1>1. IsWellFoundedOn(Less, Nat) BY NatLessThanWellFounded
<1>2. \A m, n \in Nat : <<n, m>> \in Less <=> n < m BY DEF OpToRel
<1>3. PICK m \in T : \A n \in T : ~ (<<n, m>> \in Less)
  <2> HIDE DEF Less
  <2> QED BY <1>1, WFMin
<1>4. \A n \in T : ~ (n < m)
  <2> HIDE DEF Less
  <2> QED BY <1>2, <1>3
<1> QED BY <1>4

(* A bounded set of natural numbers has a greatest element. *)
LEMMA GreatestNatural ==
  ASSUME NEW T \in SUBSET Nat, T # {}, NEW bound \in Nat, \A n \in T : n <= bound
  PROVE  \E m \in T : \A n \in T : n <= m
<1> DEFINE D == {bound - n : n \in T}
<1>1. D \in SUBSET Nat /\ D # {}
  <2>1. PICK t \in T : TRUE OBVIOUS
  <2>2. bound - t \in D OBVIOUS
  <2>3. \A n \in T : bound - n \in Nat OBVIOUS
  <2> QED BY <2>2, <2>3
<1>2. PICK d \in D : \A e \in D : d <= e
  <2> HIDE DEF D
  <2> QED BY <1>1, LeastNatural
<1>3. PICK m \in T : d = bound - m OBVIOUS
<1>4. ASSUME NEW n \in T PROVE n <= m
  <2>1. bound - n \in D OBVIOUS
  <2> QED BY <1>2, <1>3, <2>1
<1> QED BY <1>4

(* Induction over a set. *)
LEMMA Inductive ==
  ASSUME NEW P \in SUBSET Nat, 0 \in P, \A n \in P : n + 1 \in P
  PROVE  P = Nat
<1> SUFFICES ASSUME Nat \ P # {} PROVE FALSE OBVIOUS
<1>1. PICK m \in Nat \ P : \A n \in Nat \ P : m <= n
  <2> DEFINE T == Nat \ P
  <2>1. T \in SUBSET Nat /\ T # {} OBVIOUS
  <2> HIDE DEF T
  <2>2. \E m \in T : \A n \in T : m <= n BY <2>1, LeastNatural
  <2> QED BY <2>2 DEF T
<1>2. m # 0 /\ m - 1 \in Nat /\ ~ (m <= m - 1) /\ (m - 1) + 1 = m BY <1>1
<1>3. m - 1 \in P BY <1>1, <1>2
<1> QED BY <1>1, <1>2, <1>3

(* f starts at x and takes the step of every position. *)
Iterating(f, S, x, step) ==
  f \in [Nat -> S] /\ f[0] = x /\ \A n \in Nat : f[n + 1] = step[n][f[n]]

(* A step of its own at every position, taken from a start, gives a sequence. *)
LEMMA Iterates ==
  ASSUME NEW S, NEW x \in S, NEW step \in [Nat -> [S -> S]]
  PROVE  \E f : Iterating(f, S, x, step)
<1> DEFINE Upto(n, f) == /\ f \in [0..n -> S] /\ f[0] = x
                         /\ \A i \in 0..(n - 1) : f[i + 1] = step[i][f[i]]
<1>1. \A n \in Nat : \E f : Upto(n, f)
  <2> DEFINE P == {n \in Nat : \E f : Upto(n, f)}
  <2>1. 0 \in P
    <3>1. Upto(0, [i \in 0..0 |-> x]) OBVIOUS
    <3> QED BY <3>1
  <2>2. ASSUME NEW n \in P PROVE n + 1 \in P
    <3>1. PICK f : Upto(n, f) BY <2>2
    <3> DEFINE g == [i \in 0..(n + 1) |-> IF i <= n THEN f[i] ELSE step[n][f[n]]]
    <3>2. f[n] \in S /\ step[n][f[n]] \in S BY <3>1
    <3>3. g \in [0..(n + 1) -> S] /\ g[0] = x BY <3>1, <3>2
    <3>4. ASSUME NEW i \in 0..((n + 1) - 1) PROVE g[i + 1] = step[i][g[i]]
      <4>1. g[i] = f[i] OBVIOUS
      <4>2. CASE i = n
        <5>1. ~ (i + 1 <= n) /\ i + 1 \in 0..(n + 1) BY <4>2
        <5>2. g[i + 1] = step[n][f[n]] BY <5>1
        <5> QED BY <4>1, <4>2, <5>2
      <4>3. CASE i < n BY <3>1, <4>1, <4>3
      <4> QED BY <4>2, <4>3
    <3>5. Upto(n + 1, g) BY <3>3, <3>4
    <3> HIDE DEF Upto, g
    <3> QED BY <3>5
  <2>3. P \in SUBSET Nat OBVIOUS
  <2> HIDE DEF P
  <2>4. P = Nat BY <2>1, <2>2, <2>3, Inductive
  <2> QED BY <2>4 DEF P
<1>2. ASSUME NEW n \in Nat, NEW f, Upto(n, f), NEW g, Upto(n + 1, g)
      PROVE  f[n] = g[n]
  <2> DEFINE P == {i \in Nat : i <= n => f[i] = g[i]}
  <2>1. 0 \in P BY <1>2
  <2>2. ASSUME NEW i \in P PROVE i + 1 \in P
    <3> SUFFICES ASSUME i + 1 <= n PROVE f[i + 1] = g[i + 1] OBVIOUS
    <3>1. i \in 0..(n - 1) /\ i \in 0..((n + 1) - 1) /\ i <= n OBVIOUS
    <3>2. f[i] = g[i] BY <3>1
    <3>3. f[i + 1] = step[i][f[i]] BY <1>2, <3>1
    <3>4. g[i + 1] = step[i][g[i]] BY <1>2, <3>1
    <3> QED BY <3>2, <3>3, <3>4
  <2>3. P \in SUBSET Nat OBVIOUS
  <2> HIDE DEF P
  <2>4. P = Nat BY <2>1, <2>2, <2>3, Inductive
  <2> QED BY <2>4 DEF P
<1> DEFINE F == [n \in Nat |-> (CHOOSE f : Upto(n, f))[n]]
<1>3. \A n \in Nat : Upto(n, CHOOSE f : Upto(n, f)) BY <1>1
<1>4. F \in [Nat -> S]
  <2>1. \A n \in Nat : \A f : Upto(n, f) => f[n] \in S OBVIOUS
  <2> HIDE DEF Upto
  <2> QED BY <1>3, <2>1
<1>5. F[0] = x BY <1>3
<1>6. ASSUME NEW n \in Nat PROVE F[n + 1] = step[n][F[n]]
  <2>1. PICK f : f = CHOOSE h : Upto(n, h) OBVIOUS
  <2>2. PICK g : g = CHOOSE h : Upto(n + 1, h) OBVIOUS
  <2>3. Upto(n, f) /\ Upto(n + 1, g)
    <3> HIDE DEF Upto
    <3> QED BY <1>3, <2>1, <2>2
  <2>4. F[n] = f[n] /\ F[n + 1] = g[n + 1] BY <2>1, <2>2
  <2>5. f[n] = g[n] BY <1>2, <2>3
  <2>6. g[n + 1] = step[n][g[n]] BY <2>3
  <2> QED BY <2>4, <2>5, <2>6
<1> HIDE DEF F
<1> QED BY <1>4, <1>5, <1>6 DEF Iterating

(* f starts at x and takes the same step at every position of an interval. *)
Recurring(f, S, x, step, first, last) ==
  /\ f \in [first..last -> S]
  /\ f = [n \in first..last |-> IF n = first THEN x ELSE step[f[n - 1]]]

(* Over an interval, a start and a step define a function. *)
LEMMA Recurs ==
  ASSUME NEW S, NEW x \in S, NEW step \in [S -> S], NEW first \in Nat, NEW last \in Nat
  PROVE  \E f : Recurring(f, S, x, step, first, last)
<1> DEFINE steps == [n \in Nat |-> step]
<1>1. steps \in [Nat -> [S -> S]] OBVIOUS
<1>2. PICK w : Iterating(w, S, x, steps)
  <2> HIDE DEF steps
  <2> QED BY <1>1, Iterates
<1>3. w \in [Nat -> S] /\ w[0] = x /\ \A n \in Nat : w[n + 1] = step[w[n]]
  BY <1>2 DEF Iterating
<1>4. PICK f : f = [n \in first..last |-> w[n - first]] OBVIOUS
<1>5. \A n \in first..last : n - first \in Nat OBVIOUS
<1>6. f \in [first..last -> S] BY <1>3, <1>4, <1>5
<1>7. ASSUME NEW n \in first..last
      PROVE  f[n] = IF n = first THEN x ELSE step[f[n - 1]]
  <2>1. CASE n = first
    <3>1. n - first = 0 BY <2>1
    <3> QED BY <1>3, <1>4, <2>1, <3>1
  <2>2. CASE n # first
    <3>1. n - 1 \in first..last /\ (n - 1) - first \in Nat /\ ((n - 1) - first) + 1 = n - first
      BY <2>2
    <3>2. w[((n - 1) - first) + 1] = step[w[(n - 1) - first]] BY <1>3, <3>1
    <3>3. f[n] = w[n - first] /\ f[n - 1] = w[(n - 1) - first] BY <1>4, <3>1
    <3> QED BY <2>2, <3>1, <3>2, <3>3
  <2> QED BY <2>1, <2>2
<1>8. f = [n \in first..last |-> IF n = first THEN x ELSE step[f[n - 1]]] BY <1>6, <1>7
<1> QED BY <1>6, <1>8 DEF Recurring

-----------------------------------------------------------------------------
(* Sorted lists *)

(* A strict total order. *)
Orders(R, S) ==
  /\ \A x \in S : <<x, x>> \notin R
  /\ \A x, y, z \in S : <<x, y>> \in R /\ <<y, z>> \in R => <<x, z>> \in R
  /\ \A x, y \in S : x # y => <<x, y>> \in R \/ <<y, x>> \in R

Ranking(f, S, R) ==
  /\ f \in [1..Cardinality(S) -> S]
  /\ \A i, j \in 1..Cardinality(S) : i < j => <<f[i], f[j]>> \in R
  /\ \A x \in S : \E i \in 1..Cardinality(S) : f[i] = x

(* Each of a finite set has a place of its own, and each place is somebody's. *)
LEMMA RankedIsRanking ==
  ASSUME NEW S, IsFiniteSet(S), NEW R, Orders(R, S)
  PROVE  Ranking(Ranked(S, R), S, R)
<1> DEFINE Below(x) == {y \in S : <<y, x>> \in R}
<1>1. PICK n \in Nat : n = Cardinality(S) BY FS_CardinalityType
<1>2. \A x \in S : IsFiniteSet(Below(x)) /\ Cardinality(Below(x)) \in Nat
  <2>1. \A x \in S : Below(x) \subseteq S OBVIOUS
  <2> HIDE DEF Below
  <2> QED BY <2>1, FS_Subset, FS_CardinalityType
<1>3. \A x \in S : Cardinality(Below(x)) \in 0..(n - 1)
  <2> SUFFICES ASSUME NEW x \in S PROVE Cardinality(Below(x)) \in 0..(n - 1) OBVIOUS
  <2>1. Below(x) \subseteq S \ {x} BY DEF Orders
  <2>2. IsFiniteSet(S \ {x}) /\ Cardinality(S \ {x}) = n - 1 BY <1>1, FS_RemoveElement
  <2> HIDE DEF Below
  <2>3. Cardinality(Below(x)) <= Cardinality(S \ {x}) BY <2>1, <2>2, FS_Subset
  <2> QED BY <1>1, <1>2, <2>2, <2>3
<1>4. ASSUME NEW x \in S, NEW y \in S, <<x, y>> \in R
      PROVE  Cardinality(Below(x)) < Cardinality(Below(y))
  <2>1. Below(x) \subseteq Below(y) /\ x \in Below(y) /\ x \notin Below(x)
    BY <1>4 DEF Orders
  <2> HIDE DEF Below
  <2>2. Cardinality(Below(x)) <= Cardinality(Below(y))
        /\ (Cardinality(Below(x)) = Cardinality(Below(y)) => Below(x) = Below(y))
    BY <1>2, <2>1, FS_Subset
  <2>3. Cardinality(Below(x)) # Cardinality(Below(y)) BY <2>1, <2>2
  <2> QED BY <1>2, <2>2, <2>3
<1>5. PICK place : place = [x \in S |-> Cardinality(Below(x))] OBVIOUS
<1>6. \A x \in S : place[x] = Cardinality(Below(x)) BY <1>5
<1> HIDE DEF Below
<1>7. place \in [S -> 0..(n - 1)] BY <1>3, <1>5
<1>8. \A x, y \in S : <<x, y>> \in R => place[x] < place[y] BY <1>4, <1>6
<1>9. \A x, y \in S : place[x] = place[y] => x = y
  <2>1. \A x, y \in S : x # y => place[x] < place[y] \/ place[y] < place[x]
    BY <1>8 DEF Orders
  <2>2. \A x \in S : place[x] \in Int BY <1>7
  <2> QED BY <2>1, <2>2
<1>10. place \in Surjection(S, 0..(n - 1))
  <2>1. place \in Injection(S, 0..(n - 1)) BY <1>7, <1>9 DEF Injection, IsInjective
  <2>2. IsFiniteSet(0..(n - 1)) /\ Cardinality(0..(n - 1)) = n
    <3>1. 0 \in Int /\ n - 1 \in Int OBVIOUS
    <3>2. IsFiniteSet(0..(n - 1))
          /\ Cardinality(0..(n - 1)) = (IF 0 > n - 1 THEN 0 ELSE (n - 1) - 0 + 1)
      BY <3>1, FS_Interval
    <3> QED BY <3>2
  <2> QED BY <1>1, <2>1, <2>2, FS_Injection
<1>11. \A m \in 0..(n - 1) : \E x \in S : place[x] = m BY <1>10 DEF Surjection
<1>12. PICK f : f = Ranked(S, R) OBVIOUS
<1>13. f = [i \in 1..n |-> CHOOSE x \in S : Cardinality(Below(x)) = i - 1]
  BY <1>1, <1>12 DEF Ranked, Below
<1>14. ASSUME NEW i \in 1..n PROVE f[i] \in S /\ place[f[i]] = i - 1
  <2>1. i - 1 \in 0..(n - 1) OBVIOUS
  <2>2. \E x \in S : Cardinality(Below(x)) = i - 1 BY <1>6, <1>11, <2>1
  <2>3. f[i] = CHOOSE x \in S : Cardinality(Below(x)) = i - 1 BY <1>13
  <2>4. f[i] \in S /\ Cardinality(Below(f[i])) = i - 1 BY <2>2, <2>3
  <2> QED BY <1>6, <2>4
<1>15. f \in [1..n -> S] BY <1>13, <1>14
<1>16. ASSUME NEW i \in 1..n, NEW j \in 1..n, i < j PROVE <<f[i], f[j]>> \in R
  <2>1. place[f[i]] = i - 1 /\ place[f[j]] = j - 1 /\ f[i] \in S /\ f[j] \in S BY <1>14
  <2>2. f[i] # f[j] BY <1>16, <2>1
  <2>3. <<f[j], f[i]>> \notin R
    <3>1. ~ (place[f[j]] < place[f[i]]) BY <1>16, <2>1
    <3> QED BY <1>8, <2>1, <3>1
  <2> QED BY <2>1, <2>2, <2>3 DEF Orders
<1>17. ASSUME NEW x \in S PROVE \E i \in 1..n : f[i] = x
  <2>1. PICK i \in 1..n : i = place[x] + 1
    <3>1. place[x] \in 0..(n - 1) BY <1>7
    <3> QED BY <3>1
  <2>2. place[f[i]] = place[x] /\ f[i] \in S
    <3>1. i - 1 = place[x] BY <1>7, <2>1
    <3> QED BY <1>14, <3>1
  <2> QED BY <1>9, <2>2
<1> QED BY <1>1, <1>12, <1>15, <1>16, <1>17 DEF Ranking
=============================================================================
