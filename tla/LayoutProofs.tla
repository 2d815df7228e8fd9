---------------------------- MODULE LayoutProofs ----------------------------
(***************************************************************************)
(* Plans and layouts for every number of elements: the target sizes of a   *)
(* plan are positive, add up to the number of elements and keep to the     *)
(* bucket limit, and split points between elements of a sorted sample put  *)
(* every value into a bucket that follows the exact order.                 *)
(*                                                                         *)
(* The first half are facts about the algorithms of StdAlgorithms, for     *)
(* sequences of every length and for comparators that need not be orders.  *)
(* Its first section is what lets functions defined by recursion be        *)
(* reasoned about: an equation for a recursive function on 0 .. n holds    *)
(* once some function satisfies it, and such a function is built by        *)
(* induction.                                                              *)
(***************************************************************************)
EXTENDS BucketLayout, FiniteSetTheorems, WellFoundedInduction, TLAPS

-----------------------------------------------------------------------------
(* Induction and recursion                                                 *)

\* Every set of natural numbers that is not empty has a least element.
LEMMA Least ==
    ASSUME NEW T \in SUBSET Nat, T # {}
    PROVE  \E x \in T : \A y \in T : x <= y
<1> DEFINE R == OpToRel(<, Nat)
<1>1. IsWellFoundedOn(R, Nat)
  BY NatLessThanWellFounded
<1>2. PICK x \in T : \A y \in T : <<y, x>> \notin R
  <2> HIDE DEF R
  <2> QED
    BY <1>1, WFMin
<1>3. \A y \in T : ~ (y < x)
  BY <1>2 DEF OpToRel
<1> QED
  BY <1>3

\* Induction, with a set for the property.
LEMMA SetInduction ==
    ASSUME NEW n \in Nat, NEW S, 0 \in S, \A i \in 1 .. n : i - 1 \in S => i \in S
    PROVE  0 .. n \subseteq S
<1> SUFFICES ASSUME (0 .. n) \ S # {} PROVE FALSE
  OBVIOUS
<1> DEFINE T == (0 .. n) \ S
<1>1. PICK x \in T : \A y \in T : x <= y
  <2>1. T \in SUBSET Nat /\ T # {}
    OBVIOUS
  <2> HIDE DEF T
  <2> QED
    BY <2>1, Least
<1>2. x \in 1 .. n /\ x - 1 \in 0 .. n /\ x - 1 \in S
  BY <1>1
<1> QED
  BY <1>1, <1>2

\* f starts with a and takes the step G[i] at i.
Iterates(f, n, V, a, G) ==
    /\ f \in [0 .. n -> V]
    /\ f[0] = a
    /\ \A i \in 1 .. n : f[i] = G[i][f[i - 1]]

\* Such a function exists when all of that stays in V.
LEMMA Recursion ==
    ASSUME NEW V, NEW a \in V, NEW n \in Nat, NEW G \in [1 .. n -> [V -> V]]
    PROVE  \E f : Iterates(f, n, V, a, G)
<1> DEFINE S == {m \in 0 .. n : \E f : Iterates(f, m, V, a, G)}
<1>1. 0 \in S
  <2>1. Iterates([i \in 0 .. 0 |-> a], 0, V, a, G)
    BY DEF Iterates
  <2> QED
    BY <2>1
<1>2. ASSUME NEW m \in 1 .. n, m - 1 \in S
      PROVE  m \in S
  <2>1. PICK f : Iterates(f, m - 1, V, a, G)
    BY <1>2
  <2> DEFINE g == [i \in 0 .. m |-> IF i = m THEN G[m][f[m - 1]] ELSE f[i]]
  <2>2. f[m - 1] \in V /\ G[m][f[m - 1]] \in V
    BY <2>1 DEF Iterates
  <2>3. Iterates(g, m, V, a, G)
    BY <2>1, <2>2 DEF Iterates
  <2> HIDE DEF g
  <2> QED
    BY <2>3
<1>3. n \in S
  <2> HIDE DEF S
  <2>1. 0 .. n \subseteq S
    BY <1>1, <1>2, SetInduction
  <2> QED
    BY <2>1
<1> QED
  BY <1>3

\* What a function takes over from its value one place before, it has everywhere.
LEMMA Throughout ==
    ASSUME NEW n \in Nat, NEW V, NEW r, r[0] \in V, \A i \in 1 .. n : r[i - 1] \in V => r[i] \in V
    PROVE  \A i \in 0 .. n : r[i] \in V
<1> DEFINE S == {i \in 0 .. n : r[i] \in V}
<1>1. 0 \in S
  OBVIOUS
<1>2. \A i \in 1 .. n : i - 1 \in S => i \in S
  OBVIOUS
<1>3. 0 .. n \subseteq S
  <2> HIDE DEF S
  <2> QED
    BY <1>1, <1>2, SetInduction
<1> QED
  BY <1>3
-----------------------------------------------------------------------------
(* Counting                                                                *)

\* The numbers 1 .. n are n numbers.
LEMMA CountUpTo ==
    ASSUME NEW n \in Nat
    PROVE  IsFiniteSet(1 .. n) /\ Cardinality(1 .. n) = n
<1>1. 1 \in Int /\ n \in Int
  OBVIOUS
<1>2. IsFiniteSet(1 .. n) /\ Cardinality(1 .. n) = IF 1 > n THEN 0 ELSE n - 1 + 1
  BY <1>1, FS_Interval
<1> QED
  BY <1>2

\* A list of the elements of K without repetitions is as long as K is large.
LEMMA CountByList ==
    ASSUME NEW n \in Nat, NEW K, NEW f \in [1 .. n -> K],
           \A p, q \in 1 .. n : f[p] = f[q] => p = q,
           \A x \in K : \E p \in 1 .. n : f[p] = x
    PROVE  IsFiniteSet(K) /\ Cardinality(K) = n
<1>1. f \in Surjection(1 .. n, K)
  BY DEF Surjection
<1>2. IsInjective(f)
  BY DEF IsInjective
<1>3. f \in Bijection(1 .. n, K)
  BY <1>1, <1>2 DEF Bijection, Injection
<1>4. ExistsBijection(1 .. n, K)
  BY <1>3 DEF ExistsBijection
<1> QED
  BY <1>4, CountUpTo, FS_Bijection
-----------------------------------------------------------------------------
(* only                                                                    *)

\* The recursion of only, with its values.
OnlyRound(f, X, s, T) ==
    /\ f \in [0 .. Len(s) -> Seq(X)]
    /\ f[0] = << >>
    /\ \A i \in 1 .. Len(s) : f[i] = IF s[i] \in T THEN Append(f[i - 1], s[i]) ELSE f[i - 1]

\* only is computed by rounds.
LEMMA OnlyRounds ==
    ASSUME NEW X, NEW s \in Seq(X), NEW T
    PROVE  \E f : OnlyRound(f, X, s, T) /\ only(s, T) = f[Len(s)]
<1> DEFINE n == Len(s)
           V == Seq(X)
           step(i, p) == IF s[i] \in T THEN Append(p, s[i]) ELSE p
           Body(f) == [i \in 0 .. n |-> IF i = 0 THEN << >> ELSE step(i, f[i - 1])]
           kept[i \in 0 .. n] == IF i = 0 THEN << >> ELSE step(i, kept[i - 1])
           G == [i \in 1 .. n |-> [p \in V |-> step(i, p)]]
<1>1. n \in Nat
  OBVIOUS
<1>2. << >> \in V
  OBVIOUS
<1>3. \A i \in 1 .. n, p \in V : step(i, p) \in V
  OBVIOUS
<1>4. only(s, T) = kept[n] /\ kept = CHOOSE ff : ff = Body(ff)
  BY DEF only
<1> HIDE DEF V, kept, n, step
<1>5. G \in [1 .. n -> [V -> V]] /\ \A i \in 1 .. n, p \in V : G[i][p] = step(i, p)
  BY <1>3
<1> HIDE DEF G
<1>6. PICK f : Iterates(f, n, V, << >>, G)
  BY <1>1, <1>2, <1>5, Recursion
<1>7. kept = Body(kept)
  <2>1. f = Body(f)
    BY <1>1, <1>5, <1>6 DEF Iterates
  <2> HIDE DEF Body
  <2> QED
    BY <1>4, <2>1
<1>8. kept[0] = << >> /\ \A i \in 1 .. n : kept[i] = step(i, kept[i - 1])
  BY <1>1, <1>7
<1>9. kept \in [0 .. n -> V]
  <2>1. \A i \in 0 .. n : kept[i] \in V
    BY <1>1, <1>2, <1>3, <1>8, Throughout
  <2> QED
    BY <1>7, <2>1
<1>10. OnlyRound(kept, X, s, T)
  BY <1>8, <1>9 DEF n, V, step, OnlyRound
<1>11. only(s, T) = kept[Len(s)]
  BY <1>4 DEF n
<1> QED
  BY <1>10, <1>11

\* What only keeps: at[p] is the place in s its p-th element comes from.
KeptPlaces(at, o, s, n, T) ==
    /\ at \in [1 .. Len(o) -> 1 .. n]
    /\ \A p \in 1 .. Len(o) : o[p] = s[at[p]] /\ s[at[p]] \in T
    /\ \A p, q \in 1 .. Len(o) : p < q => at[p] < at[q]
    /\ \A i \in 1 .. n : s[i] \in T => \E p \in 1 .. Len(o) : at[p] = i

\* only takes the places of the elements in T, each once and in ascending order.
LEMMA OnlyPlaces ==
    ASSUME NEW X, NEW s \in Seq(X), NEW T
    PROVE  /\ only(s, T) \in Seq(X)
           /\ \E at : KeptPlaces(at, only(s, T), s, Len(s), T)
<1>1. PICK f : OnlyRound(f, X, s, T) /\ only(s, T) = f[Len(s)]
  BY OnlyRounds
<1> DEFINE n == Len(s)
           S == {i \in 0 .. n : \E at : KeptPlaces(at, f[i], s, i, T)}
<1>2. n \in Nat
  OBVIOUS
<1>3. 0 \in S
  <2>1. KeptPlaces(<< >>, << >>, s, 0, T)
    BY DEF KeptPlaces
  <2> QED
    BY <1>1, <1>2, <2>1 DEF OnlyRound
<1>4. ASSUME NEW i \in 1 .. n, i - 1 \in S
      PROVE  i \in S
  <2>1. PICK at : KeptPlaces(at, f[i - 1], s, i - 1, T)
    BY <1>4
  <2> DEFINE o == f[i - 1]
             l == Len(o)
  <2>2. o \in Seq(X) /\ l \in Nat /\ s[i] \in X
    BY <1>1, <1>2 DEF OnlyRound
  <2>3. CASE s[i] \notin T
    <3>1. f[i] = o
      BY <1>1, <2>3 DEF OnlyRound
    <3> HIDE DEF o
    <3>2. /\ at \in [1 .. l -> 1 .. i - 1]
          /\ \A p \in 1 .. l : o[p] = s[at[p]] /\ s[at[p]] \in T
          /\ \A p, q \in 1 .. l : p < q => at[p] < at[q]
          /\ \A j \in 1 .. i - 1 : s[j] \in T => \E p \in 1 .. l : at[p] = j
      BY <2>1 DEF KeptPlaces, o
    <3> HIDE DEF l
    <3>3. at \in [1 .. l -> 1 .. i]
      <4>1. 1 .. i - 1 \subseteq 1 .. i
        OBVIOUS
      <4> QED
        BY <3>2, <4>1
    <3>4. ASSUME NEW j \in 1 .. i, s[j] \in T
          PROVE  \E p \in 1 .. l : at[p] = j
      <4>1. j # i
        BY <2>3, <3>4
      <4>2. j \in 1 .. i - 1
        BY <4>1
      <4> QED
        BY <3>2, <3>4, <4>2
    <3>5. KeptPlaces(at, o, s, i, T)
      BY <3>2, <3>3, <3>4 DEF KeptPlaces, l
    <3> QED
      BY <3>1, <3>5 DEF o
  <2>4. CASE s[i] \in T
    <3> DEFINE t == [p \in 1 .. l + 1 |-> IF p = l + 1 THEN i ELSE at[p]]
               u == f[i]
    <3>1. u = Append(o, s[i])
      BY <1>1, <2>4 DEF OnlyRound
    <3> HIDE DEF u
    <3>2. Len(u) = l + 1 /\ u[l + 1] = s[i] /\ \A p \in 1 .. l : u[p] = o[p]
      BY <2>2, <3>1
    <3> HIDE DEF o, l
    <3>3. KeptPlaces(t, u, s, i, T)
      <4>1. l \in Nat /\ KeptPlaces(at, o, s, i - 1, T) /\ l = Len(o)
        BY <2>1, <2>2 DEF o, l
      <4>2. t \in [1 .. Len(u) -> 1 .. i]
        BY <3>2, <4>1 DEF KeptPlaces
      <4>3. \A p \in 1 .. Len(u) : u[p] = s[t[p]] /\ s[t[p]] \in T
        BY <2>4, <3>2, <4>1 DEF KeptPlaces
      <4>4. ASSUME NEW p \in 1 .. Len(u), NEW q \in 1 .. Len(u), p < q
            PROVE  t[p] < t[q]
        <5>1. p \in 1 .. l /\ at[p] \in 1 .. i - 1
          BY <3>2, <4>1, <4>4 DEF KeptPlaces
        <5>2. CASE q = l + 1
          BY <3>2, <4>1, <5>1, <5>2
        <5>3. CASE q # l + 1
          BY <3>2, <4>1, <4>4, <5>1, <5>3 DEF KeptPlaces
        <5> QED
          BY <5>2, <5>3
      <4>5. ASSUME NEW j \in 1 .. i, s[j] \in T
            PROVE  \E p \in 1 .. Len(u) : t[p] = j
        <5>1. CASE j = i
          BY <3>2, <4>1, <5>1
        <5>2. CASE j # i
          BY <3>2, <4>1, <4>5, <5>2 DEF KeptPlaces
        <5> QED
          BY <5>1, <5>2
      <4> QED
        BY <4>2, <4>3, <4>4, <4>5 DEF KeptPlaces
    <3> QED
      BY <3>3 DEF u
  <2> QED
    BY <2>3, <2>4
<1>5. n \in S
  <2> HIDE DEF S
  <2>1. 0 .. n \subseteq S
    BY <1>2, <1>3, <1>4, SetInduction
  <2> QED
    BY <1>2, <2>1
<1> QED
  BY <1>1, <1>5 DEF OnlyRound

\* only takes exactly the elements in T, and as many as s has places with one.
LEMMA OnlyElements ==
    ASSUME NEW X, NEW s \in Seq(X), NEW T
    PROVE  /\ ToSet(only(s, T)) = ToSet(s) \cap T
           /\ Len(only(s, T)) = Cardinality({i \in 1 .. Len(s) : s[i] \in T})
           /\ Len(only(s, T)) <= Len(s)
<1> DEFINE o == only(s, T)
           K == {i \in 1 .. Len(s) : s[i] \in T}
<1>1. o \in Seq(X) /\ Len(o) \in Nat /\ Len(s) \in Nat
  BY OnlyPlaces
<1>2. PICK at : KeptPlaces(at, o, s, Len(s), T)
  BY OnlyPlaces
<1> HIDE DEF o
<1>3. ToSet(o) = ToSet(s) \cap T
  <2>1. DOMAIN o = 1 .. Len(o) /\ DOMAIN s = 1 .. Len(s)
    BY <1>1
  <2>2. ASSUME NEW p \in 1 .. Len(o)
        PROVE  o[p] \in ToSet(s) \cap T
    BY <1>2, <2>1 DEF KeptPlaces, ToSet
  <2>3. ASSUME NEW i \in 1 .. Len(s), s[i] \in T
        PROVE  \E p \in 1 .. Len(o) : o[p] = s[i]
    BY <1>2, <2>3 DEF KeptPlaces
  <2> QED
    BY <2>1, <2>2, <2>3 DEF ToSet
<1>4. Len(o) = Cardinality(K)
  <2>1. at \in [1 .. Len(o) -> K]
    BY <1>2 DEF KeptPlaces
  <2>2. \A p, q \in 1 .. Len(o) : at[p] = at[q] => p = q
    <3> SUFFICES ASSUME NEW p \in 1 .. Len(o), NEW q \in 1 .. Len(o), at[p] = at[q]
                 PROVE  p = q
      OBVIOUS
    <3>1. ~ (p < q) /\ ~ (q < p)
      BY <1>1, <1>2 DEF KeptPlaces
    <3> QED
      BY <1>1, <3>1
  <2>3. \A i \in K : \E p \in 1 .. Len(o) : at[p] = i
    BY <1>2 DEF KeptPlaces
  <2> HIDE DEF K
  <2> QED
    BY <1>1, <2>1, <2>2, <2>3, CountByList
<1>5. Cardinality(K) <= Len(s)
  <2>1. IsFiniteSet(1 .. Len(s)) /\ Cardinality(1 .. Len(s)) = Len(s)
    BY <1>1, CountUpTo
  <2>2. K \in SUBSET (1 .. Len(s))
    OBVIOUS
  <2> QED
    BY <2>1, <2>2, FS_Subset
<1> QED
  BY <1>3, <1>4, <1>5 DEF o

\* only makes no element occur twice.
LEMMA OnlyDistinct ==
    ASSUME NEW X, NEW s \in Seq(X), NEW T, IsInjective(s)
    PROVE  IsInjective(only(s, T))
<1> DEFINE o == only(s, T)
<1>1. o \in Seq(X) /\ Len(o) \in Nat
  BY OnlyPlaces
<1>2. PICK at : KeptPlaces(at, o, s, Len(s), T)
  BY OnlyPlaces
<1> HIDE DEF o
<1> SUFFICES ASSUME NEW p \in DOMAIN o, NEW q \in DOMAIN o, o[p] = o[q]
             PROVE  p = q
  BY DEF IsInjective, o
<1>3. p \in 1 .. Len(o) /\ q \in 1 .. Len(o)
  BY <1>1
<1>4. at[p] = at[q]
  <2>1. at[p] \in DOMAIN s /\ at[q] \in DOMAIN s /\ s[at[p]] = s[at[q]]
    BY <1>2, <1>3 DEF KeptPlaces
  <2> QED
    BY <2>1 DEF IsInjective
<1>5. ~ (p < q) /\ ~ (q < p)
  BY <1>2, <1>3, <1>4 DEF KeptPlaces
<1> QED
  BY <1>3, <1>5
-----------------------------------------------------------------------------
(* first_above                                                             *)

\* The rounds of first_above.
AboveRound(f, n, above) ==
    /\ f \in [0 .. n -> [lo : 0 .. n, hi : 0 .. n]]
    /\ f[0] = [lo |-> 0, hi |-> n]
    /\ \A i \in 1 .. n : f[i] =
          LET mid == f[i - 1].lo + (f[i - 1].hi - f[i - 1].lo) \div 2
          IN  IF f[i - 1].lo >= f[i - 1].hi THEN f[i - 1]
              ELSE IF mid + 1 \in above THEN [lo |-> f[i - 1].lo, hi |-> mid]
              ELSE [lo |-> mid + 1, hi |-> f[i - 1].hi]

\* first_above is computed by rounds.
LEMMA AboveRounds ==
    ASSUME NEW n \in Nat, NEW above
    PROVE  \E f : AboveRound(f, n, above) /\ first_above(n, above) = f[n].lo
<1> DEFINE V == [lo : 0 .. n, hi : 0 .. n]
           a == [lo |-> 0, hi |-> n]
           step(b) ==
               LET mid == b.lo + (b.hi - b.lo) \div 2
               IN  IF b.lo >= b.hi THEN b
                   ELSE IF mid + 1 \in above THEN [lo |-> b.lo, hi |-> mid]
                   ELSE [lo |-> mid + 1, hi |-> b.hi]
           Body(f) == [i \in 0 .. n |-> IF i = 0 THEN a ELSE step(f[i - 1])]
           round[i \in 0 .. n] == IF i = 0 THEN a ELSE step(round[i - 1])
           G == [i \in 1 .. n |-> [b \in V |-> step(b)]]
<1>1. a \in V
  OBVIOUS
<1>2. \A b \in V : step(b) \in V
  OBVIOUS
<1>3. first_above(n, above) = round[n].lo /\ round = CHOOSE ff : ff = Body(ff)
  BY DEF first_above
<1> HIDE DEF V, round, step, a
<1>4. G \in [1 .. n -> [V -> V]] /\ \A i \in 1 .. n, b \in V : G[i][b] = step(b)
  BY <1>2
<1> HIDE DEF G
<1>5. PICK f : Iterates(f, n, V, a, G)
  BY <1>1, <1>4, Recursion
<1>6. round = Body(round)
  <2>1. f = Body(f)
    BY <1>4, <1>5 DEF Iterates
  <2> HIDE DEF Body
  <2> QED
    BY <1>3, <2>1
<1>7. round[0] = a /\ \A i \in 1 .. n : round[i] = step(round[i - 1])
  BY <1>6
<1>8. round \in [0 .. n -> V]
  <2>1. \A i \in 0 .. n : round[i] \in V
    BY <1>1, <1>2, <1>7, Throughout
  <2> QED
    BY <1>6, <2>1
<1>9. AboveRound(round, n, above)
  BY <1>7, <1>8 DEF AboveRound, V, a, step
<1> QED
  BY <1>3, <1>9

\* first_above returns one of the n places or n.
LEMMA AboveRange ==
    ASSUME NEW n \in Nat, NEW above
    PROVE  first_above(n, above) \in 0 .. n
<1>1. PICK f : AboveRound(f, n, above) /\ first_above(n, above) = f[n].lo
  BY AboveRounds
<1>2. f \in [0 .. n -> [lo : 0 .. n, hi : 0 .. n]]
  BY <1>1 DEF AboveRound
<1> QED
  BY <1>1, <1>2

\* When what lies behind a place that is above is above, too, first_above finds
\* the boundary.
LEMMA AboveBoundary ==
    ASSUME NEW n \in Nat, NEW above,
           \A i, j \in 1 .. n : i <= j /\ i \in above => j \in above
    PROVE  \A i \in 1 .. n : i \in above <=> i > first_above(n, above)
<1>1. PICK f : AboveRound(f, n, above) /\ first_above(n, above) = f[n].lo
  BY AboveRounds
<1> DEFINE V == {b \in [lo : 0 .. n, hi : 0 .. n] :
                    /\ b.lo <= b.hi
                    /\ \A j \in 1 .. n : (j <= b.lo => j \notin above) /\ (j > b.hi => j \in above)}
           S == {i \in 0 .. n : f[i].hi - f[i].lo <= n - i}
<1>2. f[0] \in V
  <2>1. f[0] = [lo |-> 0, hi |-> n]
    BY <1>1 DEF AboveRound
  <2>2. f[0].lo = 0 /\ f[0].hi = n /\ f[0] \in [lo : 0 .. n, hi : 0 .. n]
    BY <2>1
  <2> QED
    BY <2>2
<1>3. ASSUME NEW i \in 1 .. n, f[i - 1] \in V
      PROVE  f[i] \in V /\ (f[i - 1].hi - f[i - 1].lo <= n - (i - 1) => f[i].hi - f[i].lo <= n - i)
  <2> DEFINE lo == f[i - 1].lo
             hi == f[i - 1].hi
             mid == lo + (hi - lo) \div 2
  <2>1. /\ lo \in 0 .. n /\ hi \in 0 .. n /\ lo <= hi
        /\ \A j \in 1 .. n : (j <= lo => j \notin above) /\ (j > hi => j \in above)
    BY <1>3
  <2>2. f[i] = IF lo >= hi THEN f[i - 1]
               ELSE IF mid + 1 \in above THEN [lo |-> lo, hi |-> mid] ELSE [lo |-> mid + 1, hi |-> hi]
    BY <1>1 DEF AboveRound
  <2>3. CASE lo >= hi
    BY <1>3, <2>1, <2>2, <2>3
  <2>4. CASE lo < hi
    <3>1. mid \in 0 .. n /\ lo <= mid /\ mid < hi /\ mid + 1 \in 1 .. n
      BY <2>1, <2>4
    <3> HIDE DEF mid, lo, hi
    <3>2. CASE mid + 1 \in above
      <4>1. f[i] = [lo |-> lo, hi |-> mid]
        BY <2>1, <2>2, <2>4, <3>2
      <4>2. \A j \in 1 .. n : j > mid => j \in above
        BY <3>1, <3>2
      <4> QED
        BY <2>1, <3>1, <4>1, <4>2 DEF lo, hi
    <3>3. CASE mid + 1 \notin above
      <4>1. f[i] = [lo |-> mid + 1, hi |-> hi]
        BY <2>1, <2>2, <2>4, <3>3
      <4>2. \A j \in 1 .. n : j <= mid + 1 => j \notin above
        BY <3>1, <3>3
      <4> QED
        BY <2>1, <3>1, <4>1, <4>2 DEF lo, hi
    <3> QED
      BY <3>2, <3>3
  <2> QED
    BY <2>1, <2>3, <2>4
<1>4. \A i \in 0 .. n : f[i] \in V
  <2> HIDE DEF V
  <2> QED
    BY <1>2, <1>3, Throughout
<1>5. n \in S
  <2>1. 0 \in S
    BY <1>1 DEF AboveRound
  <2>2. ASSUME NEW i \in 1 .. n, i - 1 \in S PROVE i \in S
    <3>1. f[i - 1] \in V /\ i \in 0 .. n
      BY <1>4
    <3> HIDE DEF V
    <3> QED
      BY <1>3, <2>2, <3>1
  <2> HIDE DEF S
  <2>3. 0 .. n \subseteq S
    BY <2>1, <2>2, SetInduction
  <2> QED
    BY <2>3
<1> DEFINE b == f[n]
<1>6. b \in V /\ b.hi - b.lo <= 0
  BY <1>4, <1>5
<1> HIDE DEF b
<1>7. b.hi = b.lo /\ b.lo \in 0 .. n
  BY <1>6
<1> QED
  BY <1>1, <1>6, <1>7 DEF b
-----------------------------------------------------------------------------
(* The elements of sequences                                               *)

\* The elements of two sequences one behind the other are those of both.
LEMMA ElementsOfBoth ==
    ASSUME NEW X, NEW s \in Seq(X), NEW t \in Seq(X)
    PROVE  ToSet(s \o t) = ToSet(s) \cup ToSet(t)
<1> DEFINE r == s \o t
           n == Len(s) + Len(t)
<1>1. /\ Len(s) \in Nat /\ Len(t) \in Nat
      /\ DOMAIN s = 1 .. Len(s) /\ DOMAIN t = 1 .. Len(t) /\ DOMAIN r = 1 .. n
  OBVIOUS
<1>2. \A i \in 1 .. Len(s) : i \in 1 .. n /\ r[i] = s[i]
  BY <1>1
<1>3. \A i \in 1 .. Len(t) : Len(s) + i \in 1 .. n /\ r[Len(s) + i] = t[i]
  BY <1>1
<1>4. ASSUME NEW i \in 1 .. n, i \notin 1 .. Len(s)
      PROVE  i - Len(s) \in 1 .. Len(t) /\ r[i] = t[i - Len(s)]
  BY <1>1, <1>4
<1> DEFINE U == ToSet(s) \cup ToSet(t)
<1> HIDE DEF r, n
<1>5. \A i \in 1 .. n : r[i] \in U
  BY <1>1, <1>2, <1>4 DEF ToSet
<1>6. \A x \in U : \E i \in 1 .. n : r[i] = x
  BY <1>1, <1>2, <1>3 DEF ToSet
<1> HIDE DEF U
<1>7. ToSet(r) = {r[i] : i \in 1 .. n}
  BY <1>1 DEF ToSet
<1>8. ToSet(r) = U
  BY <1>5, <1>6, <1>7
<1> QED
  BY <1>8 DEF r, U
-----------------------------------------------------------------------------
(* stable_sort                                                             *)

\* A set of numbers up to n that is not empty has a largest element.
LEMMA Greatest ==
    ASSUME NEW n \in Nat, NEW T \in SUBSET (1 .. n), T # {}
    PROVE  Max(T) \in T /\ \A y \in T : Max(T) >= y
<1> DEFINE U == {u \in 0 .. n : n - u \in T}
<1>1. U \in SUBSET Nat /\ U # {}
  <2>1. PICK y \in T : TRUE
    OBVIOUS
  <2>2. n - y \in 0 .. n /\ n - (n - y) = y
    OBVIOUS
  <2>3. n - y \in U
    BY <2>2
  <2>4. \A u \in U : u \in Nat
    OBVIOUS
  <2> HIDE DEF U
  <2> QED
    BY <2>3, <2>4
<1> HIDE DEF U
<1>2. PICK u \in U : \A v \in U : u <= v
  BY <1>1, Least
<1>3. n - u \in T /\ u \in 0 .. n
  BY <1>2 DEF U
<1>4. ASSUME NEW y \in T
      PROVE  n - u >= y
  <2>1. y \in 1 .. n /\ n - y \in 0 .. n /\ n - (n - y) = y
    OBVIOUS
  <2>2. n - y \in U
    BY <2>1 DEF U
  <2>3. u <= n - y
    BY <1>2, <2>2
  <2> QED
    BY <1>3, <2>1, <2>3
<1> QED
  BY <1>3, <1>4 DEF Max

\* The elements of s from place a to place b.
LEMMA Slice ==
    ASSUME NEW X, NEW s \in Seq(X), NEW a \in 0 .. Len(s), NEW b \in a .. Len(s)
    PROVE  /\ SubSeq(s, a + 1, b) \in Seq(X)
           /\ Len(SubSeq(s, a + 1, b)) = b - a
           /\ \A i \in 1 .. b - a : SubSeq(s, a + 1, b)[i] = s[a + i]
<1>1. Len(s) \in Nat /\ a \in Nat /\ b \in Nat /\ a <= b /\ b <= Len(s)
  OBVIOUS
<1> DEFINE t == SubSeq(s, a + 1, b)
<1>2. t = [i \in 1 .. b - a |-> s[a + i]]
  BY <1>1
<1> HIDE DEF t
<1>3. \A i \in 1 .. b - a : s[a + i] \in X
  BY <1>1
<1>4. t \in Seq(X) /\ Len(t) = b - a
  BY <1>1, <1>2, <1>3
<1> QED
  BY <1>2, <1>4 DEF t

\* r is p with q behind it.
Behind(r, p, q, X) ==
    /\ r \in Seq(X) /\ Len(r) = Len(p) + Len(q)
    /\ \A i \in 1 .. Len(p) : r[i] = p[i]
    /\ \A j \in 1 .. Len(q) : r[Len(p) + j] = q[j]

\* Concatenation puts one sequence behind another.
LEMMA Concatenation ==
    ASSUME NEW X, NEW p \in Seq(X), NEW q \in Seq(X)
    PROVE  Behind(p \o q, p, q, X)
<1> DEFINE r == p \o q
<1>1. r \in Seq(X) /\ Len(r) = Len(p) + Len(q) /\ Len(p) \in Nat /\ Len(q) \in Nat
  OBVIOUS
<1>2. \A i \in 1 .. Len(p) : r[i] = p[i]
  OBVIOUS
<1>3. ASSUME NEW j \in 1 .. Len(q)
      PROVE  r[Len(p) + j] = q[j]
  OBVIOUS
<1> QED
  BY <1>1, <1>2, <1>3 DEF Behind

\* The place an element is inserted at.
Gap(s, x, less) ==
    LET stays == {i \in DOMAIN s : <<x, s[i]>> \notin less}
    IN  IF 1 \in stays THEN Max(stays) ELSE 0

\* r is s with x put behind the first g elements.
PutIn(r, g, s, x, X) ==
    /\ g \in 0 .. Len(s)
    /\ r \in Seq(X) /\ Len(r) = Len(s) + 1
    /\ r[g + 1] = x
    /\ \A i \in 1 .. g : r[i] = s[i]
    /\ \A i \in g + 1 .. Len(s) : r[i + 1] = s[i]

\* inserted puts x into the gap and leaves the others alone.
LEMMA InsertedAt ==
    ASSUME NEW X, NEW s \in Seq(X), NEW x \in X, NEW less
    PROVE  PutIn(inserted(s, x, less), Gap(s, x, less), s, x, X)
<1> DEFINE g == Gap(s, x, less)
           stays == {i \in DOMAIN s : <<x, s[i]>> \notin less}
<1>1. Len(s) \in Nat /\ DOMAIN s = 1 .. Len(s)
  OBVIOUS
<1>2. g \in 0 .. Len(s)
  <2>1. CASE 1 \in stays
    <3>1. stays \in SUBSET (1 .. Len(s)) /\ stays # {}
      BY <1>1, <2>1
    <3> HIDE DEF stays
    <3>2. Max(stays) \in 1 .. Len(s)
      BY <1>1, <3>1, Greatest
    <3>3. g = Max(stays)
      BY <2>1 DEF Gap, stays
    <3> QED
      BY <1>1, <3>2, <3>3
  <2>2. CASE 1 \notin stays
    BY <1>1, <2>2 DEF Gap
  <2> QED
    BY <2>1, <2>2
<1>3. inserted(s, x, less) = SubSeq(s, 1, g) \o <<x>> \o SubSeq(s, g + 1, Len(s))
  BY DEF inserted, Gap
<1> HIDE DEF g
<1> DEFINE a == SubSeq(s, 1, g)
           b == SubSeq(s, g + 1, Len(s))
<1>4. a \in Seq(X) /\ Len(a) = g /\ \A i \in 1 .. g : a[i] = s[i]
  BY <1>1, <1>2
<1>5. b \in Seq(X) /\ Len(b) = Len(s) - g /\ \A i \in 1 .. Len(s) - g : b[i] = s[g + i]
  <2>1. Len(s) \in g .. Len(s)
    BY <1>1, <1>2
  <2> QED
    BY <1>2, <2>1, Slice
<1>6. <<x>> \in Seq(X) /\ Len(<<x>>) = 1 /\ <<x>>[1] = x
  OBVIOUS
<1> HIDE DEF a, b
<1> DEFINE c == a \o <<x>>
           r == c \o b
<1>7. c \in Seq(X) /\ Len(c) = g + 1 /\ c[g + 1] = x /\ \A i \in 1 .. g : c[i] = s[i]
  BY <1>1, <1>2, <1>4, <1>6
<1> HIDE DEF c
<1>8. r \in Seq(X) /\ Len(r) = Len(s) + 1
  BY <1>1, <1>2, <1>5, <1>7
<1>9. r[g + 1] = x /\ \A i \in 1 .. g : r[i] = s[i]
  BY <1>1, <1>2, <1>5, <1>7
<1>10. ASSUME NEW i \in g + 1 .. Len(s)
       PROVE  r[i + 1] = s[i]
  <2>1. i - g \in 1 .. Len(s) - g /\ i + 1 = Len(c) + (i - g) /\ g + (i - g) = i
    BY <1>1, <1>2, <1>7
  <2>2. r[i + 1] = b[i - g]
    BY <1>1, <1>2, <1>5, <1>7, <2>1
  <2> QED
    BY <1>5, <2>1, <2>2
<1>11. inserted(s, x, less) = r
  BY <1>3 DEF r, c, a, b
<1> HIDE DEF r
<1> QED
  BY <1>2, <1>8, <1>9, <1>10, <1>11 DEF g, PutIn

\* The rounds of stable_sort.
SortRound(f, X, s, less) ==
    /\ f \in [0 .. Len(s) -> Seq(X)]
    /\ f[0] = << >>
    /\ \A i \in 1 .. Len(s) : f[i] = inserted(f[i - 1], s[i], less)

\* stable_sort is computed by rounds.
LEMMA SortRounds ==
    ASSUME NEW X, NEW s \in Seq(X), NEW less
    PROVE  \E f : SortRound(f, X, s, less) /\ stable_sort(s, less) = f[Len(s)]
<1> DEFINE n == Len(s)
           V == Seq(X)
           step(i, p) == inserted(p, s[i], less)
           Body(f) == [i \in 0 .. n |-> IF i = 0 THEN << >> ELSE step(i, f[i - 1])]
           upto[i \in 0 .. n] == IF i = 0 THEN << >> ELSE step(i, upto[i - 1])
           G == [i \in 1 .. n |-> [p \in V |-> step(i, p)]]
<1>1. n \in Nat
  OBVIOUS
<1>2. << >> \in V
  OBVIOUS
<1>3. ASSUME NEW i \in 1 .. n, NEW p \in V
      PROVE  step(i, p) \in V
  <2>1. s[i] \in X
    OBVIOUS
  <2> QED
    BY <2>1, InsertedAt DEF PutIn
<1>4. stable_sort(s, less) = upto[n] /\ upto = CHOOSE ff : ff = Body(ff)
  BY DEF stable_sort
<1> HIDE DEF V, upto, n, step
<1>5. G \in [1 .. n -> [V -> V]] /\ \A i \in 1 .. n, p \in V : G[i][p] = step(i, p)
  BY <1>3
<1> HIDE DEF G
<1>6. PICK f : Iterates(f, n, V, << >>, G)
  BY <1>1, <1>2, <1>5, Recursion
<1>7. upto = Body(upto)
  <2>1. f = Body(f)
    BY <1>1, <1>5, <1>6 DEF Iterates
  <2> HIDE DEF Body
  <2> QED
    BY <1>4, <2>1
<1>8. upto[0] = << >> /\ \A i \in 1 .. n : upto[i] = step(i, upto[i - 1])
  BY <1>1, <1>7
<1>9. upto \in [0 .. n -> V]
  <2>1. \A i \in 0 .. n : upto[i] \in V
    BY <1>1, <1>2, <1>3, <1>8, Throughout
  <2> QED
    BY <1>7, <2>1
<1>10. SortRound(upto, X, s, less)
  BY <1>8, <1>9 DEF n, V, step, SortRound
<1>11. stable_sort(s, less) = upto[Len(s)]
  BY <1>4 DEF n
<1> QED
  BY <1>10, <1>11

\* t has the elements of s and is as long as s.
Rearranges(t, s) == Len(t) = Len(s) /\ ToSet(t) = ToSet(s)

\* stable_sort only rearranges, whatever the comparator is.
LEMMA SortRearranges ==
    ASSUME NEW X, NEW s \in Seq(X), NEW less
    PROVE  stable_sort(s, less) \in Seq(X) /\ Rearranges(stable_sort(s, less), s)
<1>1. PICK f : SortRound(f, X, s, less) /\ stable_sort(s, less) = f[Len(s)]
  BY SortRounds
<1> DEFINE n == Len(s)
           S == {i \in 0 .. n : Len(f[i]) = i /\ ToSet(f[i]) = {s[j] : j \in 1 .. i}}
<1>2. n \in Nat /\ DOMAIN s = 1 .. n
  OBVIOUS
<1>3. 0 \in S
  BY <1>1, <1>2 DEF SortRound, ToSet
<1>4. ASSUME NEW i \in 1 .. n, i - 1 \in S
      PROVE  i \in S
  <2> DEFINE t == f[i - 1]
             r == f[i]
             g == Gap(t, s[i], less)
  <2>1. t \in Seq(X) /\ s[i] \in X /\ r = inserted(t, s[i], less)
    BY <1>1, <1>2 DEF SortRound
  <2>2. Len(t) = i - 1 /\ ToSet(t) = {s[j] : j \in 1 .. i - 1}
    BY <1>4
  <2> HIDE DEF t, r
  <2>3. /\ g \in 0 .. Len(t)
        /\ r \in Seq(X) /\ Len(r) = Len(t) + 1
        /\ r[g + 1] = s[i]
        /\ \A j \in 1 .. g : r[j] = t[j]
        /\ \A j \in g + 1 .. Len(t) : r[j + 1] = t[j]
    <3>1. PutIn(inserted(t, s[i], less), Gap(t, s[i], less), t, s[i], X)
      BY <2>1, InsertedAt
    <3> QED
      BY <2>1, <3>1 DEF PutIn
  <2> HIDE DEF g
  <2>4. DOMAIN t = 1 .. i - 1 /\ DOMAIN r = 1 .. i /\ Len(r) = i /\ g \in 0 .. i - 1
    BY <1>2, <2>1, <2>2, <2>3
  <2>5. ASSUME NEW p \in 1 .. i
        PROVE  r[p] \in ToSet(t) \cup {s[i]}
    <3>1. CASE p <= g
      <4>1. p \in 1 .. g /\ p \in DOMAIN t
        BY <2>4, <3>1
      <4>2. r[p] = t[p]
        BY <2>3, <4>1
      <4> QED
        BY <4>1, <4>2 DEF ToSet
    <3>2. CASE p = g + 1
      BY <2>3, <3>2
    <3>3. CASE p > g + 1
      <4>1. p - 1 \in g + 1 .. Len(t) /\ p - 1 + 1 = p /\ p - 1 \in DOMAIN t
        BY <2>2, <2>4, <3>3
      <4>2. r[p] = t[p - 1]
        BY <2>3, <4>1
      <4> QED
        BY <4>1, <4>2 DEF ToSet
    <3> QED
      BY <2>4, <3>1, <3>2, <3>3
  <2>6. ASSUME NEW j \in 1 .. i - 1
        PROVE  \E p \in 1 .. i : r[p] = t[j]
    BY <2>2, <2>3, <2>4
  <2>7. g + 1 \in 1 .. i
    BY <2>4
  <2>8. ToSet(r) = ToSet(t) \cup {s[i]}
    <3>1. ToSet(r) = {r[p] : p \in 1 .. i} /\ ToSet(t) = {t[p] : p \in 1 .. i - 1}
      BY <2>4 DEF ToSet
    <3>2. r[g + 1] = s[i]
      BY <2>3
    <3> QED
      BY <2>5, <2>6, <2>7, <3>1, <3>2
  <2>9. {s[j] : j \in 1 .. i} = {s[j] : j \in 1 .. i - 1} \cup {s[i]}
    <3>1. \A j : j \in 1 .. i <=> j \in 1 .. i - 1 \/ j = i
      BY <1>2
    <3> QED
      BY <3>1
  <2>10. ToSet(r) = {s[j] : j \in 1 .. i}
    BY <2>2, <2>8, <2>9
  <2> QED
    BY <2>4, <2>10 DEF r
<1>5. n \in S
  <2> HIDE DEF S
  <2>1. 0 .. n \subseteq S
    BY <1>2, <1>3, <1>4, SetInduction
  <2> QED
    BY <1>2, <2>1
<1>6. stable_sort(s, less) \in Seq(X)
  BY <1>1, <1>2 DEF SortRound
<1>7. ToSet(s) = {s[j] : j \in 1 .. n}
  BY <1>2 DEF ToSet
<1> QED
  BY <1>1, <1>5, <1>6, <1>7 DEF Rearranges
-----------------------------------------------------------------------------
(* inplace_merge                                                           *)

\* A count that starts at 0 and grows by at most one reaches every number up to
\* its last.
LEMMA Reached ==
    ASSUME NEW n \in Nat, NEW f \in [0 .. n -> Nat], f[0] = 0,
           \A i \in 1 .. n : f[i] = f[i - 1] \/ f[i] = f[i - 1] + 1,
           NEW a \in 1 .. f[n]
    PROVE  \E i \in 1 .. n : f[i] = a /\ f[i - 1] = a - 1
<1> DEFINE U == {i \in 0 .. n : f[i] >= a}
<1>1. f[n] \in Nat /\ a \in Nat /\ a >= 1 /\ n \in U
  OBVIOUS
<1>2. \A u \in U : u \in Nat
  OBVIOUS
<1>3. PICK i \in U : \A u \in U : i <= u
  <2> HIDE DEF U
  <2> QED
    BY <1>1, <1>2, Least
<1>4. i \in 1 .. n /\ f[i] >= a
  BY <1>1, <1>3
<1>5. f[i - 1] < a
  <2>1. i - 1 \in 0 .. n /\ i - 1 \notin U /\ f[i - 1] \in Nat
    <3>1. i - 1 \in 0 .. n /\ ~ (i <= i - 1)
      BY <1>4
    <3> HIDE DEF U
    <3> QED
      BY <1>3, <3>1
  <2> QED
    BY <1>1, <2>1
<1>6. f[i] \in Nat /\ f[i - 1] \in Nat /\ (f[i] = f[i - 1] \/ f[i] = f[i - 1] + 1)
  <2>1. i \in 0 .. n /\ i - 1 \in 0 .. n
    BY <1>4
  <2>2. f[i] \in Nat /\ f[i - 1] \in Nat
    BY <2>1
  <2> QED
    BY <1>4, <2>2
<1>7. f[i] = a /\ f[i - 1] = a - 1
  <2> DEFINE u == f[i]
             w == f[i - 1]
  <2>1. u >= a /\ w < a /\ u \in Nat /\ w \in Nat /\ (u = w \/ u = w + 1)
    BY <1>4, <1>5, <1>6
  <2> HIDE DEF u, w
  <2>2. u = a /\ w = a - 1
    BY <1>1, <2>1
  <2> QED
    BY <2>2 DEF u, w
<1> QED
  BY <1>4, <1>7

\* The rounds of inplace_merge: f[i] of the first i elements come from s.
FromFirst(p, q, s, t, less) ==
    p < Len(s) /\ (q = Len(t) \/ <<t[q + 1], s[p + 1]>> \notin less)

MergeRound(f, s, t, less) ==
    /\ f \in [0 .. Len(s) + Len(t) -> Nat]
    /\ f[0] = 0
    /\ \A i \in 1 .. Len(s) + Len(t) :
          f[i] = IF FromFirst(f[i - 1], i - 1 - f[i - 1], s, t, less)
                 THEN f[i - 1] + 1 ELSE f[i - 1]

Merged(f, s, t) ==
    [i \in 1 .. Len(s) + Len(t) |-> IF f[i] = f[i - 1] THEN t[i - f[i]] ELSE s[f[i]]]

\* inplace_merge puts its elements where its rounds say.
LEMMA MergeRounds ==
    ASSUME NEW X, NEW s \in Seq(X), NEW t \in Seq(X), NEW less
    PROVE  \E f : MergeRound(f, s, t, less) /\ inplace_merge(s, t, less) = Merged(f, s, t)
<1> DEFINE n == Len(s) + Len(t)
           V == Nat
           step(i, p) == IF FromFirst(p, i - 1 - p, s, t, less) THEN p + 1 ELSE p
           Body(f) == [i \in 0 .. n |-> IF i = 0 THEN 0 ELSE step(i, f[i - 1])]
           taken[i \in 0 .. n] == IF i = 0 THEN 0 ELSE step(i, taken[i - 1])
           G == [i \in 1 .. n |-> [p \in V |-> step(i, p)]]
<1>1. n \in Nat /\ 0 \in V
  OBVIOUS
<1>2. \A i \in 1 .. n, p \in V : step(i, p) \in V
  OBVIOUS
<1>3. inplace_merge(s, t, less) = Merged(taken, s, t) /\ taken = CHOOSE ff : ff = Body(ff)
  BY DEF inplace_merge, Merged, FromFirst
<1> HIDE DEF taken, n, step, V
<1>4. G \in [1 .. n -> [V -> V]] /\ \A i \in 1 .. n, p \in V : G[i][p] = step(i, p)
  BY <1>2
<1> HIDE DEF G
<1>5. PICK f : Iterates(f, n, V, 0, G)
  BY <1>1, <1>4, Recursion
<1>6. taken = Body(taken)
  <2>1. f = Body(f)
    BY <1>1, <1>4, <1>5 DEF Iterates
  <2> HIDE DEF Body
  <2> QED
    BY <1>3, <2>1
<1>7. taken[0] = 0 /\ \A i \in 1 .. n : taken[i] = step(i, taken[i - 1])
  BY <1>1, <1>6
<1>8. taken \in [0 .. n -> V]
  <2>1. \A i \in 0 .. n : taken[i] \in V
    BY <1>1, <1>2, <1>7, Throughout
  <2> QED
    BY <1>6, <2>1
<1>9. MergeRound(taken, s, t, less)
  BY <1>7, <1>8 DEF n, V, step, MergeRound
<1> QED
  BY <1>3, <1>9

\* No more is taken from either range than it has.
MergeCount(f, s, t) ==
    /\ \A i \in 0 .. Len(s) + Len(t) : f[i] \in 0 .. Len(s) /\ i - f[i] \in 0 .. Len(t)
    /\ \A i \in 1 .. Len(s) + Len(t) : f[i] = f[i - 1] \/ f[i] = f[i - 1] + 1
    /\ f[Len(s) + Len(t)] = Len(s)

\* The rounds of inplace_merge use up both ranges.
LEMMA MergeCounts ==
    ASSUME NEW X, NEW s \in Seq(X), NEW t \in Seq(X), NEW less, NEW f, MergeRound(f, s, t, less)
    PROVE  MergeCount(f, s, t)
<1> DEFINE n == Len(s) + Len(t)
           S == {i \in 0 .. n : f[i] \in 0 .. Len(s) /\ i - f[i] \in 0 .. Len(t)}
<1>1. Len(s) \in Nat /\ Len(t) \in Nat /\ n \in Nat
  OBVIOUS
<1>2. 0 \in S
  BY <1>1 DEF MergeRound
<1>3. ASSUME NEW i \in 1 .. n
      PROVE  /\ f[i] = f[i - 1] \/ f[i] = f[i - 1] + 1
             /\ f[i] = f[i - 1] + 1 => f[i - 1] < Len(s)
             /\ f[i] = f[i - 1] => f[i - 1] >= Len(s) \/ i - 1 - f[i - 1] # Len(t)
  <2> DEFINE p == f[i - 1]
             q == i - 1 - p
             fromS == FromFirst(p, q, s, t, less)
  <2>1. f[i] = IF fromS THEN p + 1 ELSE p
    BY DEF MergeRound
  <2>2. p \in Nat
    <3>1. f \in [0 .. n -> Nat]
      BY DEF MergeRound
    <3> HIDE DEF n
    <3>2. i - 1 \in 0 .. n
      BY <1>1
    <3> QED
      BY <3>1, <3>2
  <2>3. fromS => p < Len(s)
    BY DEF FromFirst
  <2>4. ~ fromS => p >= Len(s) \/ q # Len(t)
    BY <1>1, <2>2 DEF FromFirst
  <2> HIDE DEF fromS, p
  <2>5. f[i] = p \/ f[i] = p + 1
    BY <2>1
  <2>6. f[i] = p + 1 => fromS
    BY <2>1, <2>2
  <2>7. f[i] = p => ~ fromS
    BY <2>1, <2>2
  <2> QED
    BY <2>3, <2>4, <2>5, <2>6, <2>7 DEF p
<1>4. ASSUME NEW i \in 1 .. n, i - 1 \in S
      PROVE  i \in S
  <2> DEFINE a == f[i - 1]
             b == f[i]
  <2>1. /\ a \in 0 .. Len(s) /\ i - 1 - a \in 0 .. Len(t)
        /\ b = a \/ b = a + 1
        /\ b = a + 1 => a < Len(s)
        /\ b = a => a >= Len(s) \/ i - 1 - a # Len(t)
    BY <1>3, <1>4
  <2> HIDE DEF a, b
  <2>2. b \in 0 .. Len(s) /\ i - b \in 0 .. Len(t)
    BY <1>1, <2>1
  <2> QED
    BY <2>2 DEF b
<1>5. 0 .. n \subseteq S
  <2> HIDE DEF S
  <2> QED
    BY <1>1, <1>2, <1>4, SetInduction
<1>6. f[n] = Len(s)
  <2>1. n \in S
    BY <1>1, <1>5
  <2> QED
    BY <1>1, <2>1
<1> QED
  BY <1>3, <1>5, <1>6 DEF MergeCount

\* inplace_merge takes every element of both ranges, whatever the comparator is.
LEMMA MergeRearranges ==
    ASSUME NEW X, NEW s \in Seq(X), NEW t \in Seq(X), NEW less
    PROVE  /\ inplace_merge(s, t, less) \in Seq(X)
           /\ Rearranges(inplace_merge(s, t, less), s \o t)
<1> DEFINE n == Len(s) + Len(t)
           r == inplace_merge(s, t, less)
<1>1. PICK f : MergeRound(f, s, t, less) /\ r = Merged(f, s, t)
  BY MergeRounds
<1>2. MergeCount(f, s, t) /\ f[0] = 0 /\ f \in [0 .. n -> Nat]
  BY <1>1, MergeCounts DEF MergeRound
<1>3. Len(s) \in Nat /\ Len(t) \in Nat /\ n \in Nat
  OBVIOUS
<1>4. r = [i \in 1 .. n |-> IF f[i] = f[i - 1] THEN t[i - f[i]] ELSE s[f[i]]]
  BY <1>1 DEF Merged
<1> HIDE DEF r
<1>5. ASSUME NEW i \in 1 .. n
      PROVE  \/ f[i] = f[i - 1] /\ i - f[i] \in 1 .. Len(t) /\ r[i] = t[i - f[i]]
             \/ f[i] # f[i - 1] /\ f[i] \in 1 .. Len(s) /\ r[i] = s[f[i]]
  <2>1. i \in 0 .. n /\ i - 1 \in 0 .. n
    BY <1>3
  <2>2. /\ f[i] \in 0 .. Len(s) /\ i - f[i] \in 0 .. Len(t)
        /\ f[i - 1] \in 0 .. Len(s) /\ i - 1 - f[i - 1] \in 0 .. Len(t)
        /\ f[i] = f[i - 1] \/ f[i] = f[i - 1] + 1
    BY <1>2, <2>1 DEF MergeCount
  <2>3. r[i] = IF f[i] = f[i - 1] THEN t[i - f[i]] ELSE s[f[i]]
    BY <1>4
  <2> DEFINE a == f[i - 1]
             b == f[i]
  <2> HIDE DEF a, b
  <2>4. /\ b \in 0 .. Len(s) /\ i - b \in 0 .. Len(t)
        /\ a \in 0 .. Len(s) /\ i - 1 - a \in 0 .. Len(t)
        /\ b = a \/ b = a + 1
    BY <2>2 DEF a, b
  <2>5. (b = a => i - b \in 1 .. Len(t)) /\ (b # a => b \in 1 .. Len(s))
    BY <1>3, <2>4
  <2> QED
    BY <2>3, <2>5 DEF a, b
<1>6. ASSUME NEW a \in 1 .. Len(s)
      PROVE  \E i \in 1 .. n : r[i] = s[a]
  <2>1. f[n] = Len(s) /\ \A i \in 1 .. n : f[i] = f[i - 1] \/ f[i] = f[i - 1] + 1
    BY <1>2 DEF MergeCount
  <2>2. PICK i \in 1 .. n : f[i] = a /\ f[i - 1] = a - 1
    <3> HIDE DEF n
    <3> QED
      BY <1>2, <1>3, <2>1, Reached
  <2>3. f[i] # f[i - 1]
    BY <2>2
  <2> QED
    BY <1>5, <2>2, <2>3
<1>7. ASSUME NEW a \in 1 .. Len(t)
      PROVE  \E i \in 1 .. n : r[i] = t[a]
  <2> DEFINE h == [i \in 0 .. n |-> i - f[i]]
  <2>1. h \in [0 .. n -> Nat] /\ h[0] = 0
    BY <1>2, <1>3 DEF MergeCount
  <2>2. h[n] = Len(t)
    BY <1>2, <1>3 DEF MergeCount
  <2>3. ASSUME NEW i \in 1 .. n
        PROVE  h[i] = h[i - 1] \/ h[i] = h[i - 1] + 1
    <3>1. h[i] = i - f[i] /\ h[i - 1] = i - 1 - f[i - 1]
      BY <1>3
    <3>2. (f[i] = f[i - 1] \/ f[i] = f[i - 1] + 1) /\ f[i] \in Nat /\ f[i - 1] \in Nat
      BY <1>2, <1>3 DEF MergeCount
    <3> QED
      BY <3>1, <3>2
  <2>4. PICK i \in 1 .. n : h[i] = a /\ h[i - 1] = a - 1
    <3> HIDE DEF n, h
    <3> QED
      BY <1>3, <2>1, <2>2, <2>3, Reached
  <2>5. i - f[i] = a /\ i - 1 - f[i - 1] = a - 1
    BY <1>3, <2>4
  <2>6. f[i] \in Nat /\ f[i - 1] \in Nat
    <3>1. i \in 0 .. n /\ i - 1 \in 0 .. n
      BY <1>3
    <3> HIDE DEF n
    <3> QED
      BY <1>2, <3>1
  <2>7. f[i] = f[i - 1]
    BY <2>5, <2>6
  <2> QED
    BY <1>5, <2>5, <2>7
<1>8. DOMAIN s = 1 .. Len(s) /\ DOMAIN t = 1 .. Len(t)
  OBVIOUS
<1>9. \A i \in 1 .. n : r[i] \in X
  BY <1>5, <1>8
<1>10. r \in Seq(X) /\ Len(r) = n /\ DOMAIN r = 1 .. n
  BY <1>3, <1>4, <1>9
<1>11. Len(s \o t) = n /\ ToSet(s \o t) = ToSet(s) \cup ToSet(t)
  BY <1>3, ElementsOfBoth
<1>12. ToSet(r) = ToSet(s) \cup ToSet(t)
  <2> DEFINE U == ToSet(s) \cup ToSet(t)
  <2> HIDE DEF n
  <2>1. \A i \in 1 .. n : r[i] \in U
    BY <1>5, <1>8 DEF ToSet
  <2>2. \A x \in U : \E i \in 1 .. n : r[i] = x
    BY <1>6, <1>7, <1>8 DEF ToSet
  <2> HIDE DEF U
  <2>3. ToSet(r) = {r[i] : i \in 1 .. n}
    BY <1>10 DEF ToSet
  <2>4. ToSet(r) = U
    BY <2>1, <2>2, <2>3
  <2> QED
    BY <2>4 DEF U
<1> QED
  BY <1>10, <1>11, <1>12 DEF Rearranges, r
-----------------------------------------------------------------------------
(* Sorting with a comparator that is an order                              *)

\* On the elements of U the comparator is a strict total order.
Linear(less, U) ==
    /\ \A x, y \in U : ~ (<<x, y>> \in less /\ <<y, x>> \in less)
    /\ \A x, y \in U : x # y => <<x, y>> \in less \/ <<y, x>> \in less
    /\ \A x, y, z \in U : <<x, y>> \in less /\ <<y, z>> \in less => <<x, z>> \in less

\* Every element of s is less than those behind it.
InOrder(s, less) == \A i, j \in 1 .. Len(s) : i < j => <<s[i], s[j]>> \in less

\* inserted puts an element where it belongs.
LEMMA InsertedInOrder ==
    ASSUME NEW less, NEW U, Linear(less, U), NEW s \in Seq(U), InOrder(s, less),
           NEW x \in U, \A i \in 1 .. Len(s) : s[i] # x
    PROVE  InOrder(inserted(s, x, less), less)
<1> DEFINE n == Len(s)
           g == Gap(s, x, less)
           r == inserted(s, x, less)
           stays == {i \in DOMAIN s : <<x, s[i]>> \notin less}
<1>1. n \in Nat /\ DOMAIN s = 1 .. n /\ \A i \in 1 .. n : s[i] \in U
  OBVIOUS
<1>2. PutIn(r, g, s, x, U)
  BY InsertedAt
<1>3. \A i \in 1 .. n : i \in stays <=> <<s[i], x>> \in less
  BY <1>1 DEF Linear
<1>4. ASSUME NEW i \in 1 .. n, NEW j \in 1 .. n, i < j, j \in stays
      PROVE  i \in stays
  <2>1. <<s[i], s[j]>> \in less /\ <<s[j], x>> \in less
    BY <1>3, <1>4 DEF InOrder
  <2>2. <<s[i], x>> \in less
    BY <1>1, <2>1 DEF Linear
  <2> QED
    BY <1>3, <2>2
<1>5. g = IF 1 \in stays THEN Max(stays) ELSE 0
  BY DEF Gap
<1>6. stays \subseteq 1 .. n
  BY <1>1
<1> HIDE DEF stays, g, r, n
<1>7. \A i \in 1 .. n : i \in stays <=> i <= g
  <2>1. CASE 1 \in stays
    <3>1. g \in stays /\ \A y \in stays : g >= y
      BY <1>1, <1>5, <1>6, <2>1, Greatest
    <3>2. g \in 1 .. n
      BY <1>6, <3>1
    <3>3. ASSUME NEW i \in 1 .. n
          PROVE  i \in stays <=> i <= g
      <4>1. CASE i < g
        BY <1>4, <3>1, <3>2, <4>1
      <4>2. CASE i >= g
        BY <3>1, <3>2, <4>2
      <4> QED
        BY <3>2, <4>1, <4>2
    <3> QED
      BY <3>3
  <2>2. CASE 1 \notin stays
    <3>1. \A i \in 1 .. n : i \notin stays
      <4> SUFFICES ASSUME NEW i \in 1 .. n, i \in stays
                   PROVE  FALSE
        OBVIOUS
      <4>1. 1 \in 1 .. n /\ i # 1
        BY <1>1, <2>2
      <4>2. 1 < i
        BY <4>1
      <4> QED
        BY <1>4, <2>2, <4>1, <4>2
    <3>2. g = 0
      BY <1>5, <2>2
    <3> QED
      BY <3>1, <3>2
  <2> QED
    BY <2>1, <2>2
<1>8. /\ g \in 0 .. n /\ Len(r) = n + 1 /\ r[g + 1] = x
      /\ \A i \in 1 .. g : r[i] = s[i]
      /\ \A i \in g + 1 .. n : r[i + 1] = s[i]
  BY <1>2 DEF PutIn, n
<1>9. \A i \in 1 .. n : IF i <= g THEN <<s[i], x>> \in less ELSE <<x, s[i]>> \in less
  <2>1. \A i \in 1 .. n : <<s[i], x>> \in less \/ <<x, s[i]>> \in less
    BY <1>1 DEF Linear, n
  <2> QED
    BY <1>3, <1>7, <2>1
<1>10. ASSUME NEW i \in 1 .. n + 1, NEW j \in 1 .. n + 1, i < j
       PROVE  <<r[i], r[j]>> \in less
  <2>1. CASE j <= g
    <3>1. i \in 1 .. g /\ j \in 1 .. g /\ i \in 1 .. n /\ j \in 1 .. n
      BY <1>1, <1>8, <1>10, <2>1
    <3>2. <<s[i], s[j]>> \in less
      BY <1>10, <3>1 DEF InOrder, n
    <3> QED
      BY <1>8, <3>1, <3>2
  <2>2. CASE j = g + 1
    <3>1. i \in 1 .. g /\ i \in 1 .. n /\ i <= g
      BY <1>1, <1>8, <1>10, <2>2
    <3>2. <<s[i], x>> \in less
      BY <1>9, <3>1
    <3> QED
      BY <1>8, <2>2, <3>1, <3>2
  <2>3. CASE j > g + 1
    <3>1. j - 1 \in g + 1 .. n /\ j - 1 \in 1 .. n /\ j - 1 + 1 = j /\ ~ (j - 1 <= g)
      BY <1>1, <1>8, <2>3
    <3>2. r[j] = s[j - 1]
      BY <1>8, <3>1
    <3>3. CASE i <= g
      <4>1. i \in 1 .. g /\ i \in 1 .. n /\ i < j - 1
        BY <1>1, <1>8, <2>3, <3>3
      <4>2. <<s[i], s[j - 1]>> \in less
        BY <3>1, <4>1 DEF InOrder, n
      <4> QED
        BY <1>8, <3>2, <4>1, <4>2
    <3>4. CASE i = g + 1
      BY <1>8, <1>9, <3>1, <3>2, <3>4
    <3>5. CASE i > g + 1
      <4>1. i - 1 \in g + 1 .. n /\ i - 1 \in 1 .. n /\ i - 1 + 1 = i /\ i - 1 < j - 1
        BY <1>1, <1>8, <1>10, <3>5
      <4>2. r[i] = s[i - 1]
        BY <1>8, <4>1
      <4>3. <<s[i - 1], s[j - 1]>> \in less
        BY <3>1, <4>1 DEF InOrder, n
      <4> QED
        BY <3>2, <4>2, <4>3
    <3> QED
      BY <1>8, <3>3, <3>4, <3>5
  <2> QED
    BY <1>8, <2>1, <2>2, <2>3
<1> QED
  BY <1>8, <1>10 DEF InOrder, r

\* stable_sort puts the elements in order.
LEMMA SortInOrder ==
    ASSUME NEW less, NEW U, Linear(less, U), NEW s \in Seq(U),
           \A i, j \in 1 .. Len(s) : s[i] = s[j] => i = j
    PROVE  InOrder(stable_sort(s, less), less)
<1>1. PICK f : SortRound(f, U, s, less) /\ stable_sort(s, less) = f[Len(s)]
  BY SortRounds
<1> DEFINE n == Len(s)
           From(i) == \A p \in 1 .. Len(f[i]) : \E j \in 1 .. i : f[i][p] = s[j]
           S == {i \in 0 .. n : From(i) /\ InOrder(f[i], less)}
<1>2. n \in Nat /\ \A i \in 1 .. n : s[i] \in U
  OBVIOUS
<1>3. 0 \in S
  <2>1. f[0] = << >> /\ 1 .. Len(f[0]) = {}
    BY <1>1 DEF SortRound
  <2> QED
    BY <1>2, <2>1 DEF InOrder
<1>4. ASSUME NEW i \in 1 .. n, i - 1 \in S
      PROVE  i \in S
  <2> DEFINE t == f[i - 1]
             r == f[i]
             g == Gap(t, s[i], less)
  <2>1. t \in Seq(U) /\ s[i] \in U /\ r = inserted(t, s[i], less)
    BY <1>1, <1>2 DEF SortRound
  <2>2. InOrder(t, less) /\ \A p \in 1 .. Len(t) : \E j \in 1 .. i - 1 : t[p] = s[j]
    BY <1>4
  <2> HIDE DEF t, r, S, From
  <2>3. \A p \in 1 .. Len(t) : t[p] # s[i]
    <3>1. \A j \in 1 .. i - 1 : j \in 1 .. n /\ j # i
      BY <1>2
    <3> QED
      BY <2>2, <3>1
  <2>4. InOrder(r, less)
    BY <2>1, <2>2, <2>3, InsertedInOrder
  <2>5. PutIn(r, g, t, s[i], U)
    BY <2>1, InsertedAt
  <2> HIDE DEF g
  <2>6. ASSUME NEW p \in 1 .. Len(r)
        PROVE  \E j \in 1 .. i : r[p] = s[j]
    <3>1. /\ g \in 0 .. Len(t) /\ Len(r) = Len(t) + 1 /\ Len(t) \in Nat
          /\ r[g + 1] = s[i]
          /\ \A j \in 1 .. g : r[j] = t[j]
          /\ \A j \in g + 1 .. Len(t) : r[j + 1] = t[j]
      BY <2>1, <2>5 DEF PutIn
    <3>2. CASE p = g + 1
      BY <3>1, <3>2
    <3>3. CASE p # g + 1
      <4>1. \E q \in 1 .. Len(t) : r[p] = t[q]
        <5>1. CASE p <= g
          BY <3>1, <5>1
        <5>2. CASE p > g + 1
          <6>1. p - 1 \in g + 1 .. Len(t) /\ p - 1 \in 1 .. Len(t) /\ p - 1 + 1 = p
            BY <3>1, <5>2
          <6> QED
            BY <3>1, <6>1
        <5> QED
          BY <3>1, <3>3, <5>1, <5>2
      <4>2. PICK q \in 1 .. Len(t) : r[p] = t[q]
        BY <4>1
      <4>3. PICK j \in 1 .. i - 1 : t[q] = s[j]
        BY <2>2
      <4>4. j \in 1 .. i
        OBVIOUS
      <4> QED
        BY <4>2, <4>3, <4>4
    <3> QED
      BY <3>2, <3>3
  <2> QED
    BY <2>4, <2>6 DEF S, From, r
<1>5. n \in S
  <2> HIDE DEF S
  <2>1. 0 .. n \subseteq S
    BY <1>2, <1>3, <1>4, SetInduction
  <2> QED
    BY <1>2, <2>1
<1> QED
  BY <1>1, <1>5

\* A sequence in which no element is less than the one before it is in order.
LEMMA SortedInOrder ==
    ASSUME NEW less, NEW U, Linear(less, U), NEW s \in Seq(U),
           \A i, j \in 1 .. Len(s) : s[i] = s[j] => i = j, is_sorted(s, less)
    PROVE  InOrder(s, less)
<1> DEFINE n == Len(s)
           S == {j \in 0 .. n : \A i \in 1 .. j - 1 : <<s[i], s[j]>> \in less}
<1>1. n \in Nat /\ \A i \in 1 .. n : s[i] \in U
  OBVIOUS
<1>2. \A i \in 1 .. n - 1 : <<s[i], s[i + 1]>> \in less
  <2> SUFFICES ASSUME NEW i \in 1 .. n - 1
               PROVE  <<s[i], s[i + 1]>> \in less
    OBVIOUS
  <2>1. i \in 1 .. n /\ i + 1 \in 1 .. n /\ i # i + 1
    BY <1>1
  <2>2. s[i] # s[i + 1] /\ <<s[i + 1], s[i]>> \notin less
    BY <2>1 DEF is_sorted
  <2> QED
    BY <1>1, <2>1, <2>2 DEF Linear
<1>3. 0 \in S
  BY <1>1
<1>4. ASSUME NEW j \in 1 .. n, j - 1 \in S
      PROVE  j \in S
  <2> SUFFICES ASSUME NEW i \in 1 .. j - 1
               PROVE  <<s[i], s[j]>> \in less
    OBVIOUS
  <2>1. j - 1 \in 1 .. n - 1 /\ j - 1 + 1 = j /\ i \in 1 .. n /\ j - 1 \in 1 .. n
    BY <1>1
  <2>2. <<s[j - 1], s[j]>> \in less
    BY <1>2, <2>1
  <2>3. CASE i = j - 1
    BY <2>2, <2>3
  <2>4. CASE i # j - 1
    <3>1. i \in 1 .. (j - 1) - 1
      BY <1>1, <2>4
    <3>2. <<s[i], s[j - 1]>> \in less
      BY <1>4, <3>1
    <3> QED
      BY <1>1, <2>1, <2>2, <3>2 DEF Linear
  <2> QED
    BY <2>3, <2>4
<1>5. 0 .. n \subseteq S
  <2> HIDE DEF S, n
  <2> QED
    BY <1>1, <1>3, <1>4, SetInduction
<1>6. ASSUME NEW i \in 1 .. n, NEW j \in 1 .. n, i < j
      PROVE  <<s[i], s[j]>> \in less
  <2>1. j \in 0 .. n /\ i \in 1 .. j - 1
    BY <1>1, <1>6
  <2> QED
    BY <1>5, <2>1
<1> QED
  BY <1>6 DEF InOrder

\* inplace_merge of two sequences in order is in order.
LEMMA MergeInOrder ==
    ASSUME NEW less, NEW U, Linear(less, U), NEW s \in Seq(U), NEW t \in Seq(U),
           InOrder(s, less), InOrder(t, less),
           \A i \in 1 .. Len(s), j \in 1 .. Len(t) : s[i] # t[j]
    PROVE  InOrder(inplace_merge(s, t, less), less)
<1>1. PICK f : MergeRound(f, s, t, less) /\ inplace_merge(s, t, less) = Merged(f, s, t)
  BY MergeRounds
<1> DEFINE n == Len(s) + Len(t)
           r == inplace_merge(s, t, less)
           First(i) == FromFirst(f[i - 1], i - 1 - f[i - 1], s, t, less)
<1>2. /\ Len(s) \in Nat /\ Len(t) \in Nat /\ n \in Nat
      /\ (\A i \in 1 .. Len(s) : s[i] \in U) /\ \A i \in 1 .. Len(t) : t[i] \in U
  OBVIOUS
<1>3. MergeCount(f, s, t)
  BY <1>1, MergeCounts
<1>4. r = [i \in 1 .. n |-> IF f[i] = f[i - 1] THEN t[i - f[i]] ELSE s[f[i]]]
  BY <1>1 DEF Merged
<1>5. \A i \in 0 .. n : f[i] \in Nat /\ f[i] <= Len(s) /\ i - f[i] \in Nat /\ i - f[i] <= Len(t)
  BY <1>2, <1>3 DEF MergeCount
<1>6. \A i \in 1 .. n : f[i] = IF First(i) THEN f[i - 1] + 1 ELSE f[i - 1]
  BY <1>1 DEF MergeRound
<1>7. Len(r) = n
  BY <1>2, <1>4
<1> HIDE DEF n, r
<1>8. ASSUME NEW i \in 1 .. n
      PROVE  \/ /\ First(i) /\ f[i] = f[i - 1] + 1 /\ f[i] \in 1 .. Len(s) /\ r[i] = s[f[i]]
             \/ /\ ~ First(i) /\ f[i] = f[i - 1] /\ i - f[i] \in 1 .. Len(t) /\ r[i] = t[i - f[i]]
  <2>1. i \in 0 .. n /\ i - 1 \in 0 .. n
    BY <1>2
  <2>2. /\ f[i] \in Nat /\ f[i] <= Len(s) /\ i - f[i] \in Nat /\ i - f[i] <= Len(t)
        /\ f[i - 1] \in Nat /\ i - 1 - f[i - 1] \in Nat
    BY <1>5, <2>1
  <2> HIDE DEF First
  <2>3. CASE First(i)
    <3>1. f[i] = f[i - 1] + 1
      BY <1>6, <2>3
    <3>2. f[i] # f[i - 1] /\ f[i] \in 1 .. Len(s)
      BY <1>2, <2>2, <3>1
    <3> QED
      BY <1>4, <2>3, <3>1, <3>2
  <2>4. CASE ~ First(i)
    <3>1. f[i] = f[i - 1]
      BY <1>6, <2>4
    <3>2. i - f[i] \in 1 .. Len(t)
      BY <1>2, <2>1, <2>2, <3>1
    <3> QED
      BY <1>4, <2>4, <3>1, <3>2
  <2> QED
    BY <2>3, <2>4
<1>9. ASSUME NEW i \in 0 .. n, NEW j \in i .. n
      PROVE  f[i] <= f[j] /\ i - f[i] <= j - f[j]
  <2> DEFINE m == n - i
             S == {d \in 0 .. m : f[i] <= f[i + d] /\ i - f[i] <= (i + d) - f[i + d]}
  <2>1. m \in Nat /\ f[i] \in Nat
    BY <1>2, <1>5
  <2>2. 0 \in S
    BY <2>1
  <2>3. ASSUME NEW d \in 1 .. m, d - 1 \in S
        PROVE  d \in S
    <3>1. /\ i + d \in 1 .. n /\ i + d \in 0 .. n /\ i + (d - 1) \in 0 .. n
          /\ (i + d) - 1 = i + (d - 1)
      BY <1>2
    <3>2. f[i + d] \in Nat /\ f[i + (d - 1)] \in Nat
      BY <1>5, <3>1
    <3>3. f[i + d] = f[i + (d - 1)] \/ f[i + d] = f[i + (d - 1)] + 1
      BY <1>6, <3>1
    <3>4. f[i] <= f[i + (d - 1)] /\ i - f[i] <= (i + (d - 1)) - f[i + (d - 1)]
      BY <2>3
    <3>5. f[i] <= f[i + d] /\ i - f[i] <= (i + d) - f[i + d]
      <4> DEFINE x == f[i]
                 y == f[i + (d - 1)]
                 z == f[i + d]
      <4>1. /\ x \in Nat /\ y \in Nat /\ z \in Nat /\ (z = y \/ z = y + 1) /\ x <= y
            /\ i - x <= (i + (d - 1)) - y /\ i \in Nat /\ d \in Nat
        BY <1>2, <2>1, <3>2, <3>3, <3>4
      <4> HIDE DEF x, y, z, n, m, S
      <4>2. x <= z /\ i - x <= (i + d) - z
        BY <4>1
      <4> QED
        BY <4>2 DEF x, z
    <3> QED
      BY <3>5
  <2> HIDE DEF S, m
  <2>4. 0 .. m \subseteq S
    BY <2>1, <2>2, <2>3, SetInduction
  <2>5. j - i \in 0 .. m /\ i + (j - i) = j
    BY <1>2 DEF m
  <2>6. j - i \in S
    BY <2>4, <2>5
  <2> QED
    BY <2>5, <2>6 DEF S
<1>10. ASSUME NEW i \in 1 .. n, NEW j \in 1 .. n, i < j
       PROVE  <<r[i], r[j]>> \in less
  <2> DEFINE p == f[i - 1]
             q == i - 1 - f[i - 1]
             a == f[j]
             b == j - f[j]
  <2>1. i - 1 \in 0 .. n /\ i \in 0 .. n /\ j \in 0 .. n /\ j \in i .. n /\ j - 1 \in i .. n
    BY <1>2, <1>10
  <2>2. p \in Nat /\ q \in Nat /\ a \in Nat /\ b \in Nat /\ f[i] \in Nat
    BY <1>5, <2>1
  <2>3. /\ f[i] <= f[j - 1] /\ i - f[i] <= j - 1 - f[j - 1]
        /\ f[i] <= f[j] /\ i - f[i] <= j - f[j]
    BY <1>9, <2>1
  <2>4. CASE First(i)
    <3>1. r[i] = s[p + 1] /\ p + 1 \in 1 .. Len(s) /\ f[i] = p + 1
      BY <1>8, <2>4
    <3>2. q = Len(t) \/ <<t[q + 1], s[p + 1]>> \notin less
      BY <2>4 DEF FromFirst
    <3>3. CASE f[j] = f[j - 1] + 1 /\ f[j] \in 1 .. Len(s) /\ r[j] = s[f[j]]
      <4>1. p + 1 < f[j]
        <5>1. f[j - 1] \in Nat /\ f[i] <= f[j - 1] /\ f[j] = f[j - 1] + 1 /\ f[i] = p + 1
          BY <1>5, <2>1, <2>3, <3>1, <3>3
        <5>2. f[j] \in Nat
          BY <2>2
        <5> HIDE DEF p
        <5> QED
          BY <2>2, <5>1, <5>2
      <4>2. <<s[p + 1], s[f[j]]>> \in less
        BY <3>1, <3>3, <4>1 DEF InOrder
      <4> QED
        BY <3>1, <3>3, <4>2
    <3>4. CASE b \in 1 .. Len(t) /\ r[j] = t[b] /\ f[j] = f[j - 1]
      <4>1. q + 1 <= b
        <5>1. q = i - f[i]
          BY <2>2, <3>1
        <5>2. f[j - 1] \in Nat
          BY <1>5, <2>1
        <5> QED
          BY <2>2, <2>3, <3>4, <5>1, <5>2
      <4>2. q + 1 \in 1 .. Len(t) /\ q # Len(t)
        <5>1. q \in Nat /\ b \in 1 .. Len(t) /\ q + 1 <= b
          BY <2>2, <3>4, <4>1
        <5> HIDE DEF q, b
        <5> QED
          BY <1>2, <5>1
      <4>3. s[p + 1] # t[q + 1] /\ s[p + 1] \in U /\ t[q + 1] \in U /\ t[b] \in U
        BY <1>2, <3>1, <3>4, <4>2
      <4>4. <<s[p + 1], t[q + 1]>> \in less
        BY <3>2, <4>2, <4>3 DEF Linear
      <4>5. CASE b = q + 1
        BY <3>1, <3>4, <4>4, <4>5
      <4>6. CASE b # q + 1
        <5>1. q + 1 < b
          BY <2>2, <4>1, <4>6
        <5>2. <<t[q + 1], t[b]>> \in less
          BY <3>4, <4>2, <5>1 DEF InOrder
        <5>3. <<s[p + 1], t[b]>> \in less
          BY <4>3, <4>4, <5>2 DEF Linear
        <5> QED
          BY <3>1, <3>4, <5>3
      <4> QED
        BY <4>5, <4>6
    <3> QED
      BY <1>8, <3>3, <3>4
  <2>5. CASE ~ First(i)
    <3>1. r[i] = t[q + 1] /\ q + 1 \in 1 .. Len(t) /\ f[i] = p
      <4>1. f[i] = p /\ i - f[i] \in 1 .. Len(t) /\ r[i] = t[i - f[i]]
        BY <1>8, <2>5
      <4>2. i - f[i] = q + 1
        BY <2>2, <4>1
      <4> QED
        BY <4>1, <4>2
    <3>2. q # Len(t)
      BY <1>2, <2>2, <3>1
    <3>3. p < Len(s) => <<t[q + 1], s[p + 1]>> \in less
      BY <2>5, <3>2 DEF FromFirst
    <3>4. CASE f[j] = f[j - 1] + 1 /\ f[j] \in 1 .. Len(s) /\ r[j] = s[f[j]]
      <4>1. p + 1 <= f[j]
        <5> DEFINE x == f[j - 1]
                   y == f[j]
        <5>1. x \in Nat /\ p \in Nat /\ p <= x /\ y = x + 1
          BY <1>5, <2>1, <2>2, <2>3, <3>1, <3>4
        <5> HIDE DEF p, x, y, a, b, q
        <5>2. p + 1 <= y
          BY <5>1
        <5> QED
          BY <5>2 DEF y
      <4>2. p + 1 \in 1 .. Len(s) /\ p < Len(s)
        <5>1. f[j] <= Len(s) /\ f[j] \in Nat
          BY <2>2, <3>4
        <5> HIDE DEF p
        <5> QED
          BY <1>2, <2>2, <4>1, <5>1
      <4>3. s[p + 1] \in U /\ t[q + 1] \in U /\ s[f[j]] \in U
        BY <1>2, <3>1, <3>4, <4>2
      <4>4. <<t[q + 1], s[p + 1]>> \in less
        BY <3>3, <4>2
      <4>5. CASE f[j] = p + 1
        BY <3>1, <3>4, <4>4, <4>5
      <4>6. CASE f[j] # p + 1
        <5>1. p + 1 < f[j]
          <6> DEFINE y == f[j]
          <6>1. p \in Nat /\ y \in Nat /\ p + 1 <= y /\ y # p + 1
            BY <2>2, <4>1, <4>6
          <6> HIDE DEF p, y
          <6>2. p + 1 < y
            BY <6>1
          <6> QED
            BY <6>2 DEF y
        <5>2. <<s[p + 1], s[f[j]]>> \in less
          BY <3>4, <4>2, <5>1 DEF InOrder
        <5>3. <<t[q + 1], s[f[j]]>> \in less
          BY <4>3, <4>4, <5>2 DEF Linear
        <5> QED
          BY <3>1, <3>4, <5>3
      <4> QED
        BY <4>5, <4>6
    <3>5. CASE b \in 1 .. Len(t) /\ r[j] = t[b] /\ f[j] = f[j - 1]
      <4>1. q + 1 < b
        <5>1. q + 1 = i - f[i]
          BY <2>2, <3>1
        <5>2. f[j - 1] \in Nat
          BY <1>5, <2>1
        <5> QED
          BY <2>2, <2>3, <3>5, <5>1, <5>2
      <4>2. <<t[q + 1], t[b]>> \in less
        BY <3>1, <3>5, <4>1 DEF InOrder
      <4> QED
        BY <3>1, <3>5, <4>2
    <3> QED
      BY <1>8, <3>4, <3>5
  <2> QED
    BY <2>4, <2>5
<1> QED
  BY <1>7, <1>10 DEF InOrder, r
-----------------------------------------------------------------------------
(* Sorting with a comparator that leaves ties                              *)

\* On the elements of U the comparator is a strict order, "not greater" of
\* which is transitive: elements may tie.
Weak(less, U) ==
    /\ \A x, y \in U : ~ (<<x, y>> \in less /\ <<y, x>> \in less)
    /\ \A x, y, z \in U : <<x, y>> \notin less /\ <<y, z>> \notin less => <<x, z>> \notin less

\* No element of s is less than one before it.
NotInverted(s, less) == \A i, j \in 1 .. Len(s) : i < j => <<s[j], s[i]>> \notin less

\* inserted puts an element behind those that tie with it.
LEMMA InsertedNotInverted ==
    ASSUME NEW less, NEW U, Weak(less, U), NEW s \in Seq(U), NotInverted(s, less), NEW x \in U
    PROVE  NotInverted(inserted(s, x, less), less)
<1> DEFINE n == Len(s)
           g == Gap(s, x, less)
           r == inserted(s, x, less)
           stays == {i \in DOMAIN s : <<x, s[i]>> \notin less}
<1>1. n \in Nat /\ DOMAIN s = 1 .. n /\ \A i \in 1 .. n : s[i] \in U
  OBVIOUS
<1>2. PutIn(r, g, s, x, U)
  BY InsertedAt
<1>3. \A i \in 1 .. n : i \in stays <=> <<x, s[i]>> \notin less
  BY <1>1
<1>4. ASSUME NEW i \in 1 .. n, NEW j \in 1 .. n, i < j, j \in stays
      PROVE  i \in stays
  <2>1. <<x, s[j]>> \notin less /\ <<s[j], s[i]>> \notin less
    BY <1>3, <1>4 DEF NotInverted
  <2>2. <<x, s[i]>> \notin less
    BY <1>1, <2>1 DEF Weak
  <2> QED
    BY <1>3, <2>2
<1>5. g = IF 1 \in stays THEN Max(stays) ELSE 0
  BY DEF Gap
<1>6. stays \subseteq 1 .. n
  BY <1>1
<1> HIDE DEF stays, g, r, n
<1>7. \A i \in 1 .. n : i \in stays <=> i <= g
  <2>1. CASE 1 \in stays
    <3>1. g \in stays /\ \A y \in stays : g >= y
      BY <1>1, <1>5, <1>6, <2>1, Greatest
    <3>2. g \in 1 .. n
      BY <1>6, <3>1
    <3>3. ASSUME NEW i \in 1 .. n
          PROVE  i \in stays <=> i <= g
      <4>1. CASE i < g
        BY <1>4, <3>1, <3>2, <4>1
      <4>2. CASE i >= g
        BY <3>1, <3>2, <4>2
      <4> QED
        BY <3>2, <4>1, <4>2
    <3> QED
      BY <3>3
  <2>2. CASE 1 \notin stays
    <3>1. \A i \in 1 .. n : i \notin stays
      <4> SUFFICES ASSUME NEW i \in 1 .. n, i \in stays
                   PROVE  FALSE
        OBVIOUS
      <4>1. 1 \in 1 .. n /\ i # 1
        BY <1>1, <2>2
      <4>2. 1 < i
        BY <4>1
      <4> QED
        BY <1>4, <2>2, <4>1, <4>2
    <3>2. g = 0
      BY <1>5, <2>2
    <3> QED
      BY <3>1, <3>2
  <2> QED
    BY <2>1, <2>2
<1>8. /\ g \in 0 .. n /\ Len(r) = n + 1 /\ r[g + 1] = x
      /\ \A i \in 1 .. g : r[i] = s[i]
      /\ \A i \in g + 1 .. n : r[i + 1] = s[i]
  BY <1>2 DEF PutIn, n
<1>9. \A i \in 1 .. n : IF i <= g THEN <<x, s[i]>> \notin less ELSE <<s[i], x>> \notin less
  <2>1. \A i \in 1 .. n : <<x, s[i]>> \notin less \/ <<s[i], x>> \notin less
    BY <1>1 DEF Weak, n
  <2> QED
    BY <1>3, <1>7, <2>1
<1>10. ASSUME NEW i \in 1 .. n + 1, NEW j \in 1 .. n + 1, i < j
       PROVE  <<r[j], r[i]>> \notin less
  <2>1. CASE j <= g
    <3>1. i \in 1 .. g /\ j \in 1 .. g /\ i \in 1 .. n /\ j \in 1 .. n
      BY <1>1, <1>8, <1>10, <2>1
    <3>2. <<s[j], s[i]>> \notin less
      BY <1>10, <3>1 DEF NotInverted, n
    <3> QED
      BY <1>8, <3>1, <3>2
  <2>2. CASE j = g + 1
    <3>1. i \in 1 .. g /\ i \in 1 .. n /\ i <= g
      BY <1>1, <1>8, <1>10, <2>2
    <3>2. <<x, s[i]>> \notin less
      BY <1>9, <3>1
    <3> QED
      BY <1>8, <2>2, <3>1, <3>2
  <2>3. CASE j > g + 1
    <3>1. j - 1 \in g + 1 .. n /\ j - 1 \in 1 .. n /\ j - 1 + 1 = j /\ ~ (j - 1 <= g)
      BY <1>1, <1>8, <2>3
    <3>2. r[j] = s[j - 1]
      BY <1>8, <3>1
    <3>3. CASE i <= g
      <4>1. i \in 1 .. g /\ i \in 1 .. n /\ i < j - 1
        BY <1>1, <1>8, <2>3, <3>3
      <4>2. <<s[j - 1], s[i]>> \notin less
        BY <3>1, <4>1 DEF NotInverted, n
      <4> QED
        BY <1>8, <3>2, <4>1, <4>2
    <3>4. CASE i = g + 1
      BY <1>8, <1>9, <3>1, <3>2, <3>4
    <3>5. CASE i > g + 1
      <4>1. i - 1 \in g + 1 .. n /\ i - 1 \in 1 .. n /\ i - 1 + 1 = i /\ i - 1 < j - 1
        BY <1>1, <1>8, <1>10, <3>5
      <4>2. r[i] = s[i - 1]
        BY <1>8, <4>1
      <4>3. <<s[j - 1], s[i - 1]>> \notin less
        BY <3>1, <4>1 DEF NotInverted, n
      <4> QED
        BY <3>2, <4>2, <4>3
    <3> QED
      BY <1>8, <3>3, <3>4, <3>5
  <2> QED
    BY <1>8, <2>1, <2>2, <2>3
<1> QED
  BY <1>8, <1>10 DEF NotInverted, r

\* stable_sort leaves no element behind one it is less than.
LEMMA SortNotInverted ==
    ASSUME NEW less, NEW U, Weak(less, U), NEW s \in Seq(U)
    PROVE  stable_sort(s, less) \in Seq(U) /\ NotInverted(stable_sort(s, less), less)
<1>1. PICK f : SortRound(f, U, s, less) /\ stable_sort(s, less) = f[Len(s)]
  BY SortRounds
<1> DEFINE n == Len(s)
           S == {i \in 0 .. n : NotInverted(f[i], less)}
<1>2. n \in Nat /\ \A i \in 1 .. n : s[i] \in U
  OBVIOUS
<1>3. 0 \in S
  <2>1. f[0] = << >> /\ 1 .. Len(f[0]) = {}
    BY <1>1 DEF SortRound
  <2> QED
    BY <1>2, <2>1 DEF NotInverted
<1>4. ASSUME NEW i \in 1 .. n, i - 1 \in S
      PROVE  i \in S
  <2>0. f[i - 1] \in Seq(U)
    <3>1. i - 1 \in 0 .. Len(s)
      BY <1>2
    <3> QED
      BY <1>1, <3>1 DEF SortRound
  <2>1. f[i - 1] \in Seq(U) /\ s[i] \in U /\ f[i] = inserted(f[i - 1], s[i], less)
    BY <1>1, <1>2, <2>0 DEF SortRound
  <2>2. NotInverted(f[i - 1], less)
    BY <1>4
  <2>3. NotInverted(f[i], less)
    BY <2>1, <2>2, InsertedNotInverted
  <2> QED
    BY <2>3
<1> HIDE DEF S
<1>5. n \in S
  <2>1. 0 .. n \subseteq S
    BY <1>2, <1>3, <1>4, SetInduction
  <2> QED
    BY <1>2, <2>1
<1>6. NotInverted(f[n], less)
  BY <1>5 DEF S
<1>7. f[n] \in Seq(U)
  BY <1>1, <1>2 DEF SortRound
<1> QED
  BY <1>1, <1>6, <1>7

-----------------------------------------------------------------------------
(* Sums                                                                    *)

\* The rounds of total.
TotalRound(f, t) ==
    /\ f \in [0 .. Len(t) -> Nat]
    /\ f[0] = 0
    /\ \A i \in 1 .. Len(t) : f[i] = f[i - 1] + t[i]

\* total is computed by rounds.
LEMMA TotalRounds ==
    ASSUME NEW t \in Seq(Nat)
    PROVE  \E f : TotalRound(f, t) /\ total(t) = f[Len(t)]
<1> DEFINE n == Len(t)
           V == Nat
           step(i, p) == p + t[i]
           Body(f) == [i \in 0 .. n |-> IF i = 0 THEN 0 ELSE step(i, f[i - 1])]
           sum[i \in 0 .. n] == IF i = 0 THEN 0 ELSE step(i, sum[i - 1])
           G == [i \in 1 .. n |-> [p \in V |-> step(i, p)]]
<1>1. n \in Nat /\ \A i \in 1 .. n : t[i] \in Nat
  OBVIOUS
<1>2. ASSUME NEW i \in 1 .. n, NEW p \in V
      PROVE  step(i, p) \in V
  BY <1>1
<1>3. total(t) = sum[n] /\ sum = CHOOSE ff : ff = Body(ff)
  BY DEF total
<1>4. 0 \in V
  OBVIOUS
<1> HIDE DEF V, sum, n, step
<1>5. G \in [1 .. n -> [V -> V]] /\ \A i \in 1 .. n, p \in V : G[i][p] = step(i, p)
  BY <1>2
<1> HIDE DEF G
<1>6. PICK f : Iterates(f, n, V, 0, G)
  BY <1>1, <1>4, <1>5, Recursion
<1>7. sum = Body(sum)
  <2>1. f = Body(f)
    BY <1>1, <1>5, <1>6 DEF Iterates
  <2> HIDE DEF Body
  <2> QED
    BY <1>3, <2>1
<1>8. sum[0] = 0 /\ \A i \in 1 .. n : sum[i] = step(i, sum[i - 1])
  BY <1>1, <1>7
<1>9. sum \in [0 .. n -> V]
  <2>1. \A i \in 0 .. n : sum[i] \in V
    BY <1>1, <1>2, <1>4, <1>8, Throughout, ZenonT(30)
  <2>2. sum = [i \in 0 .. n |-> sum[i]]
    BY <1>7
  <2> QED
    BY <2>1, <2>2
<1>10. TotalRound(sum, t)
  BY <1>8, <1>9 DEF n, V, step, TotalRound
<1> QED
  BY <1>3, <1>10 DEF n

\* Any function that adds up the entries gives the total.
LEMMA TotalIs ==
    ASSUME NEW t \in Seq(Nat), NEW f, f[0] = 0, \A i \in 1 .. Len(t) : f[i] = f[i - 1] + t[i]
    PROVE  total(t) = f[Len(t)] /\ total(t) \in Nat
<1>1. PICK g : TotalRound(g, t) /\ total(t) = g[Len(t)]
  BY TotalRounds
<1> DEFINE n == Len(t)
           S == {i \in 0 .. n : f[i] = g[i]}
<1>2. n \in Nat /\ g \in [0 .. n -> Nat] /\ g[0] = 0 /\ \A i \in 1 .. n : g[i] = g[i - 1] + t[i]
  BY <1>1 DEF TotalRound
<1>3. 0 \in S
  BY <1>2
<1>4. ASSUME NEW i \in 1 .. n, i - 1 \in S
      PROVE  i \in S
  BY <1>2, <1>4
<1>5. n \in S
  <2> HIDE DEF S
  <2>1. 0 .. n \subseteq S
    BY <1>2, <1>3, <1>4, SetInduction
  <2> QED
    BY <1>2, <2>1
<1> QED
  BY <1>1, <1>2, <1>5

\* The total of two sequences one behind the other.
LEMMA TotalOfBoth ==
    ASSUME NEW s \in Seq(Nat), NEW t \in Seq(Nat)
    PROVE  total(s \o t) = total(s) + total(t)
<1>1. PICK f : TotalRound(f, s) /\ total(s) = f[Len(s)]
  BY TotalRounds
<1>2. PICK g : TotalRound(g, t) /\ total(t) = g[Len(t)]
  BY TotalRounds
<1> DEFINE r == s \o t
           n == Len(s)
           m == Len(t)
           h == [i \in 0 .. n + m |-> IF i <= n THEN f[i] ELSE f[n] + g[i - n]]
<1>3. /\ r \in Seq(Nat) /\ Len(r) = n + m /\ n \in Nat /\ m \in Nat
      /\ \A i \in 1 .. n : r[i] = s[i]
      /\ \A i \in n + 1 .. n + m : r[i] = t[i - n]
  OBVIOUS
<1>4. f \in [0 .. n -> Nat] /\ f[0] = 0 /\ \A i \in 1 .. n : f[i] = f[i - 1] + s[i]
  BY <1>1 DEF TotalRound
<1>5. g \in [0 .. m -> Nat] /\ g[0] = 0 /\ \A i \in 1 .. m : g[i] = g[i - 1] + t[i]
  BY <1>2 DEF TotalRound
<1> HIDE DEF r, n, m
<1>6. h[0] = 0
  BY <1>3, <1>4
<1>7. ASSUME NEW i \in 1 .. n + m
      PROVE  h[i] = h[i - 1] + r[i]
  <2>1. CASE i <= n
    BY <1>3, <1>4, <2>1
  <2>2. CASE i = n + 1
    <3>1. h[i] = f[n] + g[1] /\ h[i - 1] = f[n] /\ 1 \in 1 .. m
      <4>1. n \in Nat /\ m \in Nat /\ i \in Nat /\ i <= n + m
        BY <1>3
      <4>2. /\ i \in 0 .. n + m /\ i - 1 \in 0 .. n + m /\ ~ (i <= n) /\ i - 1 = n
            /\ i - n = 1 /\ n <= n /\ 1 \in 1 .. m
        BY <2>2, <4>1
      <4>3. h[i] = f[n] + g[i - n] /\ h[i - 1] = f[i - 1]
        BY <4>1, <4>2
      <4> QED
        BY <4>2, <4>3
    <3>2. i \in n + 1 .. n + m /\ i - n = 1
      BY <1>3, <2>2
    <3>3. r[i] = t[1]
      BY <1>3, <3>2
    <3>4. g[1] = g[0] + t[1] /\ g[0] = 0 /\ g[1] \in Nat /\ t[1] \in Nat
      <4>1. 1 - 1 = 0 /\ 1 \in 0 .. m
        BY <1>3, <3>1
      <4>2. t[1] \in Nat
        BY <3>1 DEF m
      <4> QED
        BY <1>5, <3>1, <4>1, <4>2
    <3>5. g[1] = t[1]
      BY <3>4
    <3> QED
      BY <3>1, <3>3, <3>5
  <2>3. CASE i > n + 1
    <3>1. /\ i - n \in 1 .. m /\ i - n - 1 \in 0 .. m /\ i - 1 - n = i - n - 1
          /\ i - 1 \in 0 .. n + m /\ i \in 0 .. n + m /\ ~ (i - 1 <= n) /\ ~ (i <= n)
          /\ i \in n + 1 .. n + m
      BY <1>3, <2>3
    <3>2. h[i] = f[n] + g[i - n] /\ h[i - 1] = f[n] + g[i - n - 1]
      BY <3>1
    <3>3. g[i - n] = g[i - n - 1] + t[i - n] /\ r[i] = t[i - n]
      BY <1>3, <1>5, <3>1
    <3>4. f[n] \in Nat /\ g[i - n - 1] \in Nat /\ t[i - n] \in Nat
      <4>1. f[n] \in Nat
        BY <1>3, <1>4
      <4>2. g[i - n - 1] \in Nat
        BY <1>5, <3>1
      <4>3. t[i - n] \in Nat
        BY <3>1 DEF m
      <4> QED
        BY <4>1, <4>2, <4>3
    <3> QED
      BY <3>2, <3>3, <3>4
  <2> QED
    BY <1>3, <2>1, <2>2, <2>3
<1>8. h[n + m] = f[n] + g[m]
  <2>1. CASE m = 0
    BY <1>3, <1>4, <1>5, <2>1
  <2>2. CASE m # 0
    BY <1>3, <2>2
  <2> QED
    BY <2>1, <2>2
<1> HIDE DEF h
<1>9. total(r) = h[Len(r)]
  BY <1>3, <1>6, <1>7, TotalIs
<1> QED
  BY <1>1, <1>2, <1>3, <1>8, <1>9 DEF r, n, m

\* The total of one and of no size.
LEMMA TotalOfOne ==
    ASSUME NEW x \in Nat
    PROVE  total(<<x>>) = x /\ total(<< >>) = 0
<1> DEFINE f == [i \in 0 .. 1 |-> IF i = 0 THEN 0 ELSE x]
           s == <<x>>
           e == << >>
<1>1. s \in Seq(Nat) /\ Len(s) = 1 /\ s[1] = x /\ e \in Seq(Nat) /\ Len(e) = 0
  OBVIOUS
<1>2. f[0] = 0 /\ f[1] = x
  OBVIOUS
<1> HIDE DEF f, s, e
<1>3. \A i \in 1 .. Len(s) : f[i] = f[i - 1] + s[i]
  BY <1>1, <1>2
<1>4. total(s) = f[1]
  BY <1>1, <1>2, <1>3, TotalIs
<1>5. total(e) = f[0]
  <2>1. \A i \in 1 .. Len(e) : f[i] = f[i - 1] + e[i]
    BY <1>1
  <2>2. total(e) = f[Len(e)]
    BY <1>1, <1>2, <2>1, TotalIs
  <2> QED
    BY <1>1, <2>2
<1> QED
  BY <1>2, <1>4, <1>5 DEF s, e
-----------------------------------------------------------------------------
(* Target sizes                                                            *)

\* Entries no larger than m add up to at most m times their number.
LEMMA TotalAtMost ==
    ASSUME NEW t \in Seq(Nat), NEW m \in Nat, \A i \in 1 .. Len(t) : t[i] <= m
    PROVE  total(t) \in Nat /\ total(t) <= m * Len(t)
<1>1. PICK f : TotalRound(f, t) /\ total(t) = f[Len(t)]
  BY TotalRounds
<1> DEFINE n == Len(t)
           S == {i \in 0 .. n : f[i] <= m * i}
<1>2. n \in Nat /\ f \in [0 .. n -> Nat] /\ f[0] = 0 /\ \A i \in 1 .. n : f[i] = f[i - 1] + t[i]
  BY <1>1 DEF TotalRound
<1>3. 0 \in S
  BY <1>2
<1>4. ASSUME NEW i \in 1 .. n, i - 1 \in S
      PROVE  i \in S
  <2> DEFINE a == f[i - 1]
             b == t[i]
             c == f[i]
  <2>1. c = a + b /\ b <= m
    BY <1>2
  <2>2. a \in Nat /\ c \in Nat
    <3>1. i - 1 \in 0 .. n /\ i \in 0 .. n
      BY <1>2
    <3>2. \A j \in 0 .. n : f[j] \in Nat
      BY <1>2
    <3> QED
      BY <3>1, <3>2
  <2>3. b \in Nat
    OBVIOUS
  <2>4. a <= m * (i - 1)
    BY <1>4
  <2> HIDE DEF a, b, c
  <2>5. m * (i - 1) = m * i - m /\ m * i \in Nat
    BY <1>2
  <2>6. c <= m * i
    BY <2>1, <2>2, <2>3, <2>4, <2>5
  <2> QED
    BY <2>6 DEF c
<1>5. n \in S
  <2> HIDE DEF S
  <2>1. 0 .. n \subseteq S
    BY <1>2, <1>3, <1>4, SetInduction
  <2> QED
    BY <1>2, <2>1
<1>6. f[n] \in Nat /\ f[n] <= m * n
  BY <1>2, <1>5
<1> QED
  BY <1>1, <1>6 DEF n

\* t is what target_sizes promises for n elements and at most m buckets.
Partition(t, m, n) ==
    /\ t \in Seq(Nat) /\ Len(t) \in 1 .. m
    /\ n > 0 => \A i \in 1 .. Len(t) : t[i] > 0
    /\ total(t) = n

\* Buckets of equal size, the first n % c of them one larger.
LEMMA UniformPartition ==
    ASSUME NEW plan, plan.max_buckets \in Nat \ {0}, NEW n \in Nat \ {0}
    PROVE  Partition(uniform_sizes(plan, n), plan.max_buckets, n)
<1> DEFINE c == min(plan.max_buckets, n)
           q == n \div c
           r == n % c
           t == [i \in 1 .. c |-> q + (IF i <= r THEN 1 ELSE 0)]
           f == [i \in 0 .. c |-> i * q + (IF i <= r THEN i ELSE r)]
<1>1. c \in Nat /\ c > 0 /\ c <= n /\ c <= plan.max_buckets
  BY DEF min
<1> HIDE DEF c
<1>2. q \in Nat /\ r \in Nat /\ r < c /\ n = c * q + r
  BY <1>1
<1>3. q >= 1
  <2>1. CASE q = 0
    BY <1>1, <1>2, <2>1
  <2> QED
    BY <1>2, <2>1
<1> HIDE DEF q, r
<1>4. t \in Seq(Nat) /\ Len(t) = c /\ \A i \in 1 .. c : t[i] = q + (IF i <= r THEN 1 ELSE 0) /\ t[i] > 0
  BY <1>1, <1>2, <1>3
<1>5. f[0] = 0
  BY <1>1, <1>2
<1>6. ASSUME NEW i \in 1 .. c
      PROVE  f[i] = f[i - 1] + t[i]
  <2>1. i \in Nat /\ i - 1 \in 0 .. c /\ i \in 0 .. c
    BY <1>1
  <2>2. f[i] = i * q + (IF i <= r THEN i ELSE r) /\ f[i - 1] = (i - 1) * q + (IF i - 1 <= r THEN i - 1 ELSE r)
    BY <2>1
  <2>3. (i - 1) * q + q = i * q
    BY <1>2, <2>1
  <2>4. t[i] = q + (IF i <= r THEN 1 ELSE 0)
    BY <1>4
  <2> DEFINE a == i * q
             b == (i - 1) * q
  <2>5. a \in Nat /\ b \in Nat
    BY <1>2, <2>1
  <2> HIDE DEF a, b, f
  <2> QED
    BY <1>2, <2>1, <2>2, <2>3, <2>4, <2>5 DEF a, b
<1>7. f[c] = n
  BY <1>1, <1>2
<1> HIDE DEF t, f
<1>8. total(t) = f[Len(t)]
  BY <1>4, <1>5, <1>6, TotalIs
<1>9. Partition(t, plan.max_buckets, n)
  BY <1>1, <1>4, <1>7, <1>8 DEF Partition
<1> QED
  BY <1>9 DEF t, c, q, r, uniform_sizes

\* A page, or a page at either end.
LEMMA FirstPagePartition ==
    ASSUME NEW plan, plan.max_buckets \in Nat \ {0}, plan.page_size \in Nat \ {0}, NEW n \in Nat \ {0}
    PROVE  Partition(first_page_sizes(plan, n), plan.max_buckets, n)
<1> DEFINE p == min(plan.page_size, n)
           m == plan.max_buckets
<1>1. p \in Nat /\ p > 0 /\ p <= n /\ m \in Nat /\ m >= 1
  BY DEF min
<1>2. \/ first_page_sizes(plan, n) = <<n>>
      \/ n > 2 * p /\ m >= 3 /\ first_page_sizes(plan, n) = <<p, n - 2 * p, p>>
      \/ n # p /\ m # 1 /\ first_page_sizes(plan, n) = <<p, n - p>>
  BY DEF first_page_sizes
<1> HIDE DEF p, m
<1>3. CASE first_page_sizes(plan, n) = <<n>>
  <2> DEFINE t == <<n>>
  <2>1. t \in Seq(Nat) /\ Len(t) = 1 /\ t[1] = n
    OBVIOUS
  <2>2. total(t) = n
    BY TotalOfOne
  <2> HIDE DEF t
  <2>3. Partition(t, m, n)
    BY <1>1, <2>1, <2>2 DEF Partition
  <2> QED
    BY <1>3, <2>3 DEF t, m
<1>4. CASE n > 2 * p /\ m >= 3 /\ first_page_sizes(plan, n) = <<p, n - 2 * p, p>>
  <2> DEFINE x == n - 2 * p
             t == <<p, x, p>>
  <2>1. x \in Nat /\ x > 0 /\ p + x + p = n
    BY <1>1, <1>4
  <2> HIDE DEF x
  <2>2. t \in Seq(Nat) /\ Len(t) = 3 /\ t[1] = p /\ t[2] = x /\ t[3] = p
    BY <1>1, <2>1
  <2> DEFINE f == [i \in 0 .. 3 |-> IF i = 0 THEN 0 ELSE IF i = 1 THEN p ELSE IF i = 2 THEN p + x ELSE n]
  <2>3. f[0] = 0 /\ f[1] = p /\ f[2] = p + x /\ f[3] = n
    OBVIOUS
  <2> HIDE DEF t, f
  <2>4. \A i \in 1 .. Len(t) : f[i] = f[i - 1] + t[i]
    BY <1>1, <2>1, <2>2, <2>3
  <2>5. total(t) = f[Len(t)]
    BY <2>2, <2>3, <2>4, TotalIs
  <2>6. Partition(t, m, n)
    BY <1>1, <1>4, <2>1, <2>2, <2>3, <2>5 DEF Partition
  <2> QED
    BY <1>4, <2>6 DEF t, m, x
<1>5. CASE n # p /\ m # 1 /\ first_page_sizes(plan, n) = <<p, n - p>>
  <2> DEFINE x == n - p
             t == <<p, x>>
  <2>1. x \in Nat /\ x > 0 /\ p + x = n
    BY <1>1, <1>5
  <2> HIDE DEF x
  <2>2. t \in Seq(Nat) /\ Len(t) = 2 /\ t[1] = p /\ t[2] = x
    BY <1>1, <2>1
  <2> DEFINE f == [i \in 0 .. 2 |-> IF i = 0 THEN 0 ELSE IF i = 1 THEN p ELSE n]
  <2>3. f[0] = 0 /\ f[1] = p /\ f[2] = n
    OBVIOUS
  <2> HIDE DEF t, f
  <2>4. \A i \in 1 .. Len(t) : f[i] = f[i - 1] + t[i]
    BY <1>1, <2>1, <2>2, <2>3
  <2>5. total(t) = f[Len(t)]
    BY <2>2, <2>3, <2>4, TotalIs
  <2>6. Partition(t, m, n)
    BY <1>1, <1>5, <2>1, <2>2, <2>3, <2>5 DEF Partition
  <2> QED
    BY <1>5, <2>6 DEF t, m, x
<1> QED
  BY <1>2, <1>3, <1>4, <1>5

\* Sizes that are all positive.
Sizes == Seq(Nat \ {0})

\* What sizes and their totals look like one behind the other.
LEMMA SizesOfBoth ==
    ASSUME NEW s \in Sizes, NEW t \in Sizes
    PROVE  /\ s \o t \in Sizes /\ Len(s \o t) = Len(s) + Len(t)
           /\ total(s \o t) = total(s) + total(t) /\ total(s) \in Nat /\ total(t) \in Nat
<1>1. s \in Seq(Nat) /\ t \in Seq(Nat)
  BY DEF Sizes
<1>2. total(s \o t) = total(s) + total(t)
  BY <1>1, TotalOfBoth
<1>3. total(s) \in Nat /\ total(t) \in Nat
  <2>1. \E f : TotalRound(f, s) /\ total(s) = f[Len(s)]
    BY <1>1, TotalRounds
  <2>2. \E f : TotalRound(f, t) /\ total(t) = f[Len(t)]
    BY <1>1, TotalRounds
  <2>3. Len(s) \in 0 .. Len(s) /\ Len(t) \in 0 .. Len(t)
    BY <1>1
  <2> QED
    BY <2>1, <2>2, <2>3 DEF TotalRound
<1>4. s \o t \in Sizes /\ Len(s \o t) = Len(s) + Len(t)
  BY DEF Sizes
<1> QED
  BY <1>2, <1>3, <1>4

\* The sizes of one bucket and of none.
LEMMA SizeOfOne ==
    ASSUME NEW x \in Nat \ {0}
    PROVE  /\ <<x>> \in Sizes /\ Len(<<x>>) = 1 /\ total(<<x>>) = x
           /\ << >> \in Sizes /\ Len(<< >>) = 0 /\ total(<< >>) = 0
<1>1. <<x>> \in Sizes /\ Len(<<x>>) = 1 /\ << >> \in Sizes /\ Len(<< >>) = 0
  BY DEF Sizes
<1>2. total(<<x>>) = x /\ total(<< >>) = 0
  BY TotalOfOne
<1> QED
  BY <1>1, <1>2

\* Positive sizes of n elements in all are at least one.
LEMMA SizesPartition ==
    ASSUME NEW t \in Sizes, NEW m \in Nat, NEW n \in Nat \ {0}, total(t) = n, Len(t) <= m
    PROVE  Partition(t, m, n)
<1>1. t \in Seq(Nat) /\ Len(t) \in Nat /\ \A i \in 1 .. Len(t) : t[i] > 0
  BY DEF Sizes
<1>2. Len(t) # 0
  <2>1. ASSUME Len(t) = 0
        PROVE  FALSE
    <3>1. t = << >>
      BY <1>1, <2>1
    <3>2. total(<< >>) = 0
      BY SizeOfOne
    <3> QED
      BY <3>1, <3>2
  <2> QED
    BY <2>1
<1> QED
  BY <1>1, <1>2 DEF Partition

\* A size appended.
LEMMA SizeAppended ==
    ASSUME NEW s \in Sizes, NEW x \in Nat \ {0}
    PROVE  /\ Append(s, x) \in Sizes /\ Len(Append(s, x)) = Len(s) + 1
           /\ total(Append(s, x)) = total(s) + x /\ total(s) \in Nat /\ Len(s) \in Nat
<1> DEFINE e == <<x>>
<1>1. e \in Sizes /\ Len(e) = 1 /\ total(e) = x
  BY SizeOfOne
<1>2. Append(s, x) = s \o e /\ Len(s) \in Nat
  BY DEF Sizes
<1> HIDE DEF e
<1>3. s \o e \in Sizes /\ Len(s \o e) = Len(s) + Len(e) /\ total(s \o e) = total(s) + total(e) /\ total(s) \in Nat
  BY <1>1, SizesOfBoth
<1> QED
  BY <1>1, <1>2, <1>3

\* The given sizes as far as elements and buckets last, then the rest.
LEMMA ExplicitPartition ==
    ASSUME NEW plan, plan.max_buckets \in Nat \ {0}, plan.sizes \in Seq(Nat \ {0}),
           NEW n \in Nat \ {0}
    PROVE  Partition(explicit_sizes(plan, n), plan.max_buckets, n)
<1> DEFINE m == plan.max_buckets
           sz == plan.sizes
           k == Len(sz)
           V == {p \in [out : Sizes, remaining : Nat] :
                    total(p.out) + p.remaining = n /\ Len(p.out) + 1 <= m}
           a == [out |-> << >>, remaining |-> n]
           step(i, p) ==
               LET take == min(sz[i], p.remaining)
               IN  IF p.remaining = 0 \/ Len(p.out) + 1 = m THEN p
                   ELSE [out |-> Append(p.out, take), remaining |-> p.remaining - take]
           Body(f) == [i \in 0 .. k |-> IF i = 0 THEN a ELSE step(i, f[i - 1])]
           placed[i \in 0 .. k] == IF i = 0 THEN a ELSE step(i, placed[i - 1])
           G == [i \in 1 .. k |-> [p \in V |-> step(i, p)]]
           end == placed[k]
<1>1. k \in Nat /\ m \in Nat /\ m >= 1 /\ \A i \in 1 .. k : sz[i] \in Nat \ {0}
  OBVIOUS
<1>2. explicit_sizes(plan, n) = (IF end.remaining > 0 THEN Append(end.out, end.remaining) ELSE end.out)
      /\ placed = CHOOSE ff : ff = Body(ff)
  BY DEF explicit_sizes
<1>3. a \in V
  <2>1. << >> \in Sizes /\ Len(<< >>) = 0 /\ total(<< >>) = 0
    BY SizeOfOne
  <2> QED
    BY <1>1, <2>1
<1>4. ASSUME NEW i \in 1 .. k, NEW p \in V
      PROVE  step(i, p) \in V
  <2> DEFINE rem == p.remaining
             s == p.out
             take == min(sz[i], rem)
             r == Append(s, take)
             q == [out |-> r, remaining |-> rem - take]
  <2>1. s \in Sizes /\ rem \in Nat /\ total(s) + rem = n /\ Len(s) + 1 <= m
    OBVIOUS
  <2>2. CASE rem = 0 \/ Len(s) + 1 = m
    BY <2>2
  <2>3. CASE rem # 0 /\ Len(s) + 1 # m
    <3>1. take \in Nat \ {0} /\ take <= rem
      BY <1>1, <2>1, <2>3 DEF min
    <3>2. step(i, p) = q
      BY <2>3
    <3> HIDE DEF take, s, rem
    <3>3. r \in Sizes /\ Len(r) = Len(s) + 1 /\ total(r) = total(s) + take /\ total(s) \in Nat /\ Len(s) \in Nat
      BY <2>1, <3>1, SizeAppended
    <3> HIDE DEF r, m
    <3>4. rem - take \in Nat /\ total(r) + (rem - take) = n
      BY <2>1, <3>1, <3>3
    <3>5. Len(r) + 1 <= m
      <4> DEFINE x == Len(s)
                 y == Len(r)
      <4>1. x \in Nat /\ m \in Nat /\ x + 1 <= m /\ x + 1 # m /\ y = x + 1
        BY <1>1, <2>1, <2>3, <3>3
      <4> HIDE DEF x, y
      <4>2. y + 1 <= m
        BY <4>1
      <4> QED
        BY <4>2 DEF y
    <3>6. q \in V
      BY <3>3, <3>4, <3>5
    <3> QED
      BY <3>2, <3>6
  <2> QED
    BY <2>2, <2>3
<1> HIDE DEF V, placed, step, a, k, m, sz
<1>5. G \in [1 .. k -> [V -> V]] /\ \A i \in 1 .. k, p \in V : G[i][p] = step(i, p)
  BY <1>4
<1> HIDE DEF G
<1>6. PICK f : Iterates(f, k, V, a, G)
  BY <1>1, <1>3, <1>5, Recursion
<1>7. placed = Body(placed)
  <2>1. f = Body(f)
    BY <1>1, <1>5, <1>6 DEF Iterates
  <2> HIDE DEF Body
  <2> QED
    BY <1>2, <2>1
<1>8. placed[0] = a /\ \A i \in 1 .. k : placed[i] = step(i, placed[i - 1])
  BY <1>1, <1>7
<1>9. end \in V
  <2>2. \A i \in 1 .. k : placed[i - 1] \in V => placed[i] \in V
    BY <1>4, <1>8
  <2>3. placed[0] \in V
    BY <1>3, <1>8
  <2>1. \A i \in 0 .. k : placed[i] \in V
    BY <1>1, <2>2, <2>3, Throughout
  <2> QED
    BY <1>1, <2>1
<1> HIDE DEF end
<1> DEFINE s == end.out
           rest == end.remaining
<1>10. s \in Sizes /\ rest \in Nat /\ total(s) + rest = n /\ Len(s) + 1 <= m /\ Len(s) \in Nat
  BY <1>9 DEF V, Sizes
<1> HIDE DEF s, rest
<1>11. CASE rest > 0
  <2> DEFINE r == Append(s, rest)
  <2>1. r \in Sizes /\ Len(r) = Len(s) + 1 /\ total(r) = total(s) + rest /\ total(s) \in Nat
    BY <1>10, <1>11, SizeAppended
  <2> HIDE DEF r
  <2>2. Len(r) <= m /\ total(r) = n
    BY <1>1, <1>10, <2>1
  <2>3. Partition(r, m, n)
    BY <1>1, <2>1, <2>2, SizesPartition
  <2> QED
    BY <1>2, <1>11, <2>3 DEF s, rest, m, r
<1>12. CASE ~ (rest > 0)
  <2>1. total(s) \in Nat
    BY <1>10, SizesOfBoth
  <2>2. total(s) = n /\ Len(s) <= m
    BY <1>1, <1>10, <1>12, <2>1
  <2>3. Partition(s, m, n)
    BY <1>1, <1>10, <2>2, SizesPartition
  <2> QED
    BY <1>2, <1>12, <2>3 DEF s, rest, m
<1> QED
  BY <1>11, <1>12

\* What the loop of geometric_sizes has placed and what is left, m buckets and n
\* elements in all.
Growing(m, n) ==
    {l \in [front : Sizes, back : Sizes, remaining : Nat, budget : Nat \ {0},
            num : Nat \ {0}, den : Nat \ {0}] :
        /\ total(l.front) + total(l.back) + l.remaining = n
        /\ Len(l.front) + Len(l.back) + l.budget = m}

\* The ceiling of a positive fraction is positive.
LEMMA CeilingPositive ==
    ASSUME NEW a \in Nat \ {0}, NEW b \in Nat \ {0}
    PROVE  (a + b - 1) \div b \in Nat \ {0}
<1> DEFINE x == a + b - 1
           q == x \div b
           r == x % b
<1>1. x \in Nat /\ x >= b /\ q \in Int /\ r \in 0 .. b - 1 /\ x = b * q + r
  OBVIOUS
<1>2. b * q > 0
  <2>1. x - r > 0
    BY <1>1
  <2> HIDE DEF x, q, r
  <2> QED
    BY <1>1, <2>1
<1>3. q > 0
  <2>1. CASE q <= 0
    <3>1. b * q <= 0
      BY <1>1, <2>1
    <3> QED
      BY <1>2, <3>1
  <2> QED
    BY <1>1, <2>1
<1> QED
  BY <1>1, <1>3

\* One iteration keeps the sums.
LEMMA GrowingStep ==
    ASSUME NEW plan, NEW m \in Nat \ {0}, NEW n \in Nat \ {0},
           plan.growth[1] \in Nat \ {0}, plan.growth[2] \in Nat \ {0},
           NEW l \in Growing(m, n), l.remaining > 0, l.budget > 1
    PROVE  geometric_step(plan, n, l) \in Growing(m, n)
<1> DEFINE front == l.front
           back == l.back
           rem == l.remaining
           budget == l.budget
           step == (l.num + l.den - 1) \div l.den
           take1 == min(step, rem)
           rem1 == rem - take1
           both == plan.symmetric /\ rem1 > 0 /\ budget - 1 > 1
           take2 == IF both THEN min(step, rem1) ELSE 0
           num == l.num * plan.growth[1]
           den == l.den * plan.growth[2]
           capped == num >= n * den
           front2 == Append(front, take1)
           back2 == IF both THEN <<take2>> \o back ELSE back
           budget2 == budget - (IF both THEN 2 ELSE 1)
           num2 == IF capped THEN n ELSE num
           den2 == IF capped THEN 1 ELSE den
           r == [front |-> front2, back |-> back2, remaining |-> rem1 - take2,
                 budget |-> budget2, num |-> num2, den |-> den2]
<1>1. /\ front \in Sizes /\ back \in Sizes /\ rem \in Nat /\ rem > 0 /\ budget \in Nat /\ budget > 1
      /\ total(front) + total(back) + rem = n
      /\ Len(front) + Len(back) + budget = m
  BY DEF Growing
<1>2. l.num \in Nat \ {0} /\ l.den \in Nat \ {0}
  BY DEF Growing
<1>3. step \in Nat \ {0}
  BY <1>2, CeilingPositive
<1>4. num2 \in Nat \ {0} /\ den2 \in Nat \ {0}
  <2>1. num \in Nat \ {0} /\ den \in Nat \ {0}
    BY <1>2
  <2> HIDE DEF num, den
  <2> QED
    BY <2>1
<1>5. geometric_step(plan, n, l) = r
  BY DEF geometric_step
<1> HIDE DEF front, back, rem, budget, step, num2, den2
<1>6. take1 \in Nat \ {0} /\ take1 <= rem
  BY <1>1, <1>3 DEF min
<1> HIDE DEF take1
<1>7. /\ front2 \in Sizes /\ Len(front2) = Len(front) + 1 /\ total(front2) = total(front) + take1
      /\ Len(front) \in Nat /\ total(front) \in Nat
  BY <1>1, <1>6, SizeAppended
<1>8. rem1 \in Nat
  BY <1>1, <1>6
<1>9. total(back) \in Nat /\ Len(back) \in Nat
  BY <1>1, SizesOfBoth DEF Sizes
<1> HIDE DEF front2
<1>10. CASE both
  <2>1. take2 \in Nat \ {0} /\ take2 <= rem1
    BY <1>3, <1>8, <1>10 DEF min
  <2> DEFINE e == <<take2>>
             b == e \o back
  <2>2. e \in Sizes /\ Len(e) = 1 /\ total(e) = take2
    <3> HIDE DEF take2
    <3> QED
      BY <2>1, SizeOfOne
  <2>3. back2 = b
    BY <1>10
  <2> HIDE DEF e, take2
  <2>4. b \in Sizes /\ Len(b) = Len(e) + Len(back) /\ total(b) = total(e) + total(back)
    BY <1>1, <2>2, SizesOfBoth
  <2>5. budget2 = budget - 2 /\ budget2 \in Nat \ {0} /\ rem1 - take2 \in Nat
    BY <1>1, <1>8, <1>10, <2>1
  <2> HIDE DEF b, back2, budget2
  <2>6. total(front2) + total(b) + (rem1 - take2) = n
    <3> DEFINE x == total(front)
               y == total(back)
    <3>1. x \in Nat /\ y \in Nat /\ x + y + rem = n /\ rem \in Nat /\ rem1 = rem - take1
      BY <1>1, <1>7, <1>9
    <3>2. total(front2) = x + take1 /\ total(b) = take2 + y
      BY <1>7, <2>2, <2>4
    <3> HIDE DEF x, y, rem1
    <3> QED
      BY <1>6, <2>1, <3>1, <3>2
  <2>7. Len(front2) + Len(b) + budget2 = m
    <3> DEFINE x == Len(front)
               y == Len(back)
    <3>1. x \in Nat /\ y \in Nat /\ x + y + budget = m /\ budget \in Nat
      BY <1>1, <1>7, <1>9
    <3>2. Len(front2) = x + 1 /\ Len(b) = 1 + y /\ budget2 = budget - 2
      BY <1>7, <2>2, <2>4, <2>5
    <3> HIDE DEF x, y
    <3> QED
      BY <3>1, <3>2
  <2> HIDE DEF rem1
  <2>8. r \in Growing(m, n)
    BY <1>4, <1>7, <2>3, <2>4, <2>5, <2>6, <2>7 DEF Growing
  <2> QED
    BY <1>5, <2>8 DEF take2
<1>11. CASE ~ both
  <2>1. take2 = 0 /\ back2 = back /\ budget2 = budget - 1
    BY <1>11
  <2> HIDE DEF take2, back2, budget2, both
  <2>2. budget2 \in Nat \ {0} /\ rem1 - take2 \in Nat
    BY <1>1, <1>8, <2>1
  <2>3. total(front2) + total(back) + (rem1 - take2) = n
    BY <1>1, <1>6, <1>7, <1>9, <2>1
  <2>4. Len(front2) + Len(back) + budget2 = m
    <3> DEFINE x == Len(front)
               y == Len(back)
    <3>1. x \in Nat /\ y \in Nat /\ x + y + budget = m /\ budget \in Nat
      BY <1>1, <1>7, <1>9
    <3>2. Len(front2) = x + 1 /\ budget2 = budget - 1
      BY <1>7, <2>1
    <3> HIDE DEF x, y
    <3>3. Len(front2) + y + budget2 = m
      BY <3>1, <3>2
    <3> QED
      BY <3>3 DEF y
  <2> HIDE DEF rem1
  <2>5. r \in Growing(m, n)
    BY <1>1, <1>4, <1>7, <2>1, <2>2, <2>3, <2>4 DEF Growing
  <2> QED
    BY <1>5, <2>5 DEF take2, both
<1> QED
  BY <1>10, <1>11

\* The rounds of geometric_sizes.
GrowingRounds(f, plan, n) ==
    /\ f[0] = geometric_start(plan, n)
    /\ \A i \in 0 .. min(n, plan.max_buckets) : f[i] \in Growing(plan.max_buckets, n)
    /\ \A i \in 1 .. min(n, plan.max_buckets) :
          f[i] = IF f[i - 1].remaining > 0 /\ f[i - 1].budget > 1
                 THEN geometric_step(plan, n, f[i - 1]) ELSE f[i - 1]

\* What is left after the last round is one bucket more.
AllBuckets(end) ==
    end.front \o (IF end.remaining > 0 THEN <<end.remaining>> ELSE << >>) \o end.back

\* geometric_sizes goes through such rounds.
LEMMA GeometricRounds ==
    ASSUME NEW plan, plan.max_buckets \in Nat \ {0}, plan.page_size \in Nat \ {0},
           plan.growth[1] \in Nat \ {0}, plan.growth[2] \in Nat \ {0}, NEW n \in Nat \ {0}
    PROVE  \E f : /\ GrowingRounds(f, plan, n)
                 /\ geometric_sizes(plan, n) = AllBuckets(f[min(n, plan.max_buckets)])
<1> DEFINE m == plan.max_buckets
           k == min(n, m)
           V == Growing(m, n)
           a == geometric_start(plan, n)
           step(i, l) == IF l.remaining > 0 /\ l.budget > 1 THEN geometric_step(plan, n, l) ELSE l
           Body(f) == [i \in 0 .. k |-> IF i = 0 THEN a ELSE step(i, f[i - 1])]
           loop[i \in 0 .. k] == IF i = 0 THEN a ELSE step(i, loop[i - 1])
           G == [i \in 1 .. k |-> [l \in V |-> step(i, l)]]
<1>1. m \in Nat \ {0} /\ k \in Nat
  BY DEF min
<1>2. geometric_sizes(plan, n) = AllBuckets(loop[k])
      /\ loop = CHOOSE ff : ff = Body(ff)
  BY DEF geometric_sizes, geometric_rest, AllBuckets
<1>3. a \in V
  <2>1. << >> \in Sizes /\ Len(<< >>) = 0 /\ total(<< >>) = 0
    BY SizeOfOne
  <2> QED
    BY <1>1, <2>1 DEF geometric_start, Growing
<1> HIDE DEF m
<1>4. ASSUME NEW i \in 1 .. k, NEW l \in V
      PROVE  step(i, l) \in V
  BY <1>1, GrowingStep
<1> HIDE DEF V, loop, a, k
<1>5. G \in [1 .. k -> [V -> V]] /\ \A i \in 1 .. k, l \in V : G[i][l] = step(i, l)
  <2> HIDE DEF step
  <2> QED
    BY <1>4
<1> HIDE DEF G
<1>6. PICK f : Iterates(f, k, V, a, G)
  BY <1>1, <1>3, <1>5, Recursion
<1>7. loop = Body(loop)
  <2>1. f = Body(f)
    <3> HIDE DEF step
    <3> QED
      BY <1>1, <1>5, <1>6 DEF Iterates
  <2> HIDE DEF Body
  <2> QED
    BY <1>2, <2>1
<1>8. loop[0] = a /\ \A i \in 1 .. k : loop[i] = step(i, loop[i - 1])
  <2> HIDE DEF step
  <2> QED
    BY <1>1, <1>7
<1>9. \A i \in 0 .. k : loop[i] \in V
  <2> HIDE DEF step
  <2>1. \A i \in 1 .. k : loop[i - 1] \in V => loop[i] \in V
    BY <1>4, <1>8
  <2>2. loop[0] \in V
    BY <1>3, <1>8
  <2> QED
    BY <1>1, <2>1, <2>2, Throughout
<1>10. GrowingRounds(loop, plan, n)
  BY <1>8, <1>9 DEF GrowingRounds, V, a, k, m
<1> QED
  BY <1>2, <1>10 DEF k, m

\* Buckets that grow from the ends, the middle taking the rest.
LEMMA GeometricPartition ==
    ASSUME NEW plan, plan.max_buckets \in Nat \ {0}, plan.page_size \in Nat \ {0},
           plan.growth[1] \in Nat \ {0}, plan.growth[2] \in Nat \ {0}, NEW n \in Nat \ {0}
    PROVE  Partition(geometric_sizes(plan, n), plan.max_buckets, n)
<1> DEFINE m == plan.max_buckets
<1>1. m \in Nat \ {0} /\ min(n, m) \in Nat
  BY DEF min
<1>3. PICK f : /\ GrowingRounds(f, plan, n)
               /\ geometric_sizes(plan, n) = AllBuckets(f[min(n, m)])
  BY GeometricRounds
<1> DEFINE end == f[min(n, m)]
           mid == IF end.remaining > 0 THEN <<end.remaining>> ELSE << >>
<1>2. geometric_sizes(plan, n) = end.front \o mid \o end.back
  BY <1>3 DEF AllBuckets
<1>9. end \in Growing(m, n)
  BY <1>1, <1>3 DEF GrowingRounds
<1> HIDE DEF m, end
<1> DEFINE front == end.front
           back == end.back
           rest == end.remaining
           budget == end.budget
<1>10. /\ front \in Sizes /\ back \in Sizes /\ rest \in Nat /\ budget \in Nat /\ budget > 0
       /\ total(front) + total(back) + rest = n
       /\ Len(front) + Len(back) + budget = m
  BY <1>9 DEF Growing
<1> HIDE DEF front, back, rest, budget
<1>11. mid \in Sizes /\ Len(mid) <= 1 /\ Len(mid) \in Nat /\ total(mid) = rest
  <2>1. CASE rest > 0
    <3>1. <<rest>> \in Sizes /\ Len(<<rest>>) = 1 /\ total(<<rest>>) = rest
      BY <1>10, <2>1, SizeOfOne
    <3>2. mid = <<rest>>
      BY <2>1 DEF rest
    <3> QED
      BY <3>1, <3>2
  <2>2. CASE ~ (rest > 0)
    <3>1. << >> \in Sizes /\ Len(<< >>) = 0 /\ total(<< >>) = 0
      BY SizeOfOne
    <3>2. mid = << >> /\ rest = 0
      BY <1>10, <2>2 DEF rest
    <3> QED
      BY <3>1, <3>2
  <2> QED
    BY <2>1, <2>2
<1> HIDE DEF mid
<1> DEFINE fm == front \o mid
           t == fm \o back
<1>12. /\ fm \in Sizes /\ Len(fm) = Len(front) + Len(mid) /\ total(fm) = total(front) + total(mid)
       /\ total(front) \in Nat
  BY <1>10, <1>11, SizesOfBoth
<1> HIDE DEF fm
<1>13. t \in Sizes /\ Len(t) = Len(fm) + Len(back) /\ total(t) = total(fm) + total(back) /\ total(back) \in Nat
  BY <1>10, <1>12, SizesOfBoth
<1>14. Len(front) \in Nat /\ Len(back) \in Nat
  BY <1>10 DEF Sizes
<1> HIDE DEF t
<1>15. total(t) = n
  BY <1>10, <1>11, <1>12, <1>13
<1>16. Len(t) <= m
  <2> DEFINE x == Len(front)
             y == Len(back)
             z == Len(mid)
  <2>1. x \in Nat /\ y \in Nat /\ z \in Nat /\ z <= 1 /\ x + y + budget = m
    BY <1>10, <1>11, <1>14
  <2>2. Len(t) = x + z + y
    BY <1>12, <1>13
  <2> HIDE DEF x, y, z
  <2> QED
    BY <1>10, <2>1, <2>2
<1>17. Partition(t, m, n)
  BY <1>1, <1>13, <1>15, <1>16, SizesPartition
<1> QED
  BY <1>2, <1>17 DEF t, fm, front, back, m

\* Whatever the plan, its target sizes are those of at most max_buckets buckets,
\* none of them empty, that hold all n elements.
THEOREM TargetsArePartition ==
    ASSUME NEW plan, IsPlan(plan), NEW n \in Nat
    PROVE  Partition(target_sizes(plan, n), plan.max_buckets, n)
<1> DEFINE m == plan.max_buckets
<1>1. /\ plan.kind \in {"uniform", "sizes", "first_page", "geometric"}
      /\ plan.page_size \in Nat \ {0} /\ m \in Nat \ {0}
      /\ plan.growth[1] \in Nat \ {0} /\ plan.growth[2] \in Nat \ {0}
      /\ plan.sizes \in Seq(Nat \ {0})
  BY DEF IsPlan
<1>2. CASE n = 0
  <2> DEFINE z == 0
             t == <<z>>
  <2> HIDE DEF z
  <2>1. z \in Nat
    BY DEF z
  <2>2. total(t) = z
    BY <2>1, TotalOfOne
  <2>3. t \in Seq(Nat) /\ Len(t) = 1
    BY <2>1
  <2>4. target_sizes(plan, n) = t
    BY <1>2 DEF target_sizes, z
  <2> HIDE DEF t
  <2>5. Partition(t, m, n)
    BY <1>1, <1>2, <2>2, <2>3 DEF Partition, z
  <2> QED
    BY <2>4, <2>5
<1>3. CASE n > 0 /\ plan.kind = "uniform"
  <2>1. target_sizes(plan, n) = uniform_sizes(plan, n)
    BY <1>3 DEF target_sizes
  <2> QED
    BY <1>1, <1>3, <2>1, UniformPartition
<1>4. CASE n > 0 /\ plan.kind = "sizes"
  <2>1. target_sizes(plan, n) = explicit_sizes(plan, n)
    BY <1>4 DEF target_sizes
  <2> QED
    BY <1>1, <1>4, <2>1, ExplicitPartition
<1>5. CASE n > 0 /\ plan.kind = "first_page"
  <2>1. target_sizes(plan, n) = first_page_sizes(plan, n)
    BY <1>5 DEF target_sizes
  <2> QED
    BY <1>1, <1>5, <2>1, FirstPagePartition
<1>6. CASE n > 0 /\ plan.kind = "geometric"
  <2>1. target_sizes(plan, n) = geometric_sizes(plan, n)
    BY <1>6 DEF target_sizes
  <2> QED
    BY <1>1, <1>6, <2>1, GeometricPartition
<1> QED
  BY <1>1, <1>2, <1>3, <1>4, <1>5, <1>6

\* Leaving every group the same number of bucket ids leaves each at least one.
LEMMA GroupPlan ==
    ASSUME NEW k \in Name, NEW plan, IsPlan(plan)
    PROVE  IsPlan(per_group(k, plan)) /\ per_group(k, plan).max_buckets <= plan.max_buckets
<1> DEFINE c == GroupCount[k]
           share == BucketLimit \div c
           m == min(min(plan.max_buckets, share), BucketLimit)
           r == [plan EXCEPT !.max_buckets = m]
<1>1. c \in Nat \ {0} /\ BucketLimit \in Nat /\ c <= BucketLimit
  BY BucketLayoutAssumption, SortKeyAssumption
<1>2. plan.max_buckets \in Nat \ {0}
  BY DEF IsPlan
<1> HIDE DEF c
<1>3. share \in Nat \ {0}
  <2> DEFINE rest == BucketLimit % c
  <2>1. share \in Int /\ rest \in 0 .. c - 1 /\ BucketLimit = c * share + rest
    BY <1>1
  <2> HIDE DEF share, rest
  <2>2. CASE share <= 0
    <3>1. c * share <= 0
      BY <1>1, <2>1, <2>2
    <3>2. c * share \in Int
      BY <1>1, <2>1
    <3> QED
      BY <1>1, <2>1, <3>1, <3>2
  <2> QED
    BY <2>1, <2>2
<1>4. m \in Nat \ {0} /\ m <= plan.max_buckets
  <2> HIDE DEF share
  <2> QED
    BY <1>1, <1>2, <1>3 DEF min
<1> HIDE DEF m
<1>5. IsPlan(r) /\ r.max_buckets <= plan.max_buckets
  BY <1>4 DEF IsPlan
<1>6. per_group(k, plan) = plan \/ per_group(k, plan) = r
  BY DEF per_group, with_max_buckets, m, share, c
<1>7. IsPlan(plan) /\ plan.max_buckets <= plan.max_buckets
  BY <1>2
<1> HIDE DEF r
<1> QED
  BY <1>5, <1>6, <1>7
-----------------------------------------------------------------------------
(* Layouts                                                                 *)

\* c is a sequence.
IsSequence(c) == Len(c) \in Nat /\ DOMAIN c = 1 .. Len(c)

\* What choose_split_positions makes of the position q when the split before is
\* at p: the start or the end of q's run, or 0.
Choice(p, q, s, from, to) ==
    LET lo == IF from[q] > p THEN from[q] ELSE 0
        hi == to[q]
    IN  IF hi < s /\ hi > p /\ (lo = 0 \/ wrapped_less(hi - q, q - lo)) THEN hi ELSE lo

\* The last position chosen so far.
Prior(out) == IF out = << >> THEN 0 ELSE Last(out)

\* The positions chosen so far, with what is made of the next desired position.
Chosen(out, q, s, from, to) ==
    IF Choice(Prior(out), q, s, from, to) # 0
    THEN Append(out, Choice(Prior(out), q, s, from, to)) ELSE out

\* The rounds of choose_split_positions.
ChosenRounds(f, desired, s, from, to) ==
    /\ f[0] = << >>
    /\ \A j \in 1 .. Len(desired) : f[j] = Chosen(f[j - 1], desired[j], s, from, to)

\* choose_split_positions goes through such rounds.
LEMMA ChoosingRounds ==
    ASSUME NEW desired, IsSequence(desired), NEW s, NEW from, NEW to
    PROVE  \E f : /\ ChosenRounds(f, desired, s, from, to)
                 /\ choose_split_positions(desired, s, from, to) = f[Len(desired)]
<1> DEFINE k == Len(desired)
           Y == {from[desired[j]] : j \in 1 .. k} \cup {to[desired[j]] : j \in 1 .. k} \cup {0}
           V == Seq(Y)
           a == << >>
           step(j, out) == Chosen(out, desired[j], s, from, to)
           Body(f) == [j \in 0 .. k |-> IF j = 0 THEN a ELSE step(j, f[j - 1])]
           chosen[j \in 0 .. k] == IF j = 0 THEN a ELSE step(j, chosen[j - 1])
           G == [j \in 1 .. k |-> [p \in V |-> step(j, p)]]
<1>1. k \in Nat
  BY DEF IsSequence
<1>2. choose_split_positions(desired, s, from, to) = chosen[k]
      /\ chosen = CHOOSE ff : ff = Body(ff)
  BY DEF choose_split_positions, Chosen, Choice, Prior
<1>3. a \in V
  OBVIOUS
<1>4. ASSUME NEW j \in 1 .. k, NEW p \in V
      PROVE  step(j, p) \in V
  <2>1. \A y \in Y : Append(p, y) \in V
    OBVIOUS
  <2>2. from[desired[j]] \in Y /\ to[desired[j]] \in Y /\ 0 \in Y
    OBVIOUS
  <2> DEFINE x == Choice(Prior(p), desired[j], s, from, to)
  <2> HIDE DEF V, Y
  <2>3. x \in Y
    BY <2>2 DEF Choice
  <2>4. step(j, p) = IF x # 0 THEN Append(p, x) ELSE p
    BY DEF Chosen
  <2> HIDE DEF x, step
  <2> QED
    BY <2>1, <2>3, <2>4
<1> HIDE DEF V, chosen, step, a, k
<1>5. G \in [1 .. k -> [V -> V]] /\ \A j \in 1 .. k, p \in V : G[j][p] = step(j, p)
  BY <1>4
<1> HIDE DEF G
<1>6. PICK f : Iterates(f, k, V, a, G)
  BY <1>1, <1>3, <1>5, Recursion
<1>7. chosen = Body(chosen)
  <2>1. f = Body(f)
    BY <1>1, <1>5, <1>6 DEF Iterates
  <2> HIDE DEF Body
  <2> QED
    BY <1>2, <2>1
<1>8. chosen[0] = a /\ \A j \in 1 .. k : chosen[j] = step(j, chosen[j - 1])
  BY <1>1, <1>7
<1>9. ChosenRounds(chosen, desired, s, from, to)
  BY <1>8 DEF ChosenRounds, k, step, a
<1> QED
  BY <1>2, <1>9 DEF k

\* choose_split_positions picks starts and ends of runs, at most one for every
\* desired position.
LEMMA ChosenPositions ==
    ASSUME NEW desired, IsSequence(desired), NEW s, NEW from, NEW to
    PROVE  /\ IsSequence(choose_split_positions(desired, s, from, to))
           /\ Len(choose_split_positions(desired, s, from, to)) <= Len(desired)
<1> DEFINE k == Len(desired)
<1>1. k \in Nat
  BY DEF IsSequence
<1>2. PICK f : /\ ChosenRounds(f, desired, s, from, to)
               /\ choose_split_positions(desired, s, from, to) = f[k]
  BY ChoosingRounds
<1> DEFINE S == {j \in 0 .. k : IsSequence(f[j]) /\ Len(f[j]) <= j}
<1>3. 0 \in S
  <2>1. f[0] = << >>
    BY <1>2 DEF ChosenRounds
  <2> QED
    BY <1>1, <2>1 DEF IsSequence
<1>4. ASSUME NEW j \in 1 .. k, j - 1 \in S
      PROVE  j \in S
  <2> DEFINE out == f[j - 1]
             x == Choice(Prior(out), desired[j], s, from, to)
             n == Len(out)
             r == Append(out, x)
  <2>1. f[j] = IF x # 0 THEN r ELSE out
    BY <1>2 DEF ChosenRounds, Chosen
  <2>2. n \in Nat /\ DOMAIN out = 1 .. n /\ n <= j - 1
    BY <1>4 DEF IsSequence
  <2> HIDE DEF out, x
  <2>3. Len(r) = n + 1 /\ DOMAIN r = 1 .. n + 1
    BY <2>2
  <2> HIDE DEF r, n
  <2>4. IsSequence(r) /\ IsSequence(out) /\ Len(r) <= j /\ Len(out) <= j
    BY <1>1, <2>2, <2>3 DEF IsSequence, n
  <2> QED
    BY <1>1, <2>1, <2>4
<1>5. k \in S
  <2> HIDE DEF S
  <2>1. 0 .. k \subseteq S
    BY <1>1, <1>3, <1>4, SetInduction
  <2> QED
    BY <1>1, <2>1
<1> QED
  BY <1>2, <1>5

\* A layout has one bucket more than split points.
LayoutShape(layout) ==
    /\ IsSequence(layout.splits) /\ IsSequence(layout.expected)
    /\ Len(layout.expected) = Len(layout.splits) + 1

\* estimate makes layouts of this shape, with no more buckets than the plan
\* allows, whatever the comparator answers.
LEMMA EstimateShape ==
    ASSUME NEW k, NEW vals, Len(vals) \in Nat, NEW ks, NEW plan, IsPlan(plan), NEW g
    PROVE  /\ LayoutShape(estimate(k, vals, ks, plan, g))
           /\ Len(estimate(k, vals, ks, plan, g).expected) <= plan.max_buckets
<1> DEFINE n == Len(members(k, vals, g))
           t == target_sizes(plan, n)
           sorted == sorted_sample(k, vals, ks, plan, g)
           desired == desired_positions(t, Len(sorted), n)
           p == split_positions(k, vals, ks, sorted, t, n)
           whole == [splits |-> << >>, expected |-> <<n>>]
           cut == split_at(k, ks, sorted, p, n)
<1>1. n \in Nat
  <2> DEFINE s == [i \in 1 .. Len(vals) |-> i]
             T == {i \in DOMAIN vals : group(k, vals[i]) = g}
  <2>1. s \in Seq(Nat)
    OBVIOUS
  <2> HIDE DEF s, T
  <2>2. only(s, T) \in Seq(Nat)
    BY <2>1, OnlyPlaces
  <2> QED
    BY <2>2 DEF members, s, T
<1> HIDE DEF n
<1> DEFINE m == plan.max_buckets
<1>8. m \in Nat \ {0}
  BY DEF IsPlan
<1>2. Len(t) \in Nat \ {0} /\ Len(t) <= m
  <2>1. Partition(t, m, n)
    BY <1>1, TargetsArePartition
  <2> HIDE DEF t, m
  <2>2. Len(t) \in 1 .. m
    BY <2>1 DEF Partition
  <2> QED
    BY <1>8, <2>2
<1>3. estimate(k, vals, ks, plan, g) = whole \/ estimate(k, vals, ks, plan, g) = cut
  BY DEF estimate, estimate_for, n
<1> HIDE DEF m
<1>4. LayoutShape(whole) /\ Len(whole.expected) <= m
  BY <1>8 DEF LayoutShape, IsSequence
<1>5. IsSequence(desired) /\ Len(desired) = Len(t) - 1
  <2> HIDE DEF t
  <2> QED
    BY <1>2 DEF desired_positions, IsSequence
<1> HIDE DEF t, sorted, desired
<1>6. IsSequence(p) /\ Len(p) <= Len(desired)
  BY <1>5, ChosenPositions DEF split_positions, desired
<1> HIDE DEF p
<1>7. LayoutShape(cut) /\ Len(cut.expected) = Len(p) + 1
  BY <1>6 DEF LayoutShape, IsSequence, split_at, expected_sizes
<1>9. Len(cut.expected) <= m
  <2>1. Len(p) \in Nat
    BY <1>6 DEF IsSequence
  <2> QED
    BY <1>2, <1>5, <1>6, <1>7, <1>8, <2>1
<1> HIDE DEF whole, cut
<1> QED
  BY <1>3, <1>4, <1>7, <1>9 DEF m

\* The binary search of bucket_of ends in one of the buckets.
LEMMA BucketInLayout ==
    ASSUME NEW k, NEW points, IsSequence(points), NEW v, NEW vk
    PROVE  bucket_of(k, points, v, vk) \in 1 .. Len(points) + 1
<1> DEFINE n == Len(points)
           above == {i \in DOMAIN points : below(k, points[i], v, vk)}
<1>1. n \in Nat
  BY DEF IsSequence
<1> HIDE DEF n, above
<1>2. first_above(n, above) \in 0 .. n
  BY <1>1, AboveRange
<1>3. 1 + first_above(n, above) \in 1 .. n + 1
  BY <1>1, <1>2
<1> QED
  BY <1>3 DEF bucket_of, n, above
-----------------------------------------------------------------------------
(* The sample                                                              *)

\* What division leaves.
LEMMA Quotient ==
    ASSUME NEW a \in Nat, NEW b \in Nat \ {0}
    PROVE  a \div b \in Nat /\ b * (a \div b) <= a /\ a < b * (a \div b) + b
<1> DEFINE q == a \div b
           r == a % b
<1>1. q \in Int /\ r \in 0 .. b - 1 /\ a = b * q + r
  OBVIOUS
<1>2. q >= 0
  <2> HIDE DEF q, r
  <2> SUFFICES ASSUME q < 0
               PROVE  FALSE
    BY <1>1
  <2>1. q <= 0 - 1
    BY <1>1
  <2>2. b * q <= 0 - b
    BY <1>1, <2>1
  <2> QED
    BY <1>1, <2>2
<1> QED
  BY <1>1, <1>2

\* Less than c times b is less than c when divided by b.
LEMMA QuotientBelow ==
    ASSUME NEW a \in Nat, NEW b \in Nat \ {0}, NEW c \in Nat, a < b * c
    PROVE  a \div b \in Nat /\ a \div b < c
<1> DEFINE q == a \div b
<1>1. q \in Nat /\ b * q <= a
  BY Quotient
<1> HIDE DEF q
<1>2. q < c
  <2> SUFFICES ASSUME q >= c
               PROVE  FALSE
    BY <1>1
  <2>1. b * q >= b * c
    BY <1>1
  <2> QED
    BY <1>1, <2>1
<1> QED
  BY <1>1, <1>2 DEF q

\* A draw from the j-th of s strides is one of n places.
LEMMA DrawInside ==
    ASSUME NEW n \in Nat, NEW s \in Nat \ {0}, s < n, NEW j \in 1 .. s, NEW d \in Nat
    PROVE  LET lo == ((j - 1) * n) \div s
               hi == (j * n) \div s
           IN  1 + lo + (d % (hi - lo)) \in 1 .. n
<1> DEFINE a == (j - 1) * n
           b == j * n
           lo == a \div s
           hi == b \div s
           w == hi - lo
<1>1. a \in Nat /\ b \in Nat /\ b = a + n /\ b <= s * n
  <2>1. j - 1 \in Nat /\ j \in Nat /\ j <= s
    OBVIOUS
  <2>2. a \in Nat /\ b \in Nat
    BY <2>1
  <2>3. b = a + n
    BY <2>1
  <2>4. j * n <= s * n
    BY <2>1
  <2> QED
    BY <2>2, <2>3, <2>4
<1> HIDE DEF a, b
<1>2. lo \in Nat /\ s * lo <= a /\ a < s * lo + s
  BY <1>1, Quotient
<1>3. hi \in Nat /\ s * hi <= b /\ b < s * hi + s
  BY <1>1, Quotient
<1> HIDE DEF lo, hi
<1>4. hi <= n
  <2> SUFFICES ASSUME hi >= n + 1
               PROVE  FALSE
    BY <1>3
  <2>1. s * hi >= s * (n + 1)
    BY <1>3
  <2>2. s * (n + 1) = s * n + s
    OBVIOUS
  <2> DEFINE x == s * hi
             y == s * n
             z == s * (n + 1)
  <2>3. x \in Nat /\ y \in Nat /\ z \in Nat /\ x >= z /\ z = y + s /\ x <= b /\ b <= y
    BY <1>1, <1>3, <2>1, <2>2
  <2> HIDE DEF x, y, z
  <2> QED
    BY <1>1, <2>3
<1>5. hi >= lo + 1
  <2> SUFFICES ASSUME hi <= lo
               PROVE  FALSE
    BY <1>2, <1>3
  <2>1. s * hi <= s * lo
    BY <1>2, <1>3
  <2> DEFINE x == s * hi
             y == s * lo
  <2>2. x \in Nat /\ y \in Nat /\ x <= y /\ y <= a /\ b < x + s
    BY <1>2, <1>3, <2>1
  <2> HIDE DEF x, y
  <2> QED
    BY <1>1, <2>2
<1>6. w \in Nat \ {0} /\ lo + w = hi
  BY <1>2, <1>3, <1>5
<1> HIDE DEF w
<1>7. d % w \in 0 .. w - 1
  BY <1>6
<1>8. 1 + lo + (d % w) \in 1 .. n
  <2> DEFINE e == d % w
  <2>1. e \in Nat /\ e < w
    BY <1>6, <1>7
  <2> HIDE DEF e
  <2>2. 1 + lo + e \in 1 .. n
    BY <1>2, <1>3, <1>4, <1>6, <2>1
  <2> QED
    BY <2>2 DEF e
<1> QED
  BY <1>8 DEF w, lo, hi, a, b

\* sample_indices picks places of the subset, at least one when there is one.
LEMMA IndicesInside ==
    ASSUME NEW plan, IsPlan(plan), NEW n \in Nat, Draws(plan, n)
    PROVE  /\ sample_indices(n, plan) \in Seq(1 .. n)
           /\ Len(sample_indices(n, plan)) = min(n, plan.sample_size)
<1> DEFINE s == min(n, plan.sample_size)
           lo(j) == ((j - 1) * n) \div s
           hi(j) == (j * n) \div s
           pick(j) == IF s = n THEN j ELSE 1 + lo(j) + (Rng[plan.seed][j] % (hi(j) - lo(j)))
<1>1. plan.sample_size \in Nat \ {0}
  BY DEF IsPlan
<1>2. s \in Nat /\ s <= n /\ (s # n => s < n /\ s = plan.sample_size)
  BY <1>1 DEF min
<1> HIDE DEF s
<1>3. ASSUME NEW j \in 1 .. s
      PROVE  pick(j) \in 1 .. n
  <2>1. CASE s = n
    BY <2>1
  <2>2. CASE s # n
    <3>1. Rng[plan.seed][j] \in Nat
      BY <1>2, <2>2 DEF Draws
    <3>2. s \in Nat \ {0} /\ s < n
      BY <1>2, <2>2
    <3> DEFINE d == Rng[plan.seed][j]
    <3>3. d \in Nat
      BY <3>1
    <3> HIDE DEF d
    <3>4. 1 + lo(j) + (d % (hi(j) - lo(j))) \in 1 .. n
      BY <3>2, <3>3, DrawInside
    <3> QED
      BY <2>2, <3>4 DEF d
  <2> QED
    BY <2>1, <2>2
<1>4. sample_indices(n, plan) = [j \in 1 .. s |-> pick(j)]
  BY DEF sample_indices, s
<1> HIDE DEF pick
<1>5. [j \in 1 .. s |-> pick(j)] \in Seq(1 .. n) /\ Len([j \in 1 .. s |-> pick(j)]) = s
  BY <1>2, <1>3
<1> QED
  BY <1>4, <1>5 DEF s

\* What the caller's functions return.
LEMMA Signs ==
    ASSUME NEW k \in Name, NEW v \in Value, NEW w \in Value
    PROVE  tie_break(k, v, w) \in {-1, 0, 1}
<1>1. CompareOf \in [Name -> [Value -> [Value -> {-1, 0, 1}]]]
  BY SortKeyAssumption
<1>2. CompareOf[k] \in [Value -> [Value -> {-1, 0, 1}]]
  BY <1>1
<1>3. CompareOf[k][v] \in [Value -> {-1, 0, 1}]
  BY <1>2
<1> QED
  BY <1>3 DEF tie_break

LEMMA KeyRange ==
    ASSUME NEW k \in Name, NEW v \in Value
    PROVE  /\ has_key(k) \in BOOLEAN /\ key(k, v) \in Nat
           /\ group(k, v) \in 1 .. GroupCount[k] /\ GroupCount[k] \in Nat \ {0}
<1>1. HasKey \in [Name -> BOOLEAN] /\ KeyOf \in [Name -> [Value -> Nat]]
  BY SortKeyAssumption
<1>2. GroupCount \in [Name -> Nat \ {0}] /\ GroupOf[k] \in [Value -> 1 .. GroupCount[k]]
  BY SortKeyAssumption
<1>3. KeyOf[k] \in [Value -> Nat]
  BY <1>1
<1>4. KeyOf[k][v] \in Nat
  BY <1>3
<1> QED
  BY <1>1, <1>2, <1>4 DEF has_key, key, group

LEMMA CompareRange ==
    ASSUME NEW k \in Name, NEW v \in Value, NEW w \in Value
    PROVE  compare(k, v, w) \in {-1, 0, 1}
<1>1. tie_break(k, v, w) \in {-1, 0, 1}
  BY Signs
<1> QED
  BY <1>1 DEF compare

\* In one group the exact order is that of the keys and, for equal keys, of the
\* tie-breaker.
LEMMA CompareInGroup ==
    ASSUME NEW k \in Name, NEW v \in Value, NEW w \in Value, group(k, v) = group(k, w)
    PROVE  compare(k, v, w) = IF key(k, v) < key(k, w) THEN -1
                              ELSE IF key(k, v) > key(k, w) THEN 1
                              ELSE tie_break(k, v, w)
<1>1. key(k, v) \in Nat /\ key(k, w) \in Nat
  BY KeyRange
<1> QED
  BY <1>1 DEF compare

\* ks are the normalized keys of vals.
Keyed(k, vals, ks) == vals \in Seq(Value) /\ \A i \in 1 .. Len(vals) : ks[i] = key(k, vals[i])

\* The slots of a group.
GroupOfSlots(k, vals, g) == {i \in 1 .. Len(vals) : group(k, vals[i]) = g}

\* Inside a group the order samples are sorted by is the exact one.
LEMMA SampleOrder ==
    ASSUME NEW k \in Name, NEW vals, NEW ks, Keyed(k, vals, ks), NEW g
    PROVE  \A a, b \in GroupOfSlots(k, vals, g) :
               <<a, b>> \in sample_order(k, vals, ks) <=> compare(k, vals[a], vals[b]) < 0
<1> SUFFICES ASSUME NEW a \in GroupOfSlots(k, vals, g), NEW b \in GroupOfSlots(k, vals, g)
             PROVE  <<a, b>> \in sample_order(k, vals, ks) <=> compare(k, vals[a], vals[b]) < 0
  OBVIOUS
<1> DEFINE v == vals[a]
           w == vals[b]
<1>1. /\ a \in DOMAIN vals /\ b \in DOMAIN vals /\ v \in Value /\ w \in Value
      /\ group(k, v) = group(k, w) /\ ks[a] = key(k, v) /\ ks[b] = key(k, w)
  BY DEF Keyed, GroupOfSlots
<1>2. <<a, b>> \in sample_order(k, vals, ks) <=> sample_less(k, vals, ks, a, b)
  BY <1>1 DEF sample_order
<1>3. sample_less(k, vals, ks, a, b) <=>
         IF has_key(k)
         THEN IF key(k, v) # key(k, w) THEN key(k, v) < key(k, w) ELSE tie_break(k, v, w) < 0
         ELSE compare(k, v, w) < 0
  BY <1>1 DEF sample_less
<1>4. key(k, v) \in Nat /\ key(k, w) \in Nat
  BY <1>1, KeyRange
<1>5. compare(k, v, w) = IF key(k, v) < key(k, w) THEN -1
                         ELSE IF key(k, v) > key(k, w) THEN 1
                         ELSE tie_break(k, v, w)
  BY <1>1, CompareInGroup
<1> HIDE DEF v, w
<1> QED
  BY <1>2, <1>3, <1>4, <1>5 DEF v, w

\* It leaves ties and is a strict order apart from them.
LEMMA SampleOrderWeak ==
    ASSUME NEW k \in Ordering, NEW vals, NEW ks, Keyed(k, vals, ks), NEW g
    PROVE  Weak(sample_order(k, vals, ks), GroupOfSlots(k, vals, g))
<1> DEFINE U == GroupOfSlots(k, vals, g)
           less == sample_order(k, vals, ks)
           C(a, b) == compare(k, vals[a], vals[b])
<1>1. k \in Name
  BY DEF Ordering
<1>2. \A a \in U : vals[a] \in Value
  BY DEF Keyed, GroupOfSlots
<1>3. \A a, b \in U : <<a, b>> \in less <=> C(a, b) < 0
  BY <1>1, SampleOrder
<1>4. \A a, b \in U : C(a, b) \in {-1, 0, 1}
  BY <1>1, <1>2, CompareRange
<1>5. /\ \A a, b \in U : C(a, b) = 0 - C(b, a)
      /\ \A a, b, c \in U : C(a, b) <= 0 /\ C(b, c) <= 0 => C(a, c) <= 0
  BY <1>2 DEF Ordering
<1> HIDE DEF U, less, C
<1>6. ASSUME NEW a \in U, NEW b \in U
      PROVE  /\ ~ (<<a, b>> \in less /\ <<b, a>> \in less)
             /\ <<a, b>> \notin less <=> C(b, a) <= 0
  <2>1. C(a, b) = 0 - C(b, a) /\ C(a, b) \in {-1, 0, 1} /\ C(b, a) \in {-1, 0, 1}
    BY <1>4, <1>5
  <2> QED
    BY <1>3, <2>1
<1>7. ASSUME NEW a \in U, NEW b \in U, NEW c \in U, <<a, b>> \notin less, <<b, c>> \notin less
      PROVE  <<a, c>> \notin less
  <2>1. C(b, a) <= 0 /\ C(c, b) <= 0
    BY <1>6, <1>7
  <2>2. C(c, a) <= 0
    BY <1>5, <2>1
  <2> QED
    BY <1>6, <2>2
<1>8. Weak(less, U)
  BY <1>6, <1>7 DEF Weak
<1> QED
  BY <1>8 DEF less, U

\* members are the slots of the group.
LEMMA MembersOfGroup ==
    ASSUME NEW k, NEW vals, Len(vals) \in Nat, DOMAIN vals = 1 .. Len(vals), NEW g
    PROVE  members(k, vals, g) \in Seq(GroupOfSlots(k, vals, g))
<1> DEFINE s == [i \in 1 .. Len(vals) |-> i]
           T == {i \in DOMAIN vals : group(k, vals[i]) = g}
           r == only(s, T)
<1>1. s \in Seq(1 .. Len(vals))
  OBVIOUS
<1> HIDE DEF s, T
<1>2. r \in Seq(1 .. Len(vals)) /\ ToSet(r) = ToSet(s) \cap T
  BY <1>1, OnlyElements, OnlyPlaces
<1> HIDE DEF r
<1>3. \A i \in 1 .. Len(r) : r[i] \in T
  <2>1. \A i \in 1 .. Len(r) : r[i] \in ToSet(r)
    BY <1>2 DEF ToSet
  <2> QED
    BY <1>2, <2>1
<1>4. T = GroupOfSlots(k, vals, g)
  BY DEF T, GroupOfSlots
<1>5. r \in Seq(T)
  <2>1. r \in [1 .. Len(r) -> T] /\ Len(r) \in Nat
    BY <1>2, <1>3
  <2> QED
    BY <2>1
<1> QED
  BY <1>4, <1>5 DEF members, r, s, T

\* A group has no more members than there are elements.
LEMMA FewMembers ==
    ASSUME NEW k, NEW vals, Len(vals) \in Nat, NEW g
    PROVE  Len(members(k, vals, g)) \in Nat /\ Len(members(k, vals, g)) <= Len(vals)
<1> DEFINE s == [i \in 1 .. Len(vals) |-> i]
           T == {i \in DOMAIN vals : group(k, vals[i]) = g}
<1>1. s \in Seq(1 .. Len(vals)) /\ Len(s) = Len(vals)
  OBVIOUS
<1>2. members(k, vals, g) = only(s, T)
  BY DEF members
<1> HIDE DEF s, T
<1>3. only(s, T) \in Seq(1 .. Len(vals)) /\ Len(only(s, T)) <= Len(s)
  BY <1>1, OnlyPlaces, OnlyElements
<1> QED
  BY <1>1, <1>2, <1>3

\* Any group draws no more samples than the whole collection.
LEMMA GroupDraws ==
    ASSUME NEW k, NEW plan, IsPlan(plan), NEW m \in Nat, Draws(plan, m),
           NEW vals, Len(vals) \in Nat, Len(vals) <= m, NEW g
    PROVE  Draws(per_group(k, plan), Len(members(k, vals, g)))
<1> DEFINE q == per_group(k, plan)
           n == Len(members(k, vals, g))
<1>1. q.sample_size = plan.sample_size /\ q.seed = plan.seed
  BY DEF per_group, with_max_buckets, IsPlan
<1>2. plan.sample_size \in Nat
  BY DEF IsPlan
<1>3. n \in Nat /\ n <= Len(vals)
  BY FewMembers
<1> HIDE DEF q, n
<1>4. plan.sample_size < n => plan.sample_size < m
  BY <1>2, <1>3
<1>5. Draws(q, n)
  BY <1>1, <1>4 DEF Draws
<1> QED
  BY <1>5 DEF q, n

\* t is a sorted sample of the slots of a group: later ones are never before
\* earlier ones in the exact order.
SampleOf(t, k, vals, g) ==
    /\ t \in Seq(GroupOfSlots(k, vals, g))
    /\ \A p, q \in 1 .. Len(t) : p < q => compare(k, vals[t[p]], vals[t[q]]) <= 0

\* sorted_sample returns one, as long as the plan and the group allow.
LEMMA SortedSample ==
    ASSUME NEW k \in Ordering, NEW vals, NEW ks, Keyed(k, vals, ks), NEW g,
           NEW plan, IsPlan(plan), Draws(plan, Len(members(k, vals, g)))
    PROVE  /\ SampleOf(sorted_sample(k, vals, ks, plan, g), k, vals, g)
           /\ Len(sorted_sample(k, vals, ks, plan, g)) = min(Len(members(k, vals, g)), plan.sample_size)
           /\ NotInverted(sorted_sample(k, vals, ks, plan, g), sample_order(k, vals, ks))
<1> DEFINE U == GroupOfSlots(k, vals, g)
           less == sample_order(k, vals, ks)
           subset == members(k, vals, g)
           n == Len(subset)
           indices == sample_indices(n, plan)
           s == [j \in DOMAIN indices |-> subset[indices[j]]]
           t == stable_sort(s, less)
<1>1. k \in Name
  BY DEF Ordering
<1>2. subset \in Seq(U)
  <2>1. Len(vals) \in Nat /\ DOMAIN vals = 1 .. Len(vals)
    BY DEF Keyed
  <2> QED
    BY <2>1, MembersOfGroup
<1>3. Weak(less, U)
  BY SampleOrderWeak
<1>4. \A a, b \in U : <<a, b>> \in less <=> compare(k, vals[a], vals[b]) < 0
  BY <1>1, SampleOrder
<1>5. \A a \in U : vals[a] \in Value
  BY DEF Keyed, GroupOfSlots
<1>6. t = sorted_sample(k, vals, ks, plan, g)
  BY DEF sorted_sample
<1> HIDE DEF U, less, subset
<1>7. n \in Nat /\ \A i \in 1 .. n : subset[i] \in U
  BY <1>2
<1>8. Draws(plan, n)
  BY DEF subset
<1> HIDE DEF n
<1>9. indices \in Seq(1 .. n) /\ Len(indices) = min(n, plan.sample_size)
  BY <1>7, <1>8, IndicesInside
<1> HIDE DEF indices
<1>10. s \in Seq(U) /\ Len(s) = Len(indices)
  <2>1. Len(indices) \in Nat /\ DOMAIN indices = 1 .. Len(indices)
        /\ \A j \in 1 .. Len(indices) : indices[j] \in 1 .. n
    <3> DEFINE P == 1 .. n
    <3>1. indices \in Seq(P)
      BY <1>9
    <3> HIDE DEF P
    <3>2. Len(indices) \in Nat /\ DOMAIN indices = 1 .. Len(indices)
          /\ \A j \in 1 .. Len(indices) : indices[j] \in P
      BY <3>1
    <3> QED
      BY <3>2 DEF P
  <2>2. \A j \in 1 .. Len(indices) : subset[indices[j]] \in U
    BY <1>7, <2>1
  <2>3. s \in [1 .. Len(indices) -> U]
    BY <2>1, <2>2
  <2> QED
    BY <2>1, <2>3
<1> HIDE DEF s
<1>11. t \in Seq(U) /\ NotInverted(t, less)
  BY <1>3, <1>10, SortNotInverted
<1>12. Len(t) = Len(s)
  BY <1>10, SortRearranges DEF Rearranges
<1> HIDE DEF t
<1>13. ASSUME NEW p \in 1 .. Len(t), NEW q \in 1 .. Len(t), p < q
       PROVE  compare(k, vals[t[p]], vals[t[q]]) <= 0
  <2>1. t[p] \in U /\ t[q] \in U /\ <<t[q], t[p]>> \notin less
    BY <1>11, <1>13 DEF NotInverted
  <2>2. vals[t[p]] \in Value /\ vals[t[q]] \in Value
    BY <1>5, <2>1
  <2> DEFINE c == compare(k, vals[t[p]], vals[t[q]])
             d == compare(k, vals[t[q]], vals[t[p]])
  <2>3. c \in {-1, 0, 1} /\ d \in {-1, 0, 1}
    BY <1>1, <2>2, CompareRange
  <2>4. c = 0 - d
    BY <2>2 DEF Ordering
  <2>5. ~ (d < 0)
    BY <1>4, <2>1
  <2> HIDE DEF c, d
  <2>6. c <= 0
    BY <2>3, <2>4, <2>5
  <2> QED
    BY <2>6 DEF c
<1>14. SampleOf(t, k, vals, g)
  BY <1>11, <1>13 DEF SampleOf, U
<1>15. Len(t) = min(Len(members(k, vals, g)), plan.sample_size)
  BY <1>9, <1>10, <1>12 DEF n, subset
<1>16. NotInverted(t, sample_order(k, vals, ks))
  BY <1>11 DEF less
<1> QED
  BY <1>6, <1>14, <1>15, <1>16
-----------------------------------------------------------------------------
(* Where the layout splits                                                 *)

\* f adds up the targets: strictly, as none is empty.
Sums(f, t, n) ==
    /\ f[0] = 0 /\ f[Len(t)] = n
    /\ \A i \in 0 .. Len(t) : f[i] \in Nat
    /\ \A i \in 1 .. Len(t) : f[i] = f[i - 1] + t[i]
    /\ \A i, j \in 0 .. Len(t) : i < j => f[i] < f[j]

\* The desired positions are such sums, scaled to the sample.
LEMMA DesiredSums ==
    ASSUME NEW t, NEW m, NEW n \in Nat \ {0}, Partition(t, m, n), NEW s
    PROVE  \E f : /\ Sums(f, t, n)
                 /\ desired_positions(t, s, n) = [j \in 1 .. Len(t) - 1 |-> (f[j] * s) \div n]
<1> DEFINE c == Len(t)
           V == Nat
           step(i, p) == p + t[i]
           Body(f) == [i \in 0 .. c |-> IF i = 0 THEN 0 ELSE step(i, f[i - 1])]
           cumulative[i \in 0 .. c] == IF i = 0 THEN 0 ELSE step(i, cumulative[i - 1])
           G == [i \in 1 .. c |-> [p \in V |-> step(i, p)]]
           d == [j \in 1 .. c - 1 |-> (cumulative[j] * s) \div n]
<1>1. c \in Nat \ {0} /\ t \in Seq(Nat) /\ total(t) = n /\ \A i \in 1 .. c : t[i] \in Nat /\ t[i] > 0
  BY DEF Partition
<1>2. ASSUME NEW i \in 1 .. c, NEW p \in V
      PROVE  step(i, p) \in V
  BY <1>1
<1>0. 0 \in V
  OBVIOUS
<1>3. desired_positions(t, s, n) = d /\ cumulative = CHOOSE ff : ff = Body(ff)
  BY DEF desired_positions, d
<1> HIDE DEF cumulative, step, c, V, d
<1>4. G \in [1 .. c -> [V -> V]] /\ \A i \in 1 .. c, p \in V : G[i][p] = step(i, p)
  BY <1>2
<1> HIDE DEF G
<1>5. PICK f : Iterates(f, c, V, 0, G)
  BY <1>0, <1>1, <1>4, Recursion
<1>6. cumulative = Body(cumulative)
  <2>1. f = Body(f)
    BY <1>1, <1>4, <1>5 DEF Iterates
  <2> HIDE DEF Body
  <2> QED
    BY <1>3, <2>1
<1>7. cumulative[0] = 0 /\ \A i \in 1 .. c : cumulative[i] = cumulative[i - 1] + t[i]
  BY <1>1, <1>6 DEF step
<1> HIDE DEF Body
<1>8. cumulative[c] = n
  BY <1>1, <1>7, TotalIs DEF c
<1>9. \A i \in 0 .. c : cumulative[i] \in Nat
  <2>0. c \in Nat /\ cumulative[0] \in V
    BY <1>0, <1>1, <1>7
  <2>1. ASSUME NEW i \in 1 .. c, cumulative[i - 1] \in V
        PROVE  cumulative[i] \in V
    <3>1. cumulative[i] = cumulative[i - 1] + t[i]
      BY <1>7
    <3>2. t[i] \in Nat
      BY <1>1 DEF c
    <3> QED
      BY <2>1, <3>1, <3>2 DEF V
  <2>2. \A i \in 0 .. c : cumulative[i] \in V
    BY <2>0, <2>1, Throughout
  <2> QED
    BY <2>2 DEF V
<1>10. ASSUME NEW j \in 0 .. c, NEW l \in 0 .. c, j < l
       PROVE  cumulative[j] < cumulative[l]
  <2> DEFINE S == {i \in 0 .. c : i > j => cumulative[j] < cumulative[i]}
  <2>1. 0 \in S
    BY <1>1
  <2>2. ASSUME NEW i \in 1 .. c, i - 1 \in S
        PROVE  i \in S
    <3>1. /\ cumulative[i] = cumulative[i - 1] + t[i] /\ t[i] > 0 /\ t[i] \in Nat
          /\ cumulative[i - 1] \in Nat /\ cumulative[i] \in Nat /\ cumulative[j] \in Nat
      BY <1>1, <1>7, <1>9
    <3>2. CASE i - 1 > j
      <4>1. cumulative[j] < cumulative[i - 1]
        BY <2>2, <3>2
      <4>2. cumulative[j] < cumulative[i]
        BY <3>1, <4>1
      <4> QED
        BY <4>2
    <3>3. CASE i - 1 = j
      <4>1. cumulative[j] < cumulative[i]
        BY <3>1, <3>3
      <4> QED
        BY <4>1
    <3>4. CASE i <= j
      BY <3>4
    <3> QED
      BY <1>1, <3>2, <3>3, <3>4
  <2> HIDE DEF S
  <2>3. 0 .. c \subseteq S
    BY <1>1, <2>1, <2>2, SetInduction
  <2>4. l \in S
    BY <2>3
  <2> QED
    BY <1>10, <2>4 DEF S
<1>11. Sums(cumulative, t, n)
  BY <1>7, <1>8, <1>9, <1>10 DEF Sums, c
<1> QED
  BY <1>3, <1>11 DEF d, c

\* The desired positions lie inside the sample, because the last target is
\* positive, and never decrease.
LEMMA DesiredInside ==
    ASSUME NEW t, NEW m, NEW n \in Nat \ {0}, Partition(t, m, n), NEW s \in Nat \ {0}
    PROVE  /\ IsSequence(desired_positions(t, s, n))
           /\ \A j \in 1 .. Len(desired_positions(t, s, n)) :
                 desired_positions(t, s, n)[j] \in 0 .. s - 1
           /\ \A i, j \in 1 .. Len(desired_positions(t, s, n)) :
                 i < j => desired_positions(t, s, n)[i] <= desired_positions(t, s, n)[j]
<1> DEFINE c == Len(t)
<1>1. c \in Nat \ {0}
  BY DEF Partition
<1>2. PICK f : /\ Sums(f, t, n)
               /\ desired_positions(t, s, n) = [j \in 1 .. c - 1 |-> (f[j] * s) \div n]
  BY DesiredSums
<1> DEFINE d == [j \in 1 .. c - 1 |-> (f[j] * s) \div n]
<1>3. /\ f[c] = n /\ \A j \in 0 .. c : f[j] \in Nat
      /\ \A i, j \in 0 .. c : i < j => f[i] < f[j]
  BY <1>2 DEF Sums
<1>4. ASSUME NEW j \in 1 .. c - 1
      PROVE  d[j] \in 0 .. s - 1
  <2> DEFINE x == f[j]
             a == x * s
  <2>1. x \in Nat /\ x < n
    <3>1. j \in 0 .. c /\ c \in 0 .. c /\ j < c
      BY <1>1
    <3> QED
      BY <1>3, <3>1
  <2>2. d[j] = a \div n
    OBVIOUS
  <2> HIDE DEF x, d
  <2>3. a \in Nat /\ a < n * s
    BY <2>1
  <2> HIDE DEF a
  <2>4. a \div n \in Nat /\ a \div n < s
    BY <2>3, QuotientBelow
  <2> QED
    BY <2>2, <2>4
<1>5. ASSUME NEW i \in 1 .. c - 1, NEW j \in 1 .. c - 1, i < j
      PROVE  d[i] <= d[j]
  <2> DEFINE x == f[i]
             y == f[j]
             a == x * s
             b == y * s
  <2>1. x \in Nat /\ y \in Nat /\ x < y
    <3>1. i \in 0 .. c /\ j \in 0 .. c
      BY <1>1
    <3> QED
      BY <1>3, <1>5, <3>1
  <2>2. d[i] = a \div n /\ d[j] = b \div n
    OBVIOUS
  <2> HIDE DEF x, y, d
  <2>3. a \in Nat /\ b \in Nat /\ a <= b
    BY <2>1
  <2> HIDE DEF a, b
  <2>4. a \div n \in Nat /\ n * (a \div n) <= a
    BY <2>3, Quotient
  <2>5. b \div n \in Nat /\ b < n * (b \div n) + n
    BY <2>3, Quotient
  <2> DEFINE p == a \div n
             q == b \div n
  <2>6. p \in Nat /\ q \in Nat /\ n * p <= a /\ b < n * q + n
    BY <2>4, <2>5
  <2> HIDE DEF p, q
  <2>7. p <= q
    <3> SUFFICES ASSUME p >= q + 1
                 PROVE  FALSE
      BY <2>6
    <3>1. n * p >= n * (q + 1) /\ n * (q + 1) = n * q + n /\ n * p \in Nat /\ n * q \in Nat
      BY <2>6
    <3> QED
      BY <2>3, <2>6, <3>1
  <2> QED
    BY <2>2, <2>7 DEF p, q
<1>6. IsSequence(d) /\ Len(d) = c - 1
  <2> HIDE DEF c
  <2> QED
    BY <1>1 DEF IsSequence
<1> HIDE DEF d, c
<1> QED
  BY <1>2, <1>4, <1>5, <1>6 DEF d, c

\* c lists places in ascending order.
Increasing(c, n) ==
    /\ c \in Seq(1 .. n)
    /\ \A i, j \in 1 .. Len(c) : i < j => c[i] < c[j]

\* Chosen positions increase and have elements of the sample before and behind
\* them.
LEMMA ChosenIncrease ==
    ASSUME NEW desired, IsSequence(desired), NEW s \in Nat \ {0}, NEW from, NEW to,
           \A j \in 1 .. Len(desired) :
               from[desired[j]] \in 0 .. s - 1 /\ to[desired[j]] \in Nat
    PROVE  Increasing(choose_split_positions(desired, s, from, to), s - 1)
<1> DEFINE k == Len(desired)
           V == {c \in Seq(1 .. s - 1) : \A i, j \in 1 .. Len(c) : i < j => c[i] < c[j]}
           best(j, p) == Choice(p, desired[j], s, from, to)
           prior(out) == Prior(out)
           step(j, out) == Chosen(out, desired[j], s, from, to)
<1>1. k \in Nat
  BY DEF IsSequence
<1>2. PICK f : /\ ChosenRounds(f, desired, s, from, to)
               /\ choose_split_positions(desired, s, from, to) = f[k]
  BY ChoosingRounds
<1>3. << >> \in V
  OBVIOUS
<1>4. ASSUME NEW j \in 1 .. k, NEW out \in V
      PROVE  step(j, out) \in V
  <2> DEFINE p == prior(out)
             b == best(j, p)
             c == Len(out)
             r == Append(out, b)
  <2>1. out \in Seq(1 .. s - 1) /\ c \in Nat /\ DOMAIN out = 1 .. c
        /\ \A i \in 1 .. c : out[i] \in 1 .. s - 1
    <3> DEFINE P == 1 .. s - 1
    <3>1. out \in Seq(P)
      OBVIOUS
    <3> HIDE DEF P
    <3>2. out \in Seq(P) /\ c \in Nat /\ DOMAIN out = 1 .. c /\ \A i \in 1 .. c : out[i] \in P
      BY <3>1
    <3> QED
      BY <3>2 DEF P
  <2>2. \A i \in 1 .. c, l \in 1 .. c : i < l => out[i] < out[l]
    OBVIOUS
  <2>3. p \in 0 .. s - 1 /\ \A i \in 1 .. c : out[i] <= p
    <3>1. CASE c = 0
      <4>1. out = << >>
        BY <2>1, <3>1
      <4> QED
        BY <3>1, <4>1 DEF Prior
    <3>2. CASE c # 0
      <4>1. out # << >> /\ Last(out) = out[c] /\ c \in 1 .. c
        BY <2>1, <3>2 DEF Last
      <4>2. p = out[c]
        BY <4>1 DEF Prior
      <4>3. \A i \in 1 .. c : out[i] <= out[c]
        <5> SUFFICES ASSUME NEW i \in 1 .. c
                     PROVE  out[i] <= out[c]
          OBVIOUS
        <5>1. CASE i = c
          <6>1. out[c] \in 1 .. s - 1
            BY <2>1, <4>1
          <6>2. out[i] = out[c] /\ out[c] \in Int
            BY <5>1, <6>1
          <6> QED
            BY <6>2
        <5>2. CASE i < c
          BY <2>1, <2>2, <4>1, <5>2
        <5>3. i \in Int /\ c \in Int /\ i <= c
          BY <2>1
        <5> QED
          BY <5>1, <5>2, <5>3
      <4> QED
        BY <2>1, <4>1, <4>2, <4>3
    <3> QED
      BY <3>1, <3>2
  <2> HIDE DEF p, prior
  <2>4. b = 0 \/ (b \in 1 .. s - 1 /\ b > p)
    <3> DEFINE x == from[desired[j]]
               y == to[desired[j]]
               q == desired[j]
               lo == IF x > p THEN x ELSE 0
    <3>1. x \in 0 .. s - 1 /\ y \in Nat
      OBVIOUS
    <3>2. (b = y /\ y < s /\ y > p) \/ b = lo
      BY DEF Choice
    <3> HIDE DEF b, x, y, q
    <3> QED
      BY <2>3, <3>1, <3>2
  <2> HIDE DEF b, best, V
  <2>5. step(j, out) = IF b # 0 THEN r ELSE out
    BY DEF b, p, best, prior, Chosen
  <2>6. CASE b = 0
    BY <2>5, <2>6
  <2>7. CASE b # 0
    <3>1. b \in 1 .. s - 1 /\ b > p
      BY <2>4, <2>7
    <3>2. r \in Seq(1 .. s - 1) /\ Len(r) = c + 1 /\ r[c + 1] = b
          /\ \A i \in 1 .. c : r[i] = out[i]
      <4> DEFINE P == 1 .. s - 1
      <4>1. out \in Seq(P) /\ b \in P
        BY <2>1, <3>1
      <4> HIDE DEF P
      <4>2. r \in Seq(P) /\ Len(r) = c + 1 /\ r[c + 1] = b /\ \A i \in 1 .. c : r[i] = out[i]
        BY <4>1
      <4> QED
        BY <4>2 DEF P
    <3> HIDE DEF r
    <3>3. ASSUME NEW i \in 1 .. Len(r), NEW l \in 1 .. Len(r), i < l
          PROVE  r[i] < r[l]
      <4>1. i \in 1 .. c
        BY <2>1, <3>2, <3>3
      <4>2. CASE l = c + 1
        <5>1. r[i] = out[i] /\ out[i] <= p /\ r[l] = b /\ out[i] \in Nat /\ p \in Nat /\ b \in Nat
          BY <2>1, <2>3, <3>1, <3>2, <4>1, <4>2
        <5> QED
          BY <3>1, <5>1
      <4>3. CASE l # c + 1
        <5>1. l \in 1 .. c
          BY <2>1, <3>2, <4>3
        <5> QED
          BY <2>2, <3>2, <3>3, <4>1, <5>1
      <4> QED
        BY <4>2, <4>3
    <3> QED
      BY <2>5, <2>7, <3>2, <3>3 DEF V
  <2> QED
    BY <2>6, <2>7
<1> HIDE DEF V, step, k
<1>5. f[k] \in V
  <2>1. f[0] \in V
    BY <1>2, <1>3 DEF ChosenRounds
  <2>2. \A j \in 1 .. k : f[j - 1] \in V => f[j] \in V
    BY <1>2, <1>4 DEF ChosenRounds, step, k
  <2>3. \A j \in 0 .. k : f[j] \in V
    BY <1>1, <2>1, <2>2, Throughout
  <2> QED
    BY <1>1, <2>3
<1> QED
  BY <1>2, <1>5 DEF V, Increasing

\* The start of the run an element of a sorted sample is in is not behind it.
LEMMA RunStart ==
    ASSUME NEW less, NEW U, Weak(less, U), NEW s \in Seq(U), NotInverted(s, less),
           NEW q \in 1 .. Len(s)
    PROVE  lower_bound(s, s[q], less) \in 0 .. q - 1
<1> DEFINE n == Len(s)
           x == s[q]
           above == {i \in DOMAIN s : <<s[i], x>> \notin less}
           f == first_above(n, above)
<1>1. n \in Nat /\ DOMAIN s = 1 .. n /\ \A i \in 1 .. n : s[i] \in U
  OBVIOUS
<1>2. x \in U /\ q \in above
  BY <1>1 DEF Weak
<1>3. ASSUME NEW i \in 1 .. n, NEW j \in 1 .. n, i <= j, i \in above
      PROVE  j \in above
  <2>1. CASE i = j
    BY <1>3, <2>1
  <2>2. CASE i < j
    <3>1. <<s[j], s[i]>> \notin less /\ <<s[i], x>> \notin less
      BY <1>3, <2>2 DEF NotInverted
    <3>2. <<s[j], x>> \notin less
      BY <1>1, <1>2, <3>1 DEF Weak
    <3> QED
      BY <1>1, <3>2
  <2> QED
    BY <1>3, <2>1, <2>2
<1> HIDE DEF above
<1>4. \A i \in 1 .. n : i \in above <=> i > f
  BY <1>1, <1>3, AboveBoundary
<1>5. f \in 0 .. n
  BY <1>1, AboveRange
<1>6. lower_bound(s, x, less) = f
  BY DEF lower_bound, above
<1> HIDE DEF f, x, n
<1>7. q > f
  BY <1>2, <1>4 DEF n
<1> QED
  BY <1>5, <1>6, <1>7 DEF x, n

\* The positions a layout splits at increase and lie inside the sample.
LEMMA SplitPositionsIncrease ==
    ASSUME NEW k, NEW vals, NEW ks, NEW U, Weak(sample_order(k, vals, ks), U),
           NEW sorted \in Seq(U), NotInverted(sorted, sample_order(k, vals, ks)), Len(sorted) # 0,
           NEW t, NEW m, NEW n \in Nat \ {0}, Partition(t, m, n)
    PROVE  Increasing(split_positions(k, vals, ks, sorted, t, n), Len(sorted) - 1)
<1> DEFINE less == sample_order(k, vals, ks)
           s == Len(sorted)
           desired == desired_positions(t, s, n)
           from == [q \in 0 .. s - 1 |-> lower_bound(sorted, sorted[q + 1], less)]
           to == [q \in 0 .. s - 1 |-> upper_bound(sorted, sorted[q + 1], less)]
<1>1. s \in Nat \ {0}
  OBVIOUS
<1>2. split_positions(k, vals, ks, sorted, t, n) = choose_split_positions(desired, s, from, to)
  BY DEF split_positions
<1> HIDE DEF less
<1>3. ASSUME NEW q \in 0 .. s - 1
      PROVE  from[q] \in 0 .. s - 1 /\ to[q] \in Nat
  <2>1. q + 1 \in 1 .. Len(sorted)
    BY <1>1
  <2> DEFINE r == q + 1
  <2> HIDE DEF r
  <2>2. lower_bound(sorted, sorted[r], less) \in 0 .. r - 1
    BY <2>1, RunStart DEF less, r
  <2>3. from[q] = lower_bound(sorted, sorted[r], less)
    BY DEF r
  <2>4. to[q] = first_above(s, {i \in DOMAIN sorted : <<sorted[q + 1], sorted[i]>> \in less})
    BY DEF upper_bound
  <2>5. to[q] \in 0 .. s
    BY <1>1, <2>4, AboveRange
  <2> QED
    BY <1>1, <2>2, <2>3, <2>5 DEF r
<1> HIDE DEF s, from, to
<1>4. IsSequence(desired) /\ \A j \in 1 .. Len(desired) : desired[j] \in 0 .. s - 1
  BY <1>1, DesiredInside
<1> HIDE DEF desired
<1>5. \A j \in 1 .. Len(desired) : from[desired[j]] \in 0 .. s - 1 /\ to[desired[j]] \in Nat
  BY <1>3, <1>4
<1>6. Increasing(choose_split_positions(desired, s, from, to), s - 1)
  BY <1>1, <1>4, <1>5, ChosenIncrease
<1> QED
  BY <1>2, <1>6 DEF s

\* There are elements, and the chosen positions increase and lie inside the
\* sample s of them.
SplitsInside(k, vals, ks, s, t, n) ==
    n # 0 /\ Increasing(split_positions(k, vals, ks, s, t, n), Len(s) - 1)

\* So it is for every sample, and for the targets of every plan, of two or more
\* buckets.
LEMMA SampleSplitsInside ==
    ASSUME NEW k \in Ordering, NEW vals, NEW ks, Keyed(k, vals, ks), NEW g,
           NEW plan, IsPlan(plan), Draws(plan, Len(members(k, vals, g))),
           NEW for, IsPlan(for), ~ (Len(target_sizes(for, Len(members(k, vals, g)))) <= 1)
    PROVE  SplitsInside(k, vals, ks, sorted_sample(k, vals, ks, plan, g),
                        target_sizes(for, Len(members(k, vals, g))), Len(members(k, vals, g)))
<1> DEFINE n == Len(members(k, vals, g))
           t == target_sizes(for, n)
           sorted == sorted_sample(k, vals, ks, plan, g)
           U == GroupOfSlots(k, vals, g)
<1>1. n \in Nat
  <2>1. Len(vals) \in Nat
    BY DEF Keyed
  <2> QED
    BY <2>1, FewMembers
<1>2. Partition(t, for.max_buckets, n)
  <2> HIDE DEF n
  <2> QED
    BY <1>1, TargetsArePartition
<1>3. /\ SampleOf(sorted, k, vals, g) /\ NotInverted(sorted, sample_order(k, vals, ks))
      /\ Len(sorted) = min(n, plan.sample_size)
  BY SortedSample
<1>4. n # 0
  <2>1. n = 0 => t = <<0>>
    BY DEF target_sizes
  <2>2. Len(<<0>>) = 1
    OBVIOUS
  <2>3. n = 0 => Len(t) = 1
    BY <2>1, <2>2, Zenon
  <2>4. ~ (Len(t) <= 1)
    OBVIOUS
  <2> HIDE DEF n, t
  <2>5. Len(t) = 1 => Len(t) <= 1
    OBVIOUS
  <2> QED
    BY <2>3, <2>4, <2>5
<1>5. Weak(sample_order(k, vals, ks), U)
  BY SampleOrderWeak
<1>6. sorted \in Seq(U)
  BY <1>3 DEF SampleOf
<1>7. Len(sorted) # 0
  <2>1. plan.sample_size \in Nat \ {0}
    BY DEF IsPlan
  <2> HIDE DEF n
  <2> QED
    BY <1>1, <1>3, <1>4, <2>1 DEF min
<1>8. n \in Nat \ {0}
  BY <1>1, <1>4
<1> HIDE DEF n, t, sorted, U
<1>9. Increasing(split_positions(k, vals, ks, sorted, t, n), Len(sorted) - 1)
  BY <1>2, <1>3, <1>5, <1>6, <1>7, <1>8, SplitPositionsIncrease
<1>10. SplitsInside(k, vals, ks, sorted, t, n)
  BY <1>4, <1>9 DEF SplitsInside
<1> QED
  BY <1>10 DEF n, t, sorted
-----------------------------------------------------------------------------
(* What split points tell apart                                            *)

\* Is an element with value v below the split point?
under(k, point, v) == below(k, point, v, key(k, v))

\* The values of a group.
Members(k, g) == {v \in Value : group(k, v) = g}

\* The split point tells the values before e from the others; d, which is not
\* behind e, has a lesser key when the split point knows e by its key only.
CutsAt(k, g, point, d, e) ==
    /\ d \in Members(k, g) /\ e \in Members(k, g)
    /\ compare(k, d, e) <= 0
    /\ \/ \A v \in Members(k, g) : under(k, point, v) <=> compare(k, v, e) < 0
       \/ /\ key(k, d) < key(k, e)
          /\ \A v \in Members(k, g) : under(k, point, v) <=> key(k, v) < key(k, e)

\* The exact order inside a group, as far as it is needed here.
LEMMA GroupOrder ==
    ASSUME NEW k \in Ordering, NEW g
    PROVE  /\ \A u, v \in Members(k, g) : compare(k, u, v) \in {-1, 0, 1}
           /\ \A u, v \in Members(k, g) : compare(k, u, v) = 0 - compare(k, v, u)
           /\ \A u, v, w \in Members(k, g) :
                 compare(k, u, v) <= 0 /\ compare(k, v, w) <= 0 => compare(k, u, w) <= 0
           /\ \A u \in Members(k, g) : key(k, u) \in Nat
           /\ \A u, v \in Members(k, g) : key(k, u) < key(k, v) => compare(k, u, v) < 0
           /\ \A u, v \in Members(k, g) : compare(k, u, v) <= 0 => key(k, u) <= key(k, v)
<1>1. k \in Name /\ Members(k, g) \subseteq Value
  BY DEF Ordering, Members
<1>2. \A u, v \in Members(k, g) : compare(k, u, v) \in {-1, 0, 1}
  BY <1>1, CompareRange
<1>3. \A u, v \in Members(k, g) : compare(k, u, v) = 0 - compare(k, v, u)
  BY <1>1 DEF Ordering
<1>4. \A u, v, w \in Members(k, g) :
          compare(k, u, v) <= 0 /\ compare(k, v, w) <= 0 => compare(k, u, w) <= 0
  BY <1>1 DEF Ordering
<1>5. \A u \in Members(k, g) : key(k, u) \in Nat
  BY <1>1, KeyRange
<1>6. ASSUME NEW u \in Members(k, g), NEW v \in Members(k, g)
      PROVE  /\ key(k, u) < key(k, v) => compare(k, u, v) < 0
             /\ compare(k, u, v) <= 0 => key(k, u) <= key(k, v)
  <2>1. u \in Value /\ v \in Value /\ group(k, u) = group(k, v)
    BY DEF Members
  <2>2. compare(k, u, v) = IF key(k, u) < key(k, v) THEN -1
                           ELSE IF key(k, u) > key(k, v) THEN 1
                           ELSE tie_break(k, u, v)
    BY <1>1, <2>1, CompareInGroup
  <2>3. key(k, u) \in Nat /\ key(k, v) \in Nat
    BY <1>5
  <2> QED
    BY <2>2, <2>3
<1> QED
  BY <1>2, <1>3, <1>4, <1>5, <1>6

\* What is not behind a value below a split point is below it, too.
LEMMA CutDown ==
    ASSUME NEW k \in Ordering, NEW g, NEW point, NEW d, NEW e, CutsAt(k, g, point, d, e),
           NEW v \in Members(k, g), NEW w \in Members(k, g), under(k, point, v),
           compare(k, w, v) <= 0
    PROVE  under(k, point, w)
<1> DEFINE C(a, b) == compare(k, a, b)
           M == Members(k, g)
           K(a) == key(k, a)
<1>1. /\ \A a, b \in M : C(a, b) \in {-1, 0, 1}
      /\ \A a, b \in M : C(a, b) = 0 - C(b, a)
      /\ \A a, b, c \in M : C(a, b) <= 0 /\ C(b, c) <= 0 => C(a, c) <= 0
      /\ \A a \in M : K(a) \in Nat
      /\ \A a, b \in M : C(a, b) <= 0 => K(a) <= K(b)
  BY GroupOrder
<1>2. /\ e \in M /\ v \in M /\ w \in M /\ C(w, v) <= 0
      /\ \/ \A a \in M : under(k, point, a) <=> C(a, e) < 0
         \/ \A a \in M : under(k, point, a) <=> K(a) < K(e)
  BY DEF CutsAt
<1> HIDE DEF C, M, K
<1>3. CASE \A a \in M : under(k, point, a) <=> C(a, e) < 0
  <2>1. C(v, e) < 0
    BY <1>2, <1>3
  <2>2. C(v, e) \in {-1, 0, 1} /\ C(w, e) \in {-1, 0, 1} /\ C(e, w) \in {-1, 0, 1}
        /\ C(e, v) \in {-1, 0, 1} /\ C(e, v) = 0 - C(v, e) /\ C(e, w) = 0 - C(w, e)
    BY <1>1, <1>2
  <2>3. C(e, w) <= 0 => C(e, v) <= 0
    BY <1>1, <1>2
  <2>4. C(w, e) < 0
    BY <2>1, <2>2, <2>3
  <2> QED
    BY <1>2, <1>3, <2>4
<1>4. CASE \A a \in M : under(k, point, a) <=> K(a) < K(e)
  <2>1. K(v) < K(e) /\ K(w) <= K(v) /\ K(v) \in Nat /\ K(w) \in Nat /\ K(e) \in Nat
    BY <1>1, <1>2, <1>4
  <2> QED
    BY <1>2, <1>4, <2>1
<1> QED
  BY <1>2, <1>3, <1>4

\* What is below a split point is below every later one.
LEMMA CutNested ==
    ASSUME NEW k \in Ordering, NEW g, NEW point, NEW d, NEW e, CutsAt(k, g, point, d, e),
           NEW point2, NEW d2, NEW e2, CutsAt(k, g, point2, d2, e2), compare(k, e, d2) <= 0,
           NEW v \in Members(k, g), under(k, point, v)
    PROVE  under(k, point2, v)
<1> DEFINE C(a, b) == compare(k, a, b)
           M == Members(k, g)
           K(a) == key(k, a)
<1>1. /\ \A a, b \in M : C(a, b) \in {-1, 0, 1}
      /\ \A a, b \in M : C(a, b) = 0 - C(b, a)
      /\ \A a, b, c \in M : C(a, b) <= 0 /\ C(b, c) <= 0 => C(a, c) <= 0
      /\ \A a \in M : K(a) \in Nat
      /\ \A a, b \in M : K(a) < K(b) => C(a, b) < 0
      /\ \A a, b \in M : C(a, b) <= 0 => K(a) <= K(b)
  BY GroupOrder
<1>2. /\ e \in M /\ v \in M /\ d2 \in M /\ e2 \in M /\ C(e, d2) <= 0 /\ C(d2, e2) <= 0
      /\ \/ \A a \in M : under(k, point, a) <=> C(a, e) < 0
         \/ \A a \in M : under(k, point, a) <=> K(a) < K(e)
  BY DEF CutsAt
<1>3. \/ \A a \in M : under(k, point2, a) <=> C(a, e2) < 0
      \/ K(d2) < K(e2) /\ \A a \in M : under(k, point2, a) <=> K(a) < K(e2)
  BY DEF CutsAt
<1> HIDE DEF C, M, K
<1>4. C(v, e) < 0
  BY <1>1, <1>2
<1>5. /\ C(v, e) \in {-1, 0, 1} /\ C(e, v) \in {-1, 0, 1} /\ C(e, v) = 0 - C(v, e)
      /\ C(v, e2) \in {-1, 0, 1} /\ C(e2, v) \in {-1, 0, 1} /\ C(e2, v) = 0 - C(v, e2)
  BY <1>1, <1>2
<1>6. C(v, d2) <= 0
  <2>1. C(v, e) <= 0
    BY <1>4, <1>5
  <2> QED
    BY <1>1, <1>2, <2>1
<1>7. CASE \A a \in M : under(k, point2, a) <=> C(a, e2) < 0
  <2>1. C(e, e2) <= 0
    BY <1>1, <1>2
  <2>2. C(e2, v) <= 0 => C(e, v) <= 0
    BY <1>1, <1>2, <2>1
  <2>3. C(v, e2) < 0
    BY <1>4, <1>5, <2>2
  <2> QED
    BY <1>2, <1>7, <2>3
<1>8. CASE K(d2) < K(e2) /\ \A a \in M : under(k, point2, a) <=> K(a) < K(e2)
  <2>1. K(v) <= K(d2) /\ K(v) \in Nat /\ K(d2) \in Nat /\ K(e2) \in Nat
    BY <1>1, <1>2, <1>6
  <2>2. K(v) < K(e2)
    BY <1>8, <2>1
  <2> QED
    BY <1>2, <1>8, <2>2
<1> QED
  BY <1>3, <1>7, <1>8

\* The split points with the values of their elements.
Resolves(points, splits, vals) ==
    /\ IsSequence(points) /\ Len(points) = Len(splits)
    /\ \A i \in 1 .. Len(points) :
          /\ points[i].key = splits[i].key
          /\ splits[i].pos = no_element => points[i].elem = NoValue
          /\ splits[i].pos \in 1 .. Len(vals) => points[i].elem = vals[splits[i].pos]

\* split_point tells the sampled elements on its two sides apart.
LEMMA PointCuts ==
    ASSUME NEW k \in Name, NEW vals, NEW ks, Keyed(k, vals, ks), NEW g, NEW t,
           SampleOf(t, k, vals, g), NEW p \in 1 .. Len(t) - 1, NEW point,
           point.key = split_point(k, ks, t, p).key,
           split_point(k, ks, t, p).pos = no_element => point.elem = NoValue,
           split_point(k, ks, t, p).pos \in 1 .. Len(vals)
               => point.elem = vals[split_point(k, ks, t, p).pos]
    PROVE  CutsAt(k, g, point, vals[t[p]], vals[t[p + 1]])
<1> DEFINE x == t[p]
           y == t[p + 1]
           d == vals[x]
           e == vals[y]
           c == split_point(k, ks, t, p)
<1>1. /\ p \in 1 .. Len(t) /\ p + 1 \in 1 .. Len(t) /\ p < p + 1
      /\ t \in Seq(GroupOfSlots(k, vals, g))
  BY DEF SampleOf
<1>2. x \in GroupOfSlots(k, vals, g) /\ y \in GroupOfSlots(k, vals, g)
  BY <1>1
<1>3. compare(k, d, e) <= 0
  BY <1>1 DEF SampleOf
<1>4. /\ x \in 1 .. Len(vals) /\ y \in 1 .. Len(vals) /\ Len(vals) \in Nat
      /\ d \in Members(k, g) /\ e \in Members(k, g)
      /\ ks[x] = key(k, d) /\ ks[y] = key(k, e)
  BY <1>2 DEF GroupOfSlots, Keyed, Members
<1>5. /\ c.key = IF has_key(k) THEN ks[y] ELSE 0
      /\ c.pos = IF ~ has_key(k) \/ ks[x] = ks[y] THEN y ELSE no_element
  BY DEF split_point
<1>6. e \in Value /\ d \in Value /\ e # NoValue /\ group(k, d) = group(k, e)
  BY <1>4, BucketLayoutAssumption DEF Members
<1>7. key(k, d) \in Nat /\ key(k, e) \in Nat /\ has_key(k) \in BOOLEAN
  BY <1>6, KeyRange
<1>8. ASSUME NEW v \in Members(k, g)
      PROVE  /\ key(k, v) \in Nat
             /\ compare(k, v, e) = IF key(k, v) < key(k, e) THEN -1
                                   ELSE IF key(k, v) > key(k, e) THEN 1
                                   ELSE tie_break(k, v, e)
  <2>1. v \in Value /\ group(k, v) = group(k, e)
    BY <1>4 DEF Members
  <2> QED
    BY <1>6, <2>1, CompareInGroup, KeyRange
<1> HIDE DEF x, y, d, e, c
<1>9. CASE ~ has_key(k)
  <2>1. c.pos = y
    BY <1>5, <1>9
  <2>2. point.elem = e
    BY <1>4, <2>1 DEF c, e
  <2>3. \A v \in Members(k, g) : under(k, point, v) <=> compare(k, v, e) < 0
    BY <1>9, <2>2 DEF under, below
  <2> QED
    BY <1>3, <1>4, <2>3 DEF CutsAt, x, y, d, e
<1>10. CASE has_key(k) /\ ks[x] = ks[y]
  <2>1. c.pos = y /\ c.key = key(k, e)
    BY <1>4, <1>5, <1>10
  <2>2. point.elem = e /\ point.key = key(k, e)
    BY <1>4, <2>1 DEF c, e
  <2>3. ASSUME NEW v \in Members(k, g)
        PROVE  under(k, point, v) <=> compare(k, v, e) < 0
    <3>1. under(k, point, v) <=> IF key(k, v) = key(k, e) THEN tie_break(k, v, e) < 0
                                 ELSE key(k, v) < key(k, e)
      BY <1>6, <1>10, <2>2 DEF under, below
    <3> QED
      BY <1>7, <1>8, <3>1
  <2> QED
    BY <1>3, <1>4, <2>3 DEF CutsAt, x, y, d, e
<1>11. CASE has_key(k) /\ ks[x] # ks[y]
  <2>1. c.pos = no_element /\ c.key = key(k, e)
    BY <1>4, <1>5, <1>11
  <2>2. point.elem = NoValue /\ point.key = key(k, e)
    BY <2>1 DEF c
  <2>3. \A v \in Members(k, g) : under(k, point, v) <=> key(k, v) < key(k, e)
    BY <1>11, <2>2 DEF under, below
  <2>4. compare(k, d, e) = IF key(k, d) < key(k, e) THEN -1
                           ELSE IF key(k, d) > key(k, e) THEN 1
                           ELSE tie_break(k, d, e)
    BY <1>4, <1>8
  <2>5. key(k, d) < key(k, e)
    BY <1>3, <1>4, <1>7, <1>11, <2>4 DEF d, e
  <2> QED
    BY <1>3, <1>4, <2>3, <2>5 DEF CutsAt, x, y, d, e
<1> QED
  BY <1>9, <1>10, <1>11

\* The split points of group g divide its values in the exact order.
SplitsOrdered(k, g, points) ==
    /\ IsSequence(points)
    /\ \A i \in 1 .. Len(points) : \A v, w \in Members(k, g) :
          compare(k, w, v) <= 0 /\ under(k, points[i], v) => under(k, points[i], w)
    /\ \A i, j \in 1 .. Len(points) : i < j =>
          \A v \in Members(k, g) : under(k, points[i], v) => under(k, points[j], v)

\* Split points between elements of a sorted sample do.
LEMMA CutsOrdered ==
    ASSUME NEW k \in Ordering, NEW vals, NEW ks, Keyed(k, vals, ks), NEW g, NEW t,
           SampleOf(t, k, vals, g), NEW c, Increasing(c, Len(t) - 1), NEW points,
           Resolves(points, [i \in DOMAIN c |-> split_point(k, ks, t, c[i])], vals)
    PROVE  SplitsOrdered(k, g, points)
<1> DEFINE m == Len(points)
           splits == [i \in DOMAIN c |-> split_point(k, ks, t, c[i])]
           D(i) == vals[t[c[i]]]
           E(i) == vals[t[c[i] + 1]]
<1>1. k \in Name
  BY DEF Ordering
<1>2. Len(c) \in Nat /\ DOMAIN c = 1 .. Len(c) /\ \A i \in 1 .. Len(c) : c[i] \in 1 .. Len(t) - 1
  <2> DEFINE P == 1 .. Len(t) - 1
  <2>1. c \in Seq(P)
    BY DEF Increasing
  <2> HIDE DEF P
  <2>2. Len(c) \in Nat /\ DOMAIN c = 1 .. Len(c) /\ \A i \in 1 .. Len(c) : c[i] \in P
    BY <2>1
  <2> QED
    BY <2>2 DEF P
<1>3. m = Len(c) /\ IsSequence(points)
  BY <1>2 DEF Resolves
<1>4. ASSUME NEW i \in 1 .. m
      PROVE  CutsAt(k, g, points[i], D(i), E(i))
  <2> DEFINE p == c[i]
             point == points[i]
  <2>1. p \in 1 .. Len(t) - 1
    BY <1>2, <1>3
  <2>2. splits[i] = split_point(k, ks, t, p)
    BY <1>2, <1>3
  <2>3. /\ point.key = splits[i].key
        /\ splits[i].pos = no_element => point.elem = NoValue
        /\ splits[i].pos \in 1 .. Len(vals) => point.elem = vals[splits[i].pos]
    BY DEF Resolves
  <2> HIDE DEF p, point, splits
  <2>4. CutsAt(k, g, point, vals[t[p]], vals[t[p + 1]])
    BY <1>1, <2>1, <2>2, <2>3, PointCuts
  <2> QED
    BY <2>4 DEF p, point
<1>5. ASSUME NEW i \in 1 .. m, NEW j \in 1 .. m, i < j
      PROVE  compare(k, E(i), D(j)) <= 0
  <2> DEFINE p == c[i] + 1
             q == c[j]
  <2>1. c[i] < c[j]
    BY <1>3, <1>5 DEF Increasing
  <2>2. c[i] \in 1 .. Len(t) - 1 /\ c[j] \in 1 .. Len(t) - 1
    BY <1>2, <1>3
  <2>3. Len(t) \in Nat
    BY DEF SampleOf
  <2>4. p \in 1 .. Len(t) /\ q \in 1 .. Len(t) /\ p <= q
    BY <2>1, <2>2, <2>3
  <2> HIDE DEF p, q
  <2>5. CASE p < q
    <3>1. compare(k, vals[t[p]], vals[t[q]]) <= 0
      BY <2>4, <2>5 DEF SampleOf
    <3> QED
      BY <3>1 DEF p, q
  <2>6. CASE p = q
    <3> DEFINE v == D(j)
    <3>1. v \in Members(k, g)
      BY <1>4 DEF CutsAt
    <3> HIDE DEF v
    <3>2. compare(k, v, v) = 0 - compare(k, v, v) /\ compare(k, v, v) \in {-1, 0, 1}
      BY <3>1, GroupOrder
    <3>3. compare(k, v, v) <= 0
      BY <3>2
    <3>4. E(i) = v
      BY <2>6 DEF v, p, q
    <3> QED
      BY <3>3, <3>4 DEF v
  <2> QED
    BY <2>4, <2>5, <2>6
<1> HIDE DEF m, D, E
<1>6. ASSUME NEW i \in 1 .. m, NEW v \in Members(k, g), NEW w \in Members(k, g),
             compare(k, w, v) <= 0, under(k, points[i], v)
      PROVE  under(k, points[i], w)
  BY <1>4, <1>6, CutDown
<1>7. ASSUME NEW i \in 1 .. m, NEW j \in 1 .. m, i < j, NEW v \in Members(k, g),
             under(k, points[i], v)
      PROVE  under(k, points[j], v)
  <2>1. CutsAt(k, g, points[i], D(i), E(i)) /\ CutsAt(k, g, points[j], D(j), E(j))
        /\ compare(k, E(i), D(j)) <= 0
    BY <1>4, <1>5, <1>7
  <2> QED
    BY <1>7, <2>1, CutNested
<1> QED
  BY <1>3, <1>6, <1>7 DEF SplitsOrdered, m

\* So do the split points estimate chooses, whatever the plan and the sample.
LEMMA EstimateOrdered ==
    ASSUME NEW k \in Ordering, NEW vals, NEW ks, Keyed(k, vals, ks), NEW g,
           NEW plan, IsPlan(plan), Draws(plan, Len(members(k, vals, g))), NEW points,
           Resolves(points, estimate(k, vals, ks, plan, g).splits, vals)
    PROVE  SplitsOrdered(k, g, points)
<1> DEFINE n == Len(members(k, vals, g))
           t == target_sizes(plan, n)
           sorted == sorted_sample(k, vals, ks, plan, g)
           positions == split_positions(k, vals, ks, sorted, t, n)
<1>1. estimate(k, vals, ks, plan, g).splits =
         IF Len(t) <= 1 THEN << >>
         ELSE [i \in DOMAIN positions |-> split_point(k, ks, sorted, positions[i])]
  BY DEF estimate, estimate_for, split_at
<1>2. CASE Len(t) <= 1
  <2>1. Len(points) = 0 /\ IsSequence(points)
    BY <1>1, <1>2 DEF Resolves
  <2> QED
    BY <2>1 DEF SplitsOrdered
<1>3. CASE ~ (Len(t) <= 1)
  <2>1. SplitsInside(k, vals, ks, sorted, t, n)
    BY <1>3, SampleSplitsInside
  <2>2. Resolves(points, [i \in DOMAIN positions |-> split_point(k, ks, sorted, positions[i])], vals)
    BY <1>1, <1>3
  <2>3. SampleOf(sorted, k, vals, g)
    BY SortedSample
  <2> HIDE DEF n, t, sorted, positions
  <2>4. Increasing(positions, Len(sorted) - 1)
    BY <2>1 DEF SplitsInside, positions
  <2> QED
    BY <2>2, <2>3, <2>4, CutsOrdered
<1> QED
  BY <1>2, <1>3

\* bucket_of finds the bucket of a value: it is below the split points from there
\* on and not below those before.
LEMMA BucketBoundary ==
    ASSUME NEW k, NEW g, NEW points, SplitsOrdered(k, g, points), NEW x \in Members(k, g)
    PROVE  /\ bucket_of(k, points, x, key(k, x)) \in 1 .. Len(points) + 1
           /\ \A i \in 1 .. Len(points) :
                 under(k, points[i], x) <=> i >= bucket_of(k, points, x, key(k, x))
<1> DEFINE m == Len(points)
           above == {i \in DOMAIN points : below(k, points[i], x, key(k, x))}
           f == first_above(m, above)
<1>1. m \in Nat /\ DOMAIN points = 1 .. m
  BY DEF SplitsOrdered, IsSequence
<1>2. \A i \in 1 .. m : i \in above <=> under(k, points[i], x)
  BY <1>1 DEF under
<1>3. bucket_of(k, points, x, key(k, x)) = 1 + f
  BY DEF bucket_of
<1> HIDE DEF above, m
<1>4. ASSUME NEW i \in 1 .. m, NEW j \in 1 .. m, i <= j, i \in above
      PROVE  j \in above
  <2>1. CASE i = j
    BY <1>4, <2>1
  <2>2. CASE i < j
    <3>1. under(k, points[i], x)
      BY <1>2, <1>4
    <3>2. under(k, points[j], x)
      BY <2>2, <3>1 DEF SplitsOrdered, m
    <3> QED
      BY <1>2, <3>2
  <2> QED
    BY <1>4, <2>1, <2>2
<1>5. f \in 0 .. m /\ \A i \in 1 .. m : i \in above <=> i > f
  BY <1>1, <1>4, AboveBoundary, AboveRange
<1> HIDE DEF f
<1>6. 1 + f \in 1 .. m + 1 /\ \A i \in 1 .. m : i > f <=> i >= 1 + f
  BY <1>1, <1>5
<1> QED
  BY <1>2, <1>3, <1>5, <1>6 DEF m

\* bucket_of follows the exact order under such split points.
LEMMA BucketFollows ==
    ASSUME NEW k, NEW g, NEW points, SplitsOrdered(k, g, points),
           NEW v \in Members(k, g), NEW w \in Members(k, g), compare(k, v, w) <= 0
    PROVE  bucket_of(k, points, v, key(k, v)) <= bucket_of(k, points, w, key(k, w))
<1> DEFINE m == Len(points)
           a == bucket_of(k, points, v, key(k, v))
           b == bucket_of(k, points, w, key(k, w))
<1>1. m \in Nat
  BY DEF SplitsOrdered, IsSequence
<1>2. /\ a \in 1 .. m + 1 /\ \A i \in 1 .. m : under(k, points[i], v) <=> i >= a
      /\ b \in 1 .. m + 1 /\ \A i \in 1 .. m : under(k, points[i], w) <=> i >= b
  BY BucketBoundary
<1>3. \A i \in 1 .. m : under(k, points[i], w) => under(k, points[i], v)
  BY DEF SplitsOrdered
<1> HIDE DEF m, a, b
<1>4. a <= b
  <2> SUFFICES ASSUME a > b
               PROVE  FALSE
    BY <1>1, <1>2
  <2>1. b \in 1 .. m
    BY <1>1, <1>2
  <2>2. b >= a
    BY <1>1, <1>2, <1>3, <2>1
  <2> QED
    BY <1>1, <1>2, <2>2
<1> QED
  BY <1>4 DEF a, b
=============================================================================
