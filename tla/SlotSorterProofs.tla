-------------------------- MODULE SlotSorterProofs --------------------------
(***************************************************************************)
(* Proofs about the sort on slot arrays, for buckets of any length, every  *)
(* threshold and every comparator: what it returns is the bucket           *)
(* rearranged, in order if the comparator is one, and no merge needs more  *)
(* of the buffer than there is.                                            *)
(***************************************************************************)
EXTENDS SlotSorter, WellFoundedInduction, TLAPS

-----------------------------------------------------------------------------
(* Induction and recursion, as in LayoutProofs                             *)

\* Every set of natural numbers that is not empty has a least element.
LEMMA Least ==
    ASSUME NEW T \in SUBSET Nat, T # {}
    PROVE  \E least \in T : \A other \in T : least <= other
<1> DEFINE R == OpToRel(<, Nat)
<1>1. IsWellFoundedOn(R, Nat)
  BY NatLessThanWellFounded
<1>2. PICK least \in T : \A other \in T : <<other, least>> \notin R
  <2> HIDE DEF R
  <2> QED
    BY <1>1, WFMin
<1>3. \A other \in T : ~ (other < least)
  BY <1>2 DEF OpToRel
<1>4. \A other \in T : least <= other
  <2> TAKE other \in T
  <2>1. least \in Nat /\ other \in Nat /\ ~ (other < least)
    BY <1>3
  <2> QED
    BY <2>1
<1> QED
  BY <1>4

\* Induction, with a set for the property.
LEMMA SetInduction ==
    ASSUME NEW n \in Nat, NEW S, 0 \in S, \A i \in 1 .. n : i - 1 \in S => i \in S
    PROVE  0 .. n \subseteq S
<1> SUFFICES ASSUME (0 .. n) \ S # {} PROVE FALSE
  OBVIOUS
<1> DEFINE T == (0 .. n) \ S
<1>1. PICK least \in T : \A other \in T : least <= other
  <2>1. T \in SUBSET Nat /\ T # {}
    OBVIOUS
  <2> HIDE DEF T
  <2> QED
    BY <2>1, Least
<1>2. least \in 1 .. n /\ least - 1 \in 0 .. n /\ least - 1 \in S
  BY <1>1
<1> QED
  BY <1>1, <1>2

\* f starts with a and takes the step G[i] at i.
Iterates(f, n, V, a, G) ==
    /\ f \in [0 .. n -> V]
    /\ f[0] = a
    /\ \A i \in 1 .. n : f[i] = G[i][f[i - 1]]

\* Such a function exists when all of that stays in V.
LEMMA Recursion ==
    ASSUME NEW V, NEW a \in V, NEW n \in Nat, NEW G \in [1 .. n -> [V -> V]]
    PROVE  \E f : Iterates(f, n, V, a, G)
<1> DEFINE S == {m \in 0 .. n : \E f : Iterates(f, m, V, a, G)}
<1>1. 0 \in S
  <2>1. Iterates([i \in 0 .. 0 |-> a], 0, V, a, G)
    BY DEF Iterates
  <2> QED
    BY <2>1
<1>2. ASSUME NEW m \in 1 .. n, m - 1 \in S
      PROVE  m \in S
  <2>1. PICK f : Iterates(f, m - 1, V, a, G)
    BY <1>2
  <2> DEFINE g == [i \in 0 .. m |-> IF i = m THEN G[m][f[m - 1]] ELSE f[i]]
  <2>2. f[m - 1] \in V /\ G[m][f[m - 1]] \in V
    BY <2>1 DEF Iterates
  <2>3. Iterates(g, m, V, a, G)
    BY <2>1, <2>2 DEF Iterates
  <2> HIDE DEF g
  <2> QED
    BY <2>3
<1>3. n \in S
  <2> HIDE DEF S
  <2>1. 0 .. n \subseteq S
    BY <1>1, <1>2, SetInduction
  <2> QED
    BY <2>1
<1> QED
  BY <1>3

\* What a function takes over from its value one place before, it has everywhere.
LEMMA Throughout ==
    ASSUME NEW n \in Nat, NEW V, NEW r, r[0] \in V, \A i \in 1 .. n : r[i - 1] \in V => r[i] \in V
    PROVE  \A i \in 0 .. n : r[i] \in V
<1> DEFINE S == {i \in 0 .. n : r[i] \in V}
<1>1. 0 \in S
  OBVIOUS
<1>2. \A i \in 1 .. n : i - 1 \in S => i \in S
  OBVIOUS
<1>3. 0 .. n \subseteq S
  <2> HIDE DEF S
  <2> QED
    BY <1>1, <1>2, SetInduction
<1> QED
  BY <1>3
-----------------------------------------------------------------------------
(* Ranges of an array                                                      *)

\* No slot is twice in the array.
Distinct(a) == \A p, q \in 1 .. Len(a) : p # q => a[p] # a[q]

\* a[from, to) is in the exact order.
Ascending(a, from, to) ==
    \A p, q \in from + 1 .. to : p < q => slot_compare(a[p], a[q]) < 0

\* b is a with the slots of [from, to) in other places of that range.
Rearranged(a, b, from, to) ==
    /\ a \in Seq(Slot) /\ b \in Seq(Slot) /\ Len(b) = Len(a)
    /\ \A p \in 1 .. Len(a) : p <= from \/ p > to => b[p] = a[p]
    /\ \A p \in from + 1 .. to : \E q \in from + 1 .. to : b[p] = a[q]
    /\ \A q \in from + 1 .. to : \E p \in from + 1 .. to : b[p] = a[q]

\* b is a with [from, to) sorted, if there is an order, and no slot lost or doubled.
SortedRange(a, b, from, to) ==
    /\ Rearranged(a, b, from, to)
    /\ Distinct(b)
    /\ IsOrder => Ascending(b, from, to)

\* The comparator tells slots apart and gives one of three answers.
LEMMA Comparisons ==
    ASSUME outcome \in Outcomes, NEW a \in Slot, NEW b \in Slot
    PROVE  /\ slot_compare(a, b) \in {-1, 0, 1}
           /\ a # b => slot_compare(a, b) # 0
<1>1. outcome[a][b] \in {-1, 0, 1} /\ a \in Nat /\ b \in Nat
  BY SlotSorterAssumption
<1> QED
  BY <1>1 DEF slot_compare

\* Total and transitive.
LEMMA Totality ==
    ASSUME outcome \in Outcomes, IsOrder, NEW a \in Slot, NEW b \in Slot, a # b
    PROVE  /\ slot_compare(a, b) <= 0 => slot_compare(a, b) < 0
           /\ ~ (slot_compare(a, b) <= 0) => slot_compare(b, a) < 0
<1>1. /\ slot_compare(a, b) \in {-1, 0, 1} /\ slot_compare(a, b) # 0
      /\ slot_compare(b, a) \in {-1, 0, 1}
  BY Comparisons
<1>2. slot_compare(b, a) < 0 <=> slot_compare(a, b) > 0
  BY DEF IsOrder
<1> QED
  BY <1>1, <1>2

LEMMA Transitivity ==
    ASSUME IsOrder, NEW a \in Slot, NEW b \in Slot, NEW c \in Slot,
           slot_compare(a, b) < 0, slot_compare(b, c) < 0
    PROVE  slot_compare(a, c) < 0
BY DEF IsOrder

\* A range of one slot is in order.
LEMMA ShortRange ==
    ASSUME NEW a, NEW from \in Nat, NEW to \in Nat, to <= from + 1
    PROVE  Ascending(a, from, to)
BY DEF Ascending

LEMMA NothingRearranged ==
    ASSUME NEW a \in Seq(Slot), NEW from \in Nat, NEW to \in Nat
    PROVE  Rearranged(a, a, from, to)
BY DEF Rearranged

\* What is rearranged in a part of a range is rearranged in the range.
LEMMA RearrangedPart ==
    ASSUME NEW a, NEW b, NEW from \in Nat, NEW to \in Nat, NEW lo \in Nat, NEW hi \in Nat,
           Rearranged(a, b, lo, hi), from <= lo, lo <= hi, hi <= to, to <= Len(a)
    PROVE  Rearranged(a, b, from, to)
<1>1. a \in Seq(Slot) /\ b \in Seq(Slot) /\ Len(b) = Len(a)
  BY DEF Rearranged
<1>2. \A p \in 1 .. Len(a) : p <= lo \/ p > hi => b[p] = a[p]
  BY DEF Rearranged
<1>3. \A p \in lo + 1 .. hi : \E q \in lo + 1 .. hi : b[p] = a[q]
  BY DEF Rearranged
<1>4. \A q \in lo + 1 .. hi : \E p \in lo + 1 .. hi : b[p] = a[q]
  BY DEF Rearranged
<1>5. \A p \in 1 .. Len(a) : p <= from \/ p > to => b[p] = a[p]
  BY <1>2
<1>6. Len(a) \in Nat
  BY <1>1
<1>7. ASSUME NEW p \in from + 1 .. to
      PROVE  /\ \E q \in from + 1 .. to : b[p] = a[q]
             /\ \E q \in from + 1 .. to : b[q] = a[p]
  <2>1. CASE p \in lo + 1 .. hi
    <3>1. PICK q \in lo + 1 .. hi : b[p] = a[q]
      BY <1>3, <2>1
    <3>2. PICK r \in lo + 1 .. hi : b[r] = a[p]
      BY <1>4, <2>1
    <3>3. q \in from + 1 .. to /\ r \in from + 1 .. to
      OBVIOUS
    <3> QED
      BY <3>1, <3>2, <3>3
  <2>2. CASE p \notin lo + 1 .. hi
    <3>1. p \in 1 .. Len(a) /\ (p <= lo \/ p > hi)
      BY <1>6, <1>7, <2>2
    <3>2. b[p] = a[p]
      BY <1>2, <3>1
    <3> QED
      BY <3>2
  <2> QED
    BY <2>1, <2>2
<1> QED
  BY <1>1, <1>5, <1>7 DEF Rearranged

LEMMA RearrangedTwice ==
    ASSUME NEW a, NEW b, NEW c, NEW from \in Nat, NEW to \in Nat,
           Rearranged(a, b, from, to), Rearranged(b, c, from, to)
    PROVE  Rearranged(a, c, from, to)
<1>1. /\ a \in Seq(Slot) /\ b \in Seq(Slot) /\ c \in Seq(Slot)
      /\ Len(b) = Len(a) /\ Len(c) = Len(a)
  BY DEF Rearranged
<1>2. \A p \in 1 .. Len(a) : p <= from \/ p > to => c[p] = a[p]
  BY <1>1 DEF Rearranged
<1>3. ASSUME NEW p \in from + 1 .. to
      PROVE  \E q \in from + 1 .. to : c[p] = a[q]
  <2>1. PICK r \in from + 1 .. to : c[p] = b[r]
    BY DEF Rearranged
  <2>2. PICK q \in from + 1 .. to : b[r] = a[q]
    BY DEF Rearranged
  <2> QED
    BY <2>1, <2>2
<1>4. ASSUME NEW q \in from + 1 .. to
      PROVE  \E p \in from + 1 .. to : c[p] = a[q]
  <2>1. PICK r \in from + 1 .. to : b[r] = a[q]
    BY DEF Rearranged
  <2>2. PICK p \in from + 1 .. to : c[p] = b[r]
    BY DEF Rearranged
  <2> QED
    BY <2>1, <2>2
<1> QED
  BY <1>1, <1>2, <1>3, <1>4 DEF Rearranged

-----------------------------------------------------------------------------
(* Insertion sort                                                          *)

\* gap is the place behind the last slot that is not larger.
LEMMA GapPlace ==
    ASSUME outcome \in Outcomes, NEW a \in Seq(Slot), NEW from \in Nat, NEW i \in Nat,
           from < i, i <= Len(a)
    PROVE  /\ gap(a, from, i) \in from .. i - 1
           /\ gap(a, from, i) = from \/ slot_compare(a[gap(a, from, i)], a[i]) <= 0
           /\ \A j \in gap(a, from, i) + 1 .. i - 1 : ~ (slot_compare(a[j], a[i]) <= 0)
<1> DEFINE stops == {from} \cup {j \in from + 1 .. i - 1 : slot_compare(a[j], a[i]) <= 0}
           T == {i - j : j \in stops}
<1>1. stops \subseteq from .. i - 1 /\ from \in stops
  OBVIOUS
<1>2. gap(a, from, i) = CHOOSE j \in stops : \A k \in stops : k <= j
  BY DEF gap
<1>3. \A j \in from + 1 .. i - 1 : slot_compare(a[j], a[i]) <= 0 => j \in stops
  OBVIOUS
<1>4. \A j \in stops : j = from \/ slot_compare(a[j], a[i]) <= 0
  OBVIOUS
<1> HIDE DEF stops
<1>5. \E j \in stops : \A k \in stops : k <= j
  <2>1. T \in SUBSET Nat /\ T # {}
    BY <1>1
  <2>2. PICK least \in T : \A other \in T : least <= other
    <3> HIDE DEF T
    <3> QED
      BY <2>1, Least
  <2>3. PICK j \in stops : least = i - j
    OBVIOUS
  <2>4. ASSUME NEW k \in stops
        PROVE  k <= j
    <3>1. i - k \in T
      OBVIOUS
    <3>2. i - j <= i - k
      BY <2>2, <2>3, <3>1
    <3> QED
      BY <1>1, <2>3, <3>2
  <2> QED
    BY <2>3, <2>4
<1>6. /\ gap(a, from, i) \in stops
      /\ \A k \in stops : k <= gap(a, from, i)
  BY <1>2, <1>5
<1> DEFINE g == gap(a, from, i)
<1> HIDE DEF g
<1>7. g \in stops /\ \A k \in stops : k <= g
  BY <1>6 DEF g
<1>8. g \in from .. i - 1
  BY <1>1, <1>7
<1>9. ASSUME NEW j \in g + 1 .. i - 1
      PROVE  ~ (slot_compare(a[j], a[i]) <= 0)
  <2>1. j \in from + 1 .. i - 1 /\ ~ (j <= g)
    BY <1>8
  <2> QED
    BY <1>3, <1>7, <2>1
<1> QED
  BY <1>4, <1>7, <1>8, <1>9 DEF g

LEMMA Concatenation ==
    ASSUME NEW V, NEW a \in Seq(V), NEW b \in Seq(V)
    PROVE  /\ a \o b \in Seq(V) /\ Len(a \o b) = Len(a) + Len(b)
           /\ \A p \in 1 .. Len(a) + Len(b) :
                 (a \o b)[p] = IF p <= Len(a) THEN a[p] ELSE b[p - Len(a)]
OBVIOUS

LEMMA Cut ==
    ASSUME NEW V, NEW a \in Seq(V), NEW from \in Nat, NEW to \in Nat, from <= to, to <= Len(a)
    PROVE  /\ SubSeq(a, from + 1, to) \in Seq(V) /\ Len(SubSeq(a, from + 1, to)) = to - from
           /\ \A p \in 1 .. to - from : SubSeq(a, from + 1, to)[p] = a[from + p]
OBVIOUS

\* inserted moves one slot to the gap.
LEMMA InsertedAt ==
    ASSUME NEW a \in Seq(Slot), NEW from, NEW i \in Nat, NEW g \in Nat,
           g = gap(a, from, i), g < i, i <= Len(a)
    PROVE  /\ inserted(a, from, i) \in Seq(Slot) /\ Len(inserted(a, from, i)) = Len(a)
           /\ \A p \in 1 .. Len(a) : inserted(a, from, i)[p] =
                 IF p <= g THEN a[p] ELSE IF p = g + 1 THEN a[i]
                 ELSE IF p <= i THEN a[p - 1] ELSE a[p]
<1> DEFINE n  == Len(a)
           h  == i - 1
           b1 == SubSeq(a, 1, g)
           b2 == SubSeq(a, g + 1, h)
           b3 == SubSeq(a, i + 1, n)
           v  == <<a[i]>>
<1>1. n \in Nat /\ h \in Nat /\ g <= h /\ i = h + 1 /\ i \in 1 .. n /\ g <= n /\ h <= n
  OBVIOUS
<1>2. v \in Seq(Slot) /\ Len(v) = 1 /\ v[1] = a[i]
  OBVIOUS
<1> HIDE DEF h, n, v
<1>3. b1 \in Seq(Slot) /\ Len(b1) = g /\ \A p \in 1 .. g : b1[p] = a[p]
  BY <1>1 DEF n
<1>4. b2 \in Seq(Slot) /\ Len(b2) = h - g /\ \A p \in 1 .. h - g : b2[p] = a[g + p]
  BY <1>1, Cut DEF n
<1>5. b3 \in Seq(Slot) /\ Len(b3) = n - i /\ \A p \in 1 .. n - i : b3[p] = a[i + p]
  BY <1>1, Cut DEF n
<1>6. inserted(a, from, i) = ((b1 \o v) \o b2) \o b3
  <2>1. inserted(a, from, i) = b1 \o v \o b2 \o b3
    BY DEF inserted, h, n, v
  <2> QED
    BY <2>1
<1> HIDE DEF b1, b2, b3
<1>7. /\ b1 \o v \in Seq(Slot) /\ Len(b1 \o v) = g + 1
      /\ \A p \in 1 .. g + 1 : (b1 \o v)[p] = IF p <= g THEN a[p] ELSE a[i]
  <2>1. /\ b1 \o v \in Seq(Slot) /\ Len(b1 \o v) = Len(b1) + Len(v)
        /\ \A p \in 1 .. Len(b1) + Len(v) :
              (b1 \o v)[p] = IF p <= Len(b1) THEN b1[p] ELSE v[p - Len(b1)]
    BY <1>2, <1>3, Concatenation
  <2> QED
    BY <1>2, <1>3, <2>1
<1> DEFINE c == b1 \o v
<1> HIDE DEF c
<1>8. /\ c \o b2 \in Seq(Slot) /\ Len(c \o b2) = i
      /\ \A p \in 1 .. i : (c \o b2)[p] =
            IF p <= g THEN a[p] ELSE IF p = g + 1 THEN a[i] ELSE a[p - 1]
  <2>1. c \in Seq(Slot) /\ Len(c) = g + 1
        /\ \A p \in 1 .. g + 1 : c[p] = IF p <= g THEN a[p] ELSE a[i]
    BY <1>7 DEF c
  <2>2. /\ c \o b2 \in Seq(Slot) /\ Len(c \o b2) = Len(c) + Len(b2)
        /\ \A p \in 1 .. Len(c) + Len(b2) :
              (c \o b2)[p] = IF p <= Len(c) THEN c[p] ELSE b2[p - Len(c)]
    BY <1>4, <2>1, Concatenation
  <2>3. Len(c) + Len(b2) = i
    BY <1>1, <1>4, <2>1
  <2>4. ASSUME NEW p \in 1 .. i, ~ (p <= g + 1)
        PROVE  b2[p - (g + 1)] = a[p - 1]
    <3>1. p - (g + 1) \in 1 .. h - g /\ g + (p - (g + 1)) = p - 1
      BY <1>1, <2>4
    <3> QED
      BY <1>4, <3>1
  <2>5. ASSUME NEW p \in 1 .. i
        PROVE  (c \o b2)[p] = IF p <= g THEN a[p] ELSE IF p = g + 1 THEN a[i] ELSE a[p - 1]
    <3>1. (c \o b2)[p] = IF p <= g + 1 THEN c[p] ELSE b2[p - (g + 1)]
      BY <2>1, <2>2, <2>3
    <3>2. CASE p <= g + 1
      <4>1. p \in 1 .. g + 1
        BY <3>2
      <4> QED
        BY <2>1, <3>1, <3>2, <4>1
    <3>3. CASE ~ (p <= g + 1)
      BY <2>4, <3>1, <3>3
    <3> QED
      BY <3>2, <3>3
  <2> QED
    BY <2>2, <2>3, <2>5
<1> DEFINE d == c \o b2
<1> HIDE DEF d
<1>9. d \in Seq(Slot) /\ Len(d) = i
      /\ \A p \in 1 .. i : d[p] = IF p <= g THEN a[p] ELSE IF p = g + 1 THEN a[i] ELSE a[p - 1]
  BY <1>8 DEF d
<1>10. /\ d \o b3 \in Seq(Slot) /\ Len(d \o b3) = Len(d) + Len(b3)
       /\ \A p \in 1 .. Len(d) + Len(b3) :
             (d \o b3)[p] = IF p <= Len(d) THEN d[p] ELSE b3[p - Len(d)]
  BY <1>5, <1>9, Concatenation
<1>11. Len(d) + Len(b3) = n
  BY <1>1, <1>5, <1>9
<1>12. ASSUME NEW p \in 1 .. n, ~ (p <= i)
       PROVE  b3[p - i] = a[p]
  <2>1. p - i \in 1 .. n - i /\ i + (p - i) = p
    BY <1>1, <1>12
  <2> QED
    BY <1>5, <2>1
<1>13. ASSUME NEW p \in 1 .. n
       PROVE  (d \o b3)[p] = IF p <= g THEN a[p] ELSE IF p = g + 1 THEN a[i]
                             ELSE IF p <= i THEN a[p - 1] ELSE a[p]
  BY <1>1, <1>9, <1>10, <1>11, <1>12
<1>14. inserted(a, from, i) = d \o b3
  BY <1>6 DEF c, d
<1> QED
  BY <1>10, <1>11, <1>13, <1>14 DEF n

\* One insertion rearranges, loses nothing, and makes the sorted part longer.
LEMMA InsertedSorts ==
    ASSUME outcome \in Outcomes, NEW a \in Seq(Slot), NEW from \in Nat, NEW i \in Nat,
           from < i, i <= Len(a), Distinct(a), IsOrder => Ascending(a, from, i - 1)
    PROVE  SortedRange(a, inserted(a, from, i), from, i)
<1> DEFINE g == gap(a, from, i)
           h == i - 1
           n == Len(a)
           b == inserted(a, from, i)
<1>1. /\ g \in from .. h /\ h \in Nat /\ n \in Nat /\ i = h + 1 /\ h < n
      /\ g = from \/ slot_compare(a[g], a[i]) <= 0
      /\ \A j \in g + 1 .. h : ~ (slot_compare(a[j], a[i]) <= 0)
  BY GapPlace
<1>2. /\ b \in Seq(Slot) /\ Len(b) = n
      /\ \A p \in 1 .. n : b[p] =
            IF p <= g THEN a[p] ELSE IF p = g + 1 THEN a[i] ELSE IF p <= i THEN a[p - 1] ELSE a[p]
  <2>1. g \in Nat /\ g < i
    BY <1>1
  <2> QED
    BY <2>1, InsertedAt
<1>3. \A p, q \in 1 .. n : p # q => a[p] # a[q]
  BY DEF Distinct
<1>4. \A p \in 1 .. n : a[p] \in Slot
  OBVIOUS
<1>5. IsOrder => \A p, q \in from + 1 .. h : p < q => slot_compare(a[p], a[q]) < 0
  BY DEF Ascending
<1> HIDE DEF g, b, h, n
\* Where the slot at p comes from.
<1> DEFINE src(p) == IF p <= g THEN p ELSE IF p = g + 1 THEN i ELSE IF p <= i THEN p - 1 ELSE p
<1>6. ASSUME NEW p \in 1 .. n
      PROVE  src(p) \in 1 .. n /\ b[p] = a[src(p)]
  BY <1>1, <1>2
<1>7. \A p, q \in 1 .. n : p # q => src(p) # src(q)
  BY <1>1
<1>8. \A p \in 1 .. n : p <= from \/ p > i => src(p) = p
  BY <1>1
<1>9. \A p \in from + 1 .. i : p \in 1 .. n /\ src(p) \in from + 1 .. i
  BY <1>1
<1>10. \A q \in from + 1 .. i : \E p \in from + 1 .. i : src(p) = q
  <2> TAKE q \in from + 1 .. i
  <2>1. CASE q <= g
    <3>1. src(q) = q
      BY <2>1
    <3> QED
      BY <3>1
  <2>2. CASE q = i
    <3>1. g + 1 \in from + 1 .. i /\ src(g + 1) = q
      BY <1>1, <2>2
    <3> QED
      BY <3>1
  <2>3. CASE ~ (q <= g) /\ q # i
    <3>1. q + 1 \in from + 1 .. i /\ src(q + 1) = q
      BY <1>1, <2>3
    <3> QED
      BY <3>1
  <2> QED
    BY <2>1, <2>2, <2>3
<1>11. Distinct(b)
  <2> SUFFICES ASSUME NEW p \in 1 .. n, NEW q \in 1 .. n, p # q
               PROVE  b[p] # b[q]
    BY <1>2 DEF Distinct
  <2>1. src(p) # src(q)
    BY <1>7
  <2> HIDE DEF src
  <2> QED
    BY <1>3, <1>6, <2>1
<1>12. Rearranged(a, b, from, i)
  <2> HIDE DEF src
  <2>1. \A p \in 1 .. n : p <= from \/ p > i => b[p] = a[p]
    BY <1>6, <1>8
  <2>2. \A p \in from + 1 .. i : \E q \in from + 1 .. i : b[p] = a[q]
    BY <1>6, <1>9
  <2>3. \A q \in from + 1 .. i : \E p \in from + 1 .. i : b[p] = a[q]
    BY <1>6, <1>9, <1>10
  <2> QED
    BY <1>2, <2>1, <2>2, <2>3 DEF Rearranged, n
<1>13. ASSUME IsOrder
       PROVE  Ascending(b, from, i)
  <2> SUFFICES ASSUME NEW p \in from + 1 .. i, NEW q \in from + 1 .. i, p < q
               PROVE  slot_compare(b[p], b[q]) < 0
    BY DEF Ascending
  <2>1. p \in 1 .. n /\ q \in 1 .. n /\ i \in 1 .. n
    BY <1>1
  <2>2. \A s, t \in from + 1 .. h : s < t => slot_compare(a[s], a[t]) < 0
    BY <1>5, <1>13
  <2>3. CASE q = g + 1
    <3>1. b[q] = a[i] /\ b[p] = a[p] /\ p \in from + 1 .. h /\ p <= g /\ g # from
      BY <1>1, <1>2, <2>1, <2>3
    <3>2. g \in 1 .. n /\ g # i
      BY <1>1, <3>1
    <3>3. slot_compare(a[g], a[i]) < 0
      BY <1>1, <1>3, <1>4, <1>13, <2>1, <3>1, <3>2, Totality
    <3>4. CASE p = g
      BY <3>1, <3>3, <3>4
    <3>5. CASE p # g
      <4>1. slot_compare(a[p], a[g]) < 0
        <5>1. g \in from + 1 .. h /\ p < g
          BY <1>1, <3>1, <3>5
        <5> QED
          BY <2>2, <3>1, <5>1
      <4>2. a[p] \in Slot /\ a[g] \in Slot /\ a[i] \in Slot
        BY <1>4, <2>1, <3>2
      <4>3. slot_compare(a[p], a[i]) < 0
        BY <1>13, <3>3, <4>1, <4>2, Transitivity
      <4> QED
        BY <3>1, <4>3
    <3> QED
      BY <3>4, <3>5
  <2>4. CASE p = g + 1
    <3>1. q - 1 \in g + 1 .. h /\ q - 1 \in 1 .. n /\ q - 1 # i
      BY <1>1, <2>4
    <3>2. b[p] = a[i] /\ b[q] = a[q - 1]
      BY <1>1, <1>2, <2>1, <2>4
    <3>3. ~ (slot_compare(a[q - 1], a[i]) <= 0) /\ a[q - 1] # a[i]
      BY <1>1, <1>3, <2>1, <3>1
    <3>4. slot_compare(a[i], a[q - 1]) < 0
      <4>1. a[q - 1] \in Slot /\ a[i] \in Slot
        BY <1>4, <2>1, <3>1
      <4> QED
        BY <1>13, <3>3, <4>1, Totality
    <3> QED
      BY <3>2, <3>4
  <2>5. CASE p # g + 1 /\ q # g + 1
    <3>1. /\ src(p) \in from + 1 .. h /\ src(q) \in from + 1 .. h
          /\ src(p) < src(q)
      BY <1>1, <2>5
    <3>2. b[p] = a[src(p)] /\ b[q] = a[src(q)]
      BY <1>6, <2>1
    <3> HIDE DEF src
    <3> QED
      BY <2>2, <3>1, <3>2
  <2> QED
    BY <2>3, <2>4, <2>5
<1>14. SortedRange(a, b, from, i)
  BY <1>11, <1>12, <1>13 DEF SortedRange
<1> QED
  BY <1>14 DEF b

\* The rounds of insertion_sort.
InsertionRounds(f, a, from, n) ==
    /\ f \in [0 .. n -> Seq(Slot)]
    /\ \A m \in 0 .. n : f[m] = IF m <= 1 THEN a ELSE inserted(f[m - 1], from, from + m)
    /\ \A m \in 0 .. n : Len(f[m]) = Len(a)

LEMMA InsertionByRounds ==
    ASSUME outcome \in Outcomes, NEW w \in Works, NEW from \in Nat, NEW to \in Nat,
           from <= to, to <= Len(w.a)
    PROVE  \E f : /\ InsertionRounds(f, w.a, from, to - from)
                  /\ insertion_sort(w, from, to) = [w EXCEPT !.a = f[to - from]]
<1> DEFINE a == w.a
           n == to - from
           V == {b \in Seq(Slot) : Len(b) = Len(a)}
           step(m, b) == IF m <= 1 THEN a ELSE inserted(b, from, from + m)
           Body(f) == [m \in 0 .. n |->
                          IF m <= 1 THEN a ELSE inserted(f[m - 1], from, from + m)]
           after[m \in 0 .. n] ==
               IF m <= 1 THEN a ELSE inserted(after[m - 1], from, from + m)
           G == [m \in 1 .. n |-> [b \in V |-> step(m, b)]]
<1>1. a \in V /\ n \in Nat
  BY DEF Works
<1>2. ASSUME NEW m \in 1 .. n, NEW b \in V
      PROVE  step(m, b) \in V
  <2>1. CASE m <= 1
    BY <1>1, <2>1
  <2>2. CASE ~ (m <= 1)
    <3>1. from + m \in Nat /\ from < from + m /\ from + m <= Len(b) /\ b \in Seq(Slot)
      OBVIOUS
    <3>2. gap(b, from, from + m) \in Nat /\ gap(b, from, from + m) < from + m
      <4>1. gap(b, from, from + m) \in from .. from + m - 1
        BY <3>1, GapPlace
      <4> QED
        BY <4>1
    <3>3. /\ inserted(b, from, from + m) \in Seq(Slot)
          /\ Len(inserted(b, from, from + m)) = Len(b)
      BY <3>1, <3>2, InsertedAt
    <3> QED
      BY <2>2, <3>3
  <2> QED
    BY <2>1, <2>2
<1>3. /\ insertion_sort(w, from, to) = [w EXCEPT !.a = after[n]]
      /\ after = CHOOSE f : f = Body(f)
  BY DEF insertion_sort
<1>4. G \in [1 .. n -> [V -> V]] /\ \A m \in 1 .. n, b \in V : G[m][b] = step(m, b)
  <2> HIDE DEF step, V, n
  <2> QED
    BY <1>2
<1> HIDE DEF after, V, G
<1>5. PICK g : Iterates(g, n, V, a, G)
  <2> HIDE DEF a, n
  <2> QED
    BY <1>1, <1>4, Recursion
<1>6. /\ g \in [0 .. n -> V] /\ g[0] = a
      /\ \A m \in 1 .. n : g[m] = step(m, g[m - 1])
  <2>1. g \in [0 .. n -> V] /\ g[0] = a /\ \A m \in 1 .. n : g[m] = G[m][g[m - 1]]
    BY <1>5 DEF Iterates
  <2>2. ASSUME NEW m \in 1 .. n
        PROVE  g[m] = step(m, g[m - 1])
    <3>1. m - 1 \in 0 .. n
      BY <1>1
    <3>2. g[m - 1] \in V
      BY <2>1, <3>1
    <3> HIDE DEF step
    <3> QED
      BY <1>4, <2>1, <3>2
  <2> QED
    BY <2>1, <2>2
<1>7. \A m \in 0 .. n : g[m] = IF m <= 1 THEN a ELSE inserted(g[m - 1], from, from + m)
  BY <1>1, <1>6
<1>8. after = Body(after)
  <2>1. g = Body(g)
    <3>1. g = [m \in 0 .. n |-> g[m]]
      BY <1>6
    <3> QED
      BY <1>7, <3>1
  <2> HIDE DEF Body
  <2> QED
    BY <1>3, <2>1
<1>9. \A m \in 0 .. n : after[m] = IF m <= 1 THEN a ELSE inserted(after[m - 1], from, from + m)
  BY <1>8
<1>10. \A m \in 0 .. n : after[m] \in V
  <2>1. after[0] \in V
    BY <1>1, <1>9
  <2>2. \A m \in 1 .. n : after[m - 1] \in V => after[m] \in V
    BY <1>2, <1>9
  <2> HIDE DEF n
  <2> QED
    BY <1>1, <2>1, <2>2, Throughout
<1>11. after = [m \in 0 .. n |-> after[m]]
  BY <1>8
<1>12. InsertionRounds(after, a, from, n)
  <2>1. \A m \in 0 .. n : after[m] \in Seq(Slot) /\ Len(after[m]) = Len(a)
    BY <1>10 DEF V
  <2>2. after \in [0 .. n -> Seq(Slot)]
    BY <1>11, <2>1
  <2> QED
    BY <1>9, <2>1, <2>2 DEF InsertionRounds
<1> QED
  BY <1>3, <1>12

\* insertion_sort sorts any range.
LEMMA InsertionSorts ==
    ASSUME outcome \in Outcomes, NEW w \in Works, NEW from \in Nat, NEW to \in Nat,
           from <= to, to <= Len(w.a), NEW r, r = insertion_sort(w, from, to)
    PROVE  /\ r \in Works /\ r.room = w.room /\ r.over = w.over /\ Len(r.a) = Len(w.a)
           /\ Distinct(w.a) => SortedRange(w.a, r.a, from, to)
<1> DEFINE a == w.a
           n == to - from
<1>1. PICK f : InsertionRounds(f, a, from, n) /\ r = [w EXCEPT !.a = f[n]]
  BY InsertionByRounds
<1>2. n \in Nat /\ a \in Seq(Slot) /\ w.room \in Nat /\ w.over \in BOOLEAN
  BY DEF Works
<1>3. f[n] \in Seq(Slot) /\ Len(f[n]) = Len(a)
  BY <1>1, <1>2 DEF InsertionRounds
<1>4. r \in Works /\ r.room = w.room /\ r.over = w.over /\ r.a = f[n]
  BY <1>1, <1>3 DEF Works
<1>5. ASSUME Distinct(a)
      PROVE  SortedRange(a, f[n], from, to)
  <2> DEFINE S == {m \in 0 .. n : SortedRange(a, f[m], from, from + m)}
  <2>1. ASSUME NEW m \in 0 .. n, m <= 1
        PROVE  m \in S
    <3>1. f[m] = a
      BY <1>1, <2>1 DEF InsertionRounds
    <3>2. Ascending(a, from, from + m)
      BY <2>1, ShortRange
    <3>3. Rearranged(a, a, from, from + m)
      BY <1>2, NothingRearranged
    <3>4. SortedRange(a, a, from, from + m)
      BY <1>5, <3>2, <3>3 DEF SortedRange
    <3> QED
      BY <3>1, <3>4
  <2>2. ASSUME NEW m \in 1 .. n, m - 1 \in S
        PROVE  m \in S
    <3>1. CASE m <= 1
      BY <2>1, <3>1
    <3>2. CASE ~ (m <= 1)
      <4> DEFINE b == f[m - 1]
                 i == from + m
                 h == i - 1
      <4>1. f[m] = inserted(b, from, i) /\ b \in Seq(Slot) /\ Len(b) = Len(a)
        BY <1>1, <3>2 DEF InsertionRounds
      <4>2. SortedRange(a, b, from, h)
        <5>1. SortedRange(a, f[m - 1], from, from + (m - 1)) /\ from + (m - 1) = h
          BY <2>2
        <5> QED
          BY <5>1
      <4>3. i \in Nat /\ from < i /\ i <= Len(b) /\ h \in Nat /\ h <= i /\ from <= h /\ i <= Len(a)
        BY <1>2, <4>1
      <4>4. Distinct(b) /\ (IsOrder => Ascending(b, from, i - 1)) /\ Rearranged(a, b, from, h)
        BY <4>2 DEF SortedRange
      <4> HIDE DEF b, i, h
      <4>5. SortedRange(b, f[m], from, i)
        BY <4>1, <4>3, <4>4, InsertedSorts
      <4>6. Rearranged(a, b, from, i)
        BY <4>3, <4>4, RearrangedPart
      <4>7. Rearranged(a, f[m], from, i)
        BY <4>3, <4>5, <4>6, RearrangedTwice DEF SortedRange
      <4>8. SortedRange(a, f[m], from, i)
        BY <4>5, <4>7 DEF SortedRange
      <4> QED
        BY <4>8 DEF i
    <3> QED
      BY <3>1, <3>2
  <2>3. 0 \in S
    BY <1>2, <2>1
  <2>4. n \in S
    <3> HIDE DEF S, n
    <3>1. 0 .. n \subseteq S
      BY <1>2, <2>2, <2>3, SetInduction
    <3> QED
      BY <1>2, <3>1
  <2> QED
    BY <2>4
<1> QED
  BY <1>3, <1>4, <1>5

-----------------------------------------------------------------------------
(* The merge                                                               *)

\* What the loops of merge work on: the array, and how far both halves are used up.
Merging(a, from, mid, to) ==
    {m \in [a : Seq(Slot), i : 0 .. mid - from, j : mid .. to] : Len(m.a) = Len(a)}

MergeState(b, i, j) == [a |-> b, i |-> i, j |-> j]

\* Slot x is written at k, counted from 0.
Written(b, k, x) == [b EXCEPT ![k + 1] = x]

LEMMA MergeStates ==
    ASSUME NEW a \in Seq(Slot), NEW from \in Nat, NEW mid \in Nat, NEW to \in Nat,
           NEW b \in Seq(Slot), NEW i \in 0 .. mid - from, NEW j \in mid .. to, Len(b) = Len(a)
    PROVE  MergeState(b, i, j) \in Merging(a, from, mid, to)
BY DEF Merging, MergeState

LEMMA MergeParts ==
    ASSUME NEW a, NEW from, NEW mid, NEW to, NEW m \in Merging(a, from, mid, to)
    PROVE  /\ m.a \in Seq(Slot) /\ Len(m.a) = Len(a)
           /\ m.i \in 0 .. mid - from /\ m.j \in mid .. to
           /\ m = MergeState(m.a, m.i, m.j)
BY DEF Merging, MergeState

LEMMA MergeFields ==
    ASSUME NEW b, NEW i, NEW j
    PROVE  /\ MergeState(b, i, j).a = b
           /\ MergeState(b, i, j).i = i
           /\ MergeState(b, i, j).j = j
BY DEF MergeState

LEMMA WrittenAt ==
    ASSUME NEW b \in Seq(Slot), NEW k \in Nat, k < Len(b), NEW x \in Slot
    PROVE  /\ Written(b, k, x) \in Seq(Slot) /\ Len(Written(b, k, x)) = Len(b)
           /\ \A p \in 1 .. Len(b) : Written(b, k, x)[p] = IF p = k + 1 THEN x ELSE b[p]
<1>1. k + 1 \in 1 .. Len(b)
  OBVIOUS
<1> QED
  BY <1>1 DEF Written

\* The left half, as the buffer holds it.
LEMMA LeftHalf ==
    ASSUME NEW a \in Seq(Slot), NEW from \in Nat, NEW mid \in Nat, from < mid, mid <= Len(a)
    PROVE  /\ Len(SubSeq(a, from + 1, mid)) = mid - from
           /\ \A p \in 1 .. mid - from : SubSeq(a, from + 1, mid)[p] = a[from + p]
<1>1. from <= mid
  OBVIOUS
<1> QED
  BY <1>1, Cut

\* A round with half-way array b.
LEMMA RoundOf ==
    ASSUME NEW a \in Seq(Slot), NEW from \in Nat, NEW mid \in Nat, NEW to \in Nat,
           from < mid, mid < to, to <= Len(a),
           NEW b, NEW i \in 0 .. mid - from, NEW j \in mid .. to,
           NEW k, k = from + i + (j - mid),
           NEW x, x = merge_round(MergeState(b, i, j), SubSeq(a, from + 1, mid), to)
    PROVE  /\ i = mid - from => x = MergeState(b, i, j)
           /\ i # mid - from /\ j # to /\ ~ (slot_compare(a[from + i + 1], b[j + 1]) <= 0)
              => x = MergeState(Written(b, k, b[j + 1]), i, j + 1)
           /\ i # mid - from /\ (j = to \/ slot_compare(a[from + i + 1], b[j + 1]) <= 0)
              => x = MergeState(Written(b, k, a[from + i + 1]), i + 1, j)
<1> DEFINE tmp == SubSeq(a, from + 1, mid)
           l   == mid - from
           kk  == j - Len(tmp) + i
<1>1. Len(tmp) = l /\ \A p \in 1 .. l : tmp[p] = a[from + p]
  <2>1. mid <= Len(a)
    OBVIOUS
  <2> QED
    BY <2>1, LeftHalf, SMTT(30)
<1>2. l \in Nat /\ i \in Nat /\ i <= l /\ j - l + i = k /\ j <= to /\ j \in Nat
  OBVIOUS
<1>3. x = IF i = Len(tmp) THEN MergeState(b, i, j)
          ELSE IF j < to /\ ~ taken_left(tmp, b, i + 1, j + 1)
               THEN MergeState(Written(b, kk, b[j + 1]), i, j + 1)
               ELSE MergeState(Written(b, kk, tmp[i + 1]), i + 1, j)
  BY MergeFields DEF merge_round, MergeState, Written
<1>4. kk = k
  BY <1>1, <1>2
<1> HIDE DEF tmp, l, kk
<1>5. i # l => tmp[i + 1] = a[from + i + 1]
  <2> SUFFICES ASSUME i # l PROVE tmp[i + 1] = a[from + i + 1]
    OBVIOUS
  <2>1. i + 1 \in 1 .. l /\ from + (i + 1) = from + i + 1
    BY <1>2
  <2> QED
    BY <1>1, <2>1
<1>6. i # l => (taken_left(tmp, b, i + 1, j + 1) <=> slot_compare(a[from + i + 1], b[j + 1]) <= 0)
  BY <1>5 DEF taken_left
<1>7. j < to <=> j # to
  BY <1>2
<1> QED
  BY <1>1, <1>3, <1>4, <1>5, <1>6, <1>7 DEF l

\* Rounds stay in the range, and one more slot is in its place after each.
LEMMA RoundTypes ==
    ASSUME NEW a \in Seq(Slot), NEW from \in Nat, NEW mid \in Nat, NEW to \in Nat,
           from < mid, mid < to, to <= Len(a), NEW m \in Merging(a, from, mid, to),
           NEW x, x = merge_round(m, SubSeq(a, from + 1, mid), to)
    PROVE  /\ x \in Merging(a, from, mid, to)
           /\ m.i = mid - from => x = m
           /\ m.i # mid - from => x.i + (x.j - mid) = m.i + (m.j - mid) + 1
<1>1. PICK b \in Seq(Slot), i \in 0 .. mid - from, j \in mid .. to :
         m = MergeState(b, i, j) /\ Len(b) = Len(a)
  <2>1. /\ m.a \in Seq(Slot) /\ Len(m.a) = Len(a)
        /\ m.i \in 0 .. mid - from /\ m.j \in mid .. to
        /\ m = MergeState(m.a, m.i, m.j)
    BY MergeParts
  <2> QED
    BY <2>1, Zenon
<1>2. m.i = i /\ m.j = j
  BY <1>1, MergeFields
<1> DEFINE k == from + i + (j - mid)
           l == mid - from
<1>3. l \in Nat /\ i \in 0 .. l /\ k \in Nat /\ (i # l => k < Len(b))
  BY <1>1
<1>4. k = from + i + (j - mid)
  OBVIOUS
<1> HIDE DEF k
<1>5. /\ i = l => x = m
      /\ i # l /\ j # to /\ ~ (slot_compare(a[from + i + 1], b[j + 1]) <= 0)
         => x = MergeState(Written(b, k, b[j + 1]), i, j + 1)
      /\ i # l /\ (j = to \/ slot_compare(a[from + i + 1], b[j + 1]) <= 0)
         => x = MergeState(Written(b, k, a[from + i + 1]), i + 1, j)
  <2>1. x = merge_round(MergeState(b, i, j), SubSeq(a, from + 1, mid), to)
    BY <1>1
  <2>2. /\ i = mid - from => x = MergeState(b, i, j)
        /\ i # mid - from /\ j # to /\ ~ (slot_compare(a[from + i + 1], b[j + 1]) <= 0)
           => x = MergeState(Written(b, k, b[j + 1]), i, j + 1)
        /\ i # mid - from /\ (j = to \/ slot_compare(a[from + i + 1], b[j + 1]) <= 0)
           => x = MergeState(Written(b, k, a[from + i + 1]), i + 1, j)
    BY <1>4, <2>1, RoundOf
  <2> QED
    BY <1>1, <2>2
<1>6. CASE i = l
  BY <1>2, <1>5, <1>6
<1>7. CASE i # l
  <2>1. CASE j # to /\ ~ (slot_compare(a[from + i + 1], b[j + 1]) <= 0)
    <3> DEFINE c == Written(b, k, b[j + 1])
    <3>1. x = MergeState(c, i, j + 1)
      BY <1>5, <1>7, <2>1
    <3>2. b[j + 1] \in Slot /\ j + 1 \in mid .. to
      <4>1. j + 1 \in 1 .. Len(b) /\ j + 1 \in mid .. to
        BY <1>1, <2>1
      <4> QED
        BY <4>1
    <3>3. c \in Seq(Slot) /\ Len(c) = Len(a)
      BY <1>1, <1>3, <1>7, <3>2, WrittenAt
    <3> HIDE DEF c
    <3>4. x \in Merging(a, from, mid, to)
      BY <3>1, <3>2, <3>3, MergeStates
    <3>6. x.i = i /\ x.j = j + 1
      BY <3>1, MergeFields
    <3>5. i + (j + 1 - mid) = i + (j - mid) + 1
      OBVIOUS
    <3> QED
      BY <1>2, <1>7, <3>4, <3>5, <3>6
  <2>2. CASE j = to \/ slot_compare(a[from + i + 1], b[j + 1]) <= 0
    <3> DEFINE c == Written(b, k, a[from + i + 1])
    <3>1. x = MergeState(c, i + 1, j)
      BY <1>5, <1>7, <2>2
    <3>2. a[from + i + 1] \in Slot /\ i + 1 \in 0 .. mid - from
      <4>1. from + i + 1 \in 1 .. Len(a) /\ i + 1 \in 0 .. mid - from
        BY <1>7
      <4> QED
        BY <4>1
    <3>3. c \in Seq(Slot) /\ Len(c) = Len(a)
      BY <1>1, <1>3, <1>7, <3>2, WrittenAt
    <3> HIDE DEF c
    <3>4. x \in Merging(a, from, mid, to)
      BY <3>1, <3>2, <3>3, MergeStates
    <3>6. x.i = i + 1 /\ x.j = j
      BY <3>1, MergeFields
    <3>5. i + 1 + (j - mid) = i + (j - mid) + 1
      OBVIOUS
    <3> QED
      BY <1>2, <1>7, <3>4, <3>5, <3>6
  <2> QED
    BY <2>1, <2>2
<1> QED
  BY <1>6, <1>7

\* The slots of b at [from, k) are those a has at the places U, each once.
Holds(b, from, k, a, U) ==
    /\ \A p \in from + 1 .. k : \E q \in U : b[p] = a[q]
    /\ \A q \in U : \E p \in from + 1 .. k : b[p] = a[q]
    /\ \A p, q \in from + 1 .. k : p # q => b[p] # b[q]

\* The slots of b at [from, k) all come before x.
Below(b, from, k, x) == \A p \in from + 1 .. k : slot_compare(b[p], x) < 0

LEMMA HoldsOneMore ==
    ASSUME NEW a \in Seq(Slot), Distinct(a), NEW b \in Seq(Slot), NEW from \in Nat, NEW k \in Nat,
           from <= k, k < Len(b), NEW U \in SUBSET (1 .. Len(a)), NEW q \in 1 .. Len(a), q \notin U,
           Holds(b, from, k, a, U)
    PROVE  Holds(Written(b, k, a[q]), from, k + 1, a, U \cup {q})
<1> DEFINE c == Written(b, k, a[q])
<1>1. a[q] \in Slot
  OBVIOUS
<1>2. \A p \in 1 .. Len(b) : c[p] = IF p = k + 1 THEN a[q] ELSE b[p]
  BY <1>1, WrittenAt
<1>3. c[k + 1] = a[q] /\ \A p \in from + 1 .. k : c[p] = b[p] /\ p # k + 1
  BY <1>2
<1>4. \A p \in from + 1 .. k + 1 : p = k + 1 \/ p \in from + 1 .. k
  OBVIOUS
<1>5. \A u \in U : a[u] # a[q]
  BY DEF Distinct
<1> HIDE DEF c
<1>6. ASSUME NEW p \in from + 1 .. k + 1
      PROVE  \E u \in U \cup {q} : c[p] = a[u]
  BY <1>3, <1>4 DEF Holds
<1>7. ASSUME NEW u \in U \cup {q}
      PROVE  \E p \in from + 1 .. k + 1 : c[p] = a[u]
  <2>1. CASE u = q
    <3>1. k + 1 \in from + 1 .. k + 1
      OBVIOUS
    <3> QED
      BY <1>3, <2>1, <3>1
  <2>2. CASE u # q
    <3>1. PICK p \in from + 1 .. k : b[p] = a[u]
      BY <2>2 DEF Holds
    <3>2. p \in from + 1 .. k + 1
      OBVIOUS
    <3> QED
      BY <1>3, <3>1, <3>2
  <2> QED
    BY <2>1, <2>2
<1>8. ASSUME NEW p \in from + 1 .. k
      PROVE  c[p] # a[q]
  <2>1. PICK u \in U : b[p] = a[u]
    BY DEF Holds
  <2> QED
    BY <1>3, <1>5, <2>1
<1>9. \A p, r \in from + 1 .. k : p # r => c[p] # c[r]
  BY <1>3 DEF Holds
<1>10. \A p, r \in from + 1 .. k + 1 : p # r => c[p] # c[r]
  BY <1>3, <1>4, <1>8, <1>9
<1>11. Holds(c, from, k + 1, a, U \cup {q})
  BY <1>6, <1>7, <1>10 DEF Holds
<1> QED
  BY <1>11 DEF c

LEMMA AscendsOneMore ==
    ASSUME NEW b \in Seq(Slot), NEW from \in Nat, NEW k \in Nat,
           from <= k, k < Len(b), NEW x \in Slot, Ascending(b, from, k), Below(b, from, k, x)
    PROVE  Ascending(Written(b, k, x), from, k + 1)
<1> DEFINE c == Written(b, k, x)
<1>1. \A p \in 1 .. Len(b) : c[p] = IF p = k + 1 THEN x ELSE b[p]
  BY WrittenAt
<1>2. c[k + 1] = x /\ \A p \in from + 1 .. k : c[p] = b[p]
  BY <1>1
<1> HIDE DEF c
<1>3. ASSUME NEW p \in from + 1 .. k + 1, NEW q \in from + 1 .. k + 1, p < q
      PROVE  slot_compare(c[p], c[q]) < 0
  <2>1. p \in from + 1 .. k
    BY <1>3
  <2>2. q = k + 1 \/ q \in from + 1 .. k
    OBVIOUS
  <2> QED
    BY <1>2, <1>3, <2>1, <2>2 DEF Ascending, Below
<1>4. Ascending(c, from, k + 1)
  BY <1>3 DEF Ascending
<1> QED
  BY <1>4 DEF c

LEMMA BelowOneMore ==
    ASSUME NEW b \in Seq(Slot), NEW from \in Nat, NEW k \in Nat,
           from <= k, k < Len(b), NEW x \in Slot, NEW y, Below(b, from, k, y), slot_compare(x, y) < 0
    PROVE  Below(Written(b, k, x), from, k + 1, y)
<1> DEFINE c == Written(b, k, x)
<1>1. \A p \in 1 .. Len(b) : c[p] = IF p = k + 1 THEN x ELSE b[p]
  BY WrittenAt
<1>2. c[k + 1] = x /\ \A p \in from + 1 .. k : c[p] = b[p]
  BY <1>1
<1> HIDE DEF c
<1>3. ASSUME NEW p \in from + 1 .. k + 1
      PROVE  slot_compare(c[p], y) < 0
  <2>1. p = k + 1 \/ p \in from + 1 .. k
    OBVIOUS
  <2> QED
    BY <1>2, <2>1 DEF Below
<1>4. Below(c, from, k + 1, y)
  BY <1>3 DEF Below
<1> QED
  BY <1>4 DEF c

LEMMA BelowLarger ==
    ASSUME IsOrder, NEW b \in Seq(Slot), NEW from \in Nat, NEW k \in Nat, k <= Len(b),
           NEW x \in Slot, NEW y \in Slot, Below(b, from, k, x), slot_compare(x, y) < 0
    PROVE  Below(b, from, k, y)
<1>1. ASSUME NEW p \in from + 1 .. k
      PROVE  slot_compare(b[p], y) < 0
  <2>1. b[p] \in Slot
    <3>1. p \in 1 .. Len(b)
      OBVIOUS
    <3> QED
      BY <3>1
  <2>2. slot_compare(b[p], x) < 0
    BY DEF Below
  <2> QED
    BY <2>1, <2>2, Transitivity
<1> QED
  BY <1>1 DEF Below

\* What i of the left half and the right one up to j make.
UsedUp(from, mid, i, j) == (from + 1 .. from + i) \cup (mid + 1 .. j)

\* The merge loops: [from, k) is done, everything behind j is untouched.
MergeInv(b, i, j, a, from, mid, to) ==
    LET k == from + i + (j - mid)
    IN  /\ \A p \in 1 .. Len(a) : p <= from \/ p > j => b[p] = a[p]
        /\ Holds(b, from, k, a, UsedUp(from, mid, i, j))
        /\ IsOrder =>
              /\ Ascending(b, from, k)
              /\ i # mid - from => Below(b, from, k, a[from + i + 1])
              /\ j # to => Below(b, from, k, a[j + 1])

\* A round takes the next slot of either half, and the smaller one.
LEMMA MergeStep ==
    ASSUME outcome \in Outcomes,
           NEW a \in Seq(Slot), NEW from \in Nat, NEW mid \in Nat, NEW to \in Nat,
           from < mid, mid < to, to <= Len(a), Distinct(a),
           IsOrder => Ascending(a, from, mid) /\ Ascending(a, mid, to),
           NEW m \in Merging(a, from, mid, to), MergeInv(m.a, m.i, m.j, a, from, mid, to),
           NEW x, x = merge_round(m, SubSeq(a, from + 1, mid), to)
    PROVE  MergeInv(x.a, x.i, x.j, a, from, mid, to)
<1>1. PICK b \in Seq(Slot), i \in 0 .. mid - from, j \in mid .. to :
         m = MergeState(b, i, j) /\ Len(b) = Len(a)
  <2>1. /\ m.a \in Seq(Slot) /\ Len(m.a) = Len(a)
        /\ m.i \in 0 .. mid - from /\ m.j \in mid .. to
        /\ m = MergeState(m.a, m.i, m.j)
    BY MergeParts
  <2> QED
    BY <2>1, Zenon
<1>2. m.a = b /\ m.i = i /\ m.j = j
  BY <1>1, MergeFields
<1> DEFINE k == from + i + (j - mid)
           l == mid - from
           s == from + i + 1
           t == j + 1
           n == Len(a)
           U == UsedUp(from, mid, i, j)
<1>3. k = from + i + (j - mid)
  OBVIOUS
<1>4. /\ n \in Nat /\ l \in Nat /\ i \in 0 .. l /\ k \in Nat /\ from <= k /\ k <= j
      /\ (i # l => k < j /\ k < n /\ s \in from + 1 .. mid /\ s \in 1 .. n)
      /\ (j # to => k < n /\ t \in mid + 1 .. to /\ t \in 1 .. n)
      /\ j \in Nat /\ j <= n
  BY <1>1
<1>5. /\ i = l => x = m
      /\ i # l /\ j # to /\ ~ (slot_compare(a[s], b[t]) <= 0)
         => x = MergeState(Written(b, k, b[t]), i, t)
      /\ i # l /\ (j = to \/ slot_compare(a[s], b[t]) <= 0)
         => x = MergeState(Written(b, k, a[s]), i + 1, j)
  <2> HIDE DEF k
  <2>1. x = merge_round(MergeState(b, i, j), SubSeq(a, from + 1, mid), to)
    BY <1>1
  <2>2. /\ i = mid - from => x = MergeState(b, i, j)
        /\ i # mid - from /\ j # to /\ ~ (slot_compare(a[from + i + 1], b[j + 1]) <= 0)
           => x = MergeState(Written(b, k, b[j + 1]), i, j + 1)
        /\ i # mid - from /\ (j = to \/ slot_compare(a[from + i + 1], b[j + 1]) <= 0)
           => x = MergeState(Written(b, k, a[from + i + 1]), i + 1, j)
    BY <1>3, <2>1, RoundOf
  <2> QED
    BY <1>1, <2>2
<1>6. /\ \A p \in 1 .. n : p <= from \/ p > j => b[p] = a[p]
      /\ Holds(b, from, k, a, U)
      /\ IsOrder => /\ Ascending(b, from, k)
                    /\ i # l => Below(b, from, k, a[s])
                    /\ j # to => Below(b, from, k, a[t])
  BY <1>2 DEF MergeInv
<1>7. j # to => b[t] = a[t]
  BY <1>4, <1>6
<1>8. /\ U \in SUBSET (1 .. n)
      /\ i # l => s \notin U /\ UsedUp(from, mid, i + 1, j) = U \cup {s}
      /\ j # to => t \notin U /\ UsedUp(from, mid, i, t) = U \cup {t}
  BY <1>1 DEF UsedUp
<1>9. /\ i # l => from + (i + 1) + (j - mid) = k + 1
      /\ j # to => from + i + (t - mid) = k + 1
  OBVIOUS
<1>10. i + 1 # l => from + (i + 1) + 1 = s + 1
  OBVIOUS
<1>11. /\ \A p \in 1 .. n : a[p] \in Slot
       /\ \A p, q \in 1 .. n : p # q => a[p] # a[q]
  BY DEF Distinct
<1>12. \A v \in Slot : k < n =>
          /\ Written(b, k, v) \in Seq(Slot)
          /\ \A p \in 1 .. n : Written(b, k, v)[p] = IF p = k + 1 THEN v ELSE b[p]
  <2> HIDE DEF k
  <2> QED
    BY <1>1, <1>4, WrittenAt
<1>13. CASE i = l
  BY <1>2, <1>5, <1>13
<1>14. ASSUME i # l, j # to, ~ (slot_compare(a[s], b[t]) <= 0)
       PROVE  MergeInv(x.a, x.i, x.j, a, from, mid, to)
  <2> DEFINE c == Written(b, k, a[t])
  <2>1. x.a = c /\ x.i = i /\ x.j = t
    BY <1>5, <1>7, <1>14, MergeFields
  <2>2. a[s] \in Slot /\ a[t] \in Slot /\ a[s] # a[t] /\ ~ (slot_compare(a[s], a[t]) <= 0)
    <3>1. s # t
      BY <1>4, <1>14
    <3> QED
      BY <1>4, <1>7, <1>11, <1>14, <3>1
  <2>3. Holds(c, from, k + 1, a, UsedUp(from, mid, i, t))
    <3> HIDE DEF k, s, t, U, n
    <3>1. k < Len(b) /\ U \in SUBSET (1 .. Len(a)) /\ t \in 1 .. Len(a)
      BY <1>1, <1>4, <1>8, <1>14 DEF n
    <3>2. Holds(b, from, k, a, U) /\ t \notin U /\ from <= k /\ k \in Nat
      BY <1>4, <1>6, <1>8, <1>14
    <3>3. Holds(c, from, k + 1, a, U \cup {t})
      BY <3>1, <3>2, HoldsOneMore
    <3>4. U \cup {t} = UsedUp(from, mid, i, t)
      BY <1>8, <1>14
    <3> HIDE DEF c
    <3> QED
      BY <3>3, <3>4
  <2>4. ASSUME NEW p \in 1 .. n, p <= from \/ p > t
        PROVE  c[p] = a[p]
    <3>1. p # k + 1 /\ (p <= from \/ p > j)
      BY <1>4, <2>4
    <3> HIDE DEF c
    <3> QED
      BY <1>4, <1>6, <1>12, <1>14, <2>2, <3>1 DEF c
  <2>5. ASSUME IsOrder
        PROVE  /\ Ascending(c, from, k + 1)
               /\ Below(c, from, k + 1, a[s])
               /\ t # to => Below(c, from, k + 1, a[t + 1])
    <3>1. slot_compare(a[t], a[s]) < 0
      BY <2>2, <2>5, Totality
    <3>2. Ascending(b, from, k) /\ Below(b, from, k, a[s]) /\ Below(b, from, k, a[t])
      BY <1>6, <1>14, <2>5
    <3>3. k < Len(b) /\ k <= Len(b)
      BY <1>1, <1>4, <1>14
    <3>4. ASSUME t # to
          PROVE  a[t + 1] \in Slot /\ slot_compare(a[t], a[t + 1]) < 0
      <4>1. t \in mid + 1 .. to /\ t + 1 \in mid + 1 .. to /\ t < t + 1 /\ t + 1 \in 1 .. n
        BY <1>4, <1>14, <3>4
      <4>2. Ascending(a, mid, to)
        BY <2>5
      <4> QED
        BY <1>11, <4>1, <4>2 DEF Ascending
    <3> HIDE DEF k, s, t, n
    <3>5. Ascending(c, from, k + 1)
      BY <1>4, <2>2, <3>2, <3>3, AscendsOneMore
    <3>6. Below(c, from, k + 1, a[s])
      BY <1>4, <2>2, <3>1, <3>2, <3>3, BelowOneMore
    <3>7. ASSUME t # to
          PROVE  Below(c, from, k + 1, a[t + 1])
      <4>1. Below(b, from, k, a[t + 1])
        BY <1>4, <2>2, <2>5, <3>2, <3>3, <3>4, <3>7, BelowLarger
      <4> QED
        BY <1>4, <2>2, <3>3, <3>4, <3>7, <4>1, BelowOneMore
    <3> QED
      BY <3>5, <3>6, <3>7
  <2> HIDE DEF c
  <2>6. MergeInv(c, i, t, a, from, mid, to)
    BY <1>9, <1>14, <2>3, <2>4, <2>5 DEF MergeInv
  <2> QED
    BY <2>1, <2>6
<1>15. ASSUME i # l, j = to \/ slot_compare(a[s], b[t]) <= 0
       PROVE  MergeInv(x.a, x.i, x.j, a, from, mid, to)
  <2> DEFINE c == Written(b, k, a[s])
             h == i + 1
  <2>1. x.a = c /\ x.i = h /\ x.j = j
    BY <1>5, <1>15, MergeFields
  <2>2. a[s] \in Slot
    BY <1>4, <1>11, <1>15
  <2>3. Holds(c, from, k + 1, a, UsedUp(from, mid, h, j))
    <3> HIDE DEF k, s, U, n
    <3>1. k < Len(b) /\ U \in SUBSET (1 .. Len(a)) /\ s \in 1 .. Len(a)
      BY <1>1, <1>4, <1>8, <1>15 DEF n
    <3>2. Holds(b, from, k, a, U) /\ s \notin U /\ from <= k /\ k \in Nat
      BY <1>4, <1>6, <1>8, <1>15
    <3>3. Holds(c, from, k + 1, a, U \cup {s})
      BY <3>1, <3>2, HoldsOneMore
    <3>4. U \cup {s} = UsedUp(from, mid, h, j)
      BY <1>8, <1>15
    <3> HIDE DEF c
    <3> QED
      BY <3>3, <3>4
  <2>4. ASSUME NEW p \in 1 .. n, p <= from \/ p > j
        PROVE  c[p] = a[p]
    <3>1. p # k + 1
      BY <1>4, <1>15, <2>4
    <3> HIDE DEF c
    <3> QED
      BY <1>4, <1>6, <1>12, <1>15, <2>2, <2>4, <3>1 DEF c
  <2>5. ASSUME IsOrder
        PROVE  /\ Ascending(c, from, k + 1)
               /\ h # l => Below(c, from, k + 1, a[s + 1])
               /\ j # to => Below(c, from, k + 1, a[t])
    <3>1. ASSUME j # to
          PROVE  a[t] \in Slot /\ slot_compare(a[s], a[t]) < 0
      <4>1. s # t /\ a[t] \in Slot
        BY <1>4, <1>11, <1>15, <3>1
      <4>2. a[s] # a[t] /\ slot_compare(a[s], a[t]) <= 0
        BY <1>4, <1>7, <1>11, <1>15, <3>1, <4>1
      <4> QED
        BY <2>2, <2>5, <4>1, <4>2, Totality
    <3>2. Ascending(b, from, k) /\ Below(b, from, k, a[s]) /\ (j # to => Below(b, from, k, a[t]))
      BY <1>6, <1>15, <2>5
    <3>3. k < Len(b) /\ k <= Len(b)
      BY <1>1, <1>4, <1>15
    <3>4. ASSUME h # l
          PROVE  a[s + 1] \in Slot /\ slot_compare(a[s], a[s + 1]) < 0
      <4>1. s \in from + 1 .. mid /\ s + 1 \in from + 1 .. mid /\ s < s + 1 /\ s + 1 \in 1 .. n
        BY <1>4, <1>15, <3>4
      <4>2. Ascending(a, from, mid)
        BY <2>5
      <4> QED
        BY <1>11, <4>1, <4>2 DEF Ascending
    <3> HIDE DEF k, s, t, n, h
    <3>5. Ascending(c, from, k + 1)
      BY <1>4, <2>2, <3>2, <3>3, AscendsOneMore
    <3>6. ASSUME j # to
          PROVE  Below(c, from, k + 1, a[t])
      BY <1>4, <2>2, <3>1, <3>2, <3>3, <3>6, BelowOneMore
    <3>7. ASSUME h # l
          PROVE  Below(c, from, k + 1, a[s + 1])
      <4>1. Below(b, from, k, a[s + 1])
        BY <1>4, <2>2, <2>5, <3>2, <3>3, <3>4, <3>7, BelowLarger
      <4> QED
        BY <1>4, <2>2, <3>3, <3>4, <3>7, <4>1, BelowOneMore
    <3> QED
      BY <3>5, <3>6, <3>7
  <2> HIDE DEF c
  <2>6. from + h + (j - mid) = k + 1 /\ from + h + 1 = s + 1
    OBVIOUS
  <2> HIDE DEF h
  <2>7. MergeInv(c, h, j, a, from, mid, to)
    BY <2>3, <2>4, <2>5, <2>6 DEF MergeInv
  <2> QED
    BY <2>1, <2>7
<1> QED
  BY <1>13, <1>14, <1>15

\* The rounds of the merge loops.
MergeRounds(f, a, from, mid, to) ==
    /\ f \in [0 .. to - from -> Merging(a, from, mid, to)]
    /\ f[0] = MergeState(a, 0, mid)
    /\ \A m \in 1 .. to - from : f[m] = merge_round(f[m - 1], SubSeq(a, from + 1, mid), to)

LEMMA MergeByRounds ==
    ASSUME NEW a \in Seq(Slot), NEW from \in Nat, NEW mid \in Nat, NEW to \in Nat,
           from < mid, mid < to, to <= Len(a)
    PROVE  \E f : /\ MergeRounds(f, a, from, mid, to)
                  /\ merged(a, from, mid, to) = f[to - from].a
<1> DEFINE n == to - from
           V == Merging(a, from, mid, to)
           tmp == SubSeq(a, from + 1, mid)
           first == MergeState(a, 0, mid)
           step(x) == merge_round(x, tmp, to)
           Body(f) == [m \in 0 .. n |-> IF m = 0 THEN first ELSE step(f[m - 1])]
           after[m \in 0 .. n] == IF m = 0 THEN first ELSE step(after[m - 1])
           G == [m \in 1 .. n |-> [x \in V |-> step(x)]]
<1>1. n \in Nat
  OBVIOUS
<1>2. first \in V
  <2>1. 0 \in 0 .. mid - from /\ mid \in mid .. to
    OBVIOUS
  <2> QED
    BY <2>1, MergeStates
<1>3. \A x \in V : step(x) \in V
  BY RoundTypes
<1>4. merged(a, from, mid, to) = after[n].a /\ after = CHOOSE f : f = Body(f)
  BY DEF merged, MergeState
<1> HIDE DEF after, V, n, first, step
<1>5. G \in [1 .. n -> [V -> V]] /\ \A m \in 1 .. n, x \in V : G[m][x] = step(x)
  BY <1>3
<1> HIDE DEF G
<1>6. PICK g : Iterates(g, n, V, first, G)
  BY <1>1, <1>2, <1>5, Recursion
<1>7. after = Body(after)
  <2>1. g = Body(g)
    <3>1. ASSUME NEW m \in 1 .. n
          PROVE  g[m] = step(g[m - 1])
      <4>1. m - 1 \in 0 .. n
        BY <1>1
      <4>2. g[m - 1] \in V /\ g[m] = G[m][g[m - 1]]
        BY <1>6, <4>1 DEF Iterates
      <4> QED
        BY <1>5, <4>2
    <3>2. g = [m \in 0 .. n |-> g[m]] /\ g[0] = first
      BY <1>6 DEF Iterates
    <3>3. ASSUME NEW m \in 0 .. n
          PROVE  g[m] = IF m = 0 THEN first ELSE step(g[m - 1])
      <4>1. CASE m = 0
        BY <3>2, <4>1
      <4>2. CASE m # 0
        <5>1. m \in 1 .. n
          BY <1>1, <4>2
        <5> QED
          BY <3>1, <4>2, <5>1
      <4> QED
        BY <4>1, <4>2
    <3> QED
      BY <3>2, <3>3
  <2> HIDE DEF Body
  <2> QED
    BY <1>4, <2>1
<1>8. after[0] = first /\ \A m \in 1 .. n : after[m] = step(after[m - 1])
  BY <1>1, <1>7
<1>9. \A m \in 0 .. n : after[m] \in V
  BY <1>1, <1>2, <1>3, <1>8, Throughout
<1>10. after \in [0 .. n -> V]
  BY <1>7, <1>9
<1>11. MergeRounds(after, a, from, mid, to)
  BY <1>8, <1>10 DEF MergeRounds, n, V, first, step, tmp
<1> QED
  BY <1>4, <1>11 DEF n

\* Two adjacent sorted ranges become one; the loops end when they should.
LEMMA MergedSorts ==
    ASSUME outcome \in Outcomes,
           NEW a \in Seq(Slot), NEW from \in Nat, NEW mid \in Nat, NEW to \in Nat,
           from < mid, mid < to, to <= Len(a), NEW r, r = merged(a, from, mid, to)
    PROVE  /\ r \in Seq(Slot) /\ Len(r) = Len(a)
           /\ Distinct(a) /\ (IsOrder => Ascending(a, from, mid) /\ Ascending(a, mid, to))
              => SortedRange(a, r, from, to)
<1>1. PICK f : MergeRounds(f, a, from, mid, to) /\ r = f[to - from].a
  BY MergeByRounds
<1> DEFINE n == to - from
           l == mid - from
           V == Merging(a, from, mid, to)
           tmp == SubSeq(a, from + 1, mid)
<1>2. n \in Nat /\ l \in Nat /\ n = l + (to - mid)
  OBVIOUS
<1>3. /\ \A m \in 0 .. n : f[m] \in V
      /\ f[0] = MergeState(a, 0, mid)
      /\ \A m \in 1 .. n : f[m] = merge_round(f[m - 1], tmp, to)
  BY <1>1 DEF MergeRounds
<1>4. \A x \in V : x.a \in Seq(Slot) /\ Len(x.a) = Len(a) /\ x.i \in 0 .. l /\ x.j \in mid .. to
  BY MergeParts
<1>5. f[n].i = l
  <2> DEFINE S == {m \in 0 .. n : f[m].i = l \/ f[m].i + (f[m].j - mid) = m}
  <2>1. 0 \in S
    BY <1>2, <1>3, MergeFields
  <2>2. ASSUME NEW m \in 1 .. n, m - 1 \in S
        PROVE  m \in S
    <3> DEFINE y == f[m - 1]
               x == f[m]
    <3>1. y \in V /\ x = merge_round(y, tmp, to) /\ x \in V
      <4>1. m - 1 \in 0 .. n
        BY <1>2
      <4> QED
        BY <1>3, <4>1
    <3>2. y.i = l \/ y.i + (y.j - mid) = m - 1
      BY <2>2
    <3> HIDE DEF x, y
    <3>3. y.i \in 0 .. l /\ y.j \in mid .. to /\ x.i \in 0 .. l /\ x.j \in mid .. to
      BY <1>4, <3>1
    <3>4. /\ y.i = mid - from => x = y
          /\ y.i # mid - from => x.i + (x.j - mid) = y.i + (y.j - mid) + 1
      BY <3>1, RoundTypes
    <3>5. x.i = l \/ x.i + (x.j - mid) = m
      BY <3>2, <3>3, <3>4
    <3> QED
      BY <3>5 DEF x
  <2>3. n \in S
    <3> HIDE DEF S, n
    <3>1. 0 .. n \subseteq S
      BY <1>2, <2>1, <2>2, SetInduction
    <3> QED
      BY <1>2, <3>1
  <2>4. f[n].i \in 0 .. l /\ f[n].j \in mid .. to /\ (f[n].i = l \/ f[n].i + (f[n].j - mid) = n)
    BY <1>2, <1>3, <1>4, <2>3
  <2> QED
    BY <1>2, <2>4
<1>6. r \in Seq(Slot) /\ Len(r) = Len(a)
  BY <1>1, <1>2, <1>3, <1>4
<1>7. ASSUME Distinct(a), IsOrder => Ascending(a, from, mid) /\ Ascending(a, mid, to)
      PROVE  SortedRange(a, r, from, to)
  <2> DEFINE S == {m \in 0 .. n : MergeInv(f[m].a, f[m].i, f[m].j, a, from, mid, to)}
  <2>1. 0 \in S
    <3>1. f[0].a = a /\ f[0].i = 0 /\ f[0].j = mid
      BY <1>3, MergeFields
    <3>2. MergeInv(a, 0, mid, a, from, mid, to)
      <4>1. UsedUp(from, mid, 0, mid) = {} /\ from + 0 + (mid - mid) = from
        BY DEF UsedUp
      <4>2. from + 1 .. from = {}
        OBVIOUS
      <4> QED
        BY <4>1, <4>2 DEF MergeInv, Holds, Ascending, Below
    <3> QED
      BY <1>2, <3>1, <3>2
  <2>2. ASSUME NEW m \in 1 .. n, m - 1 \in S
        PROVE  m \in S
    <3> DEFINE y == f[m - 1]
               x == f[m]
    <3>1. y \in V /\ x = merge_round(y, tmp, to)
      <4>1. m - 1 \in 0 .. n
        BY <1>2
      <4> QED
        BY <1>3, <4>1
    <3>2. MergeInv(y.a, y.i, y.j, a, from, mid, to)
      BY <2>2
    <3> HIDE DEF x, y
    <3>3. MergeInv(x.a, x.i, x.j, a, from, mid, to)
      BY <1>7, <3>1, <3>2, MergeStep
    <3> QED
      BY <3>3 DEF x
  <2>3. n \in S
    <3> HIDE DEF S, n
    <3>1. 0 .. n \subseteq S
      BY <1>2, <2>1, <2>2, SetInduction
    <3> QED
      BY <1>2, <3>1
  <2> DEFINE j == f[n].j
  <2>4. MergeInv(r, l, j, a, from, mid, to) /\ j \in mid .. to
    BY <1>1, <1>2, <1>3, <1>4, <1>5, <2>3
  <2> HIDE DEF j
  <2>5. from + l + (j - mid) = j /\ UsedUp(from, mid, l, j) = from + 1 .. j
    BY <2>4 DEF UsedUp
  <2>6. /\ \A p \in 1 .. Len(a) : p <= from \/ p > j => r[p] = a[p]
        /\ Holds(r, from, j, a, from + 1 .. j)
        /\ IsOrder => Ascending(r, from, j) /\ (j # to => Below(r, from, j, a[j + 1]))
    BY <2>4, <2>5 DEF MergeInv
  <2>7. Rearranged(a, r, from, j)
    BY <1>6, <2>6 DEF Rearranged, Holds
  <2>8. Rearranged(a, r, from, to)
    <3>1. from <= j /\ j <= to /\ j \in Nat
      BY <2>4
    <3> QED
      BY <2>7, <3>1, RearrangedPart
  <2>9. Distinct(r)
    <3> SUFFICES ASSUME NEW p \in 1 .. Len(a), NEW q \in 1 .. Len(a), p # q
                 PROVE  r[p] # r[q]
      BY <1>6 DEF Distinct
    <3>1. \A u, v \in 1 .. Len(a) : u # v => a[u] # a[v]
      BY <1>7 DEF Distinct
    <3>2. ASSUME NEW u \in 1 .. Len(a), NEW v \in 1 .. Len(a), u \in from + 1 .. j, v \notin from + 1 .. j
          PROVE  r[u] # r[v]
      <4>1. PICK w \in from + 1 .. j : r[u] = a[w]
        BY <2>6, <3>2 DEF Holds
      <4>2. r[v] = a[v] /\ w # v /\ w \in 1 .. Len(a)
        <5>1. v <= from \/ v > j
          BY <2>4, <3>2
        <5> QED
          BY <2>4, <2>6, <3>2, <5>1
      <4> QED
        BY <3>1, <4>1, <4>2
    <3>3. CASE p \in from + 1 .. j /\ q \in from + 1 .. j
      BY <2>6, <3>3 DEF Holds
    <3>4. CASE p \notin from + 1 .. j /\ q \notin from + 1 .. j
      <4>1. (p <= from \/ p > j) /\ (q <= from \/ q > j)
        BY <2>4, <3>4
      <4> QED
        BY <2>6, <3>1, <4>1
    <3> QED
      BY <3>2, <3>3, <3>4
  <2>10. ASSUME IsOrder
         PROVE  Ascending(r, from, to)
    <3> SUFFICES ASSUME NEW p \in from + 1 .. to, NEW q \in from + 1 .. to, p < q
                 PROVE  slot_compare(r[p], r[q]) < 0
      BY DEF Ascending
    <3>1. p \in 1 .. Len(a) /\ q \in 1 .. Len(a) /\ j \in Nat
      BY <2>4
    <3>2. CASE q <= j
      <4>1. p \in from + 1 .. j /\ q \in from + 1 .. j
        BY <2>4, <3>2
      <4> QED
        BY <2>6, <2>10, <4>1 DEF Ascending
    <3>3. CASE p > j
      <4>1. p \in mid + 1 .. to /\ q \in mid + 1 .. to /\ q > j
        BY <2>4, <3>3
      <4>2. r[p] = a[p] /\ r[q] = a[q]
        BY <2>6, <3>1, <3>3, <4>1
      <4> QED
        BY <1>7, <2>10, <4>1, <4>2 DEF Ascending
    <3>4. CASE p <= j /\ q > j
      <4>1. j # to /\ p \in from + 1 .. j /\ j + 1 \in 1 .. Len(a)
        BY <2>4, <3>4
      <4>2. slot_compare(r[p], a[j + 1]) < 0
        BY <2>6, <2>10, <4>1 DEF Below
      <4>3. r[q] = a[q]
        BY <2>6, <3>1, <3>4
      <4>4. CASE q = j + 1
        BY <4>2, <4>3, <4>4
      <4>5. CASE q # j + 1
        <5>1. j + 1 \in mid + 1 .. to /\ q \in mid + 1 .. to /\ j + 1 < q
          BY <2>4, <3>1, <3>4, <4>1, <4>5
        <5>2. slot_compare(a[j + 1], a[q]) < 0
          BY <1>7, <2>10, <5>1 DEF Ascending
        <5>3. r[p] \in Slot /\ a[j + 1] \in Slot /\ a[q] \in Slot
          BY <1>6, <3>1, <4>1
        <5>4. slot_compare(r[p], a[q]) < 0
          BY <2>10, <4>2, <5>2, <5>3, Transitivity
        <5> QED
          BY <4>3, <5>4
      <4> QED
        BY <4>4, <4>5
    <3> QED
      BY <3>1, <3>2, <3>3, <3>4
  <2> QED
    BY <2>8, <2>9, <2>10 DEF SortedRange
<1> QED
  BY <1>6, <1>7

\* Ranges that happen to be in order already.
LEMMA AlreadyMerged ==
    ASSUME outcome \in Outcomes, IsOrder,
           NEW a \in Seq(Slot), NEW from \in Nat, NEW mid \in Nat, NEW to \in Nat,
           from <= mid, mid <= to, to <= Len(a), Distinct(a),
           Ascending(a, from, mid), Ascending(a, mid, to),
           from = mid \/ mid = to \/ slot_compare(a[mid], a[mid + 1]) <= 0
    PROVE  Ascending(a, from, to)
<1>1. CASE from = mid \/ mid = to
  BY <1>1
<1>2. CASE from # mid /\ mid # to
  <2> SUFFICES ASSUME NEW p \in from + 1 .. to, NEW q \in from + 1 .. to, p < q
               PROVE  slot_compare(a[p], a[q]) < 0
    BY DEF Ascending
  <2> DEFINE t == mid + 1
  <2>1. /\ mid \in from + 1 .. mid /\ mid \in 1 .. Len(a)
        /\ t \in mid + 1 .. to /\ t \in 1 .. Len(a) /\ mid # t
    BY <1>2
  <2>2. /\ p \in 1 .. Len(a) /\ q \in 1 .. Len(a)
        /\ p \in from + 1 .. mid \/ p \in mid + 1 .. to
        /\ q \in from + 1 .. mid \/ q \in mid + 1 .. to
    OBVIOUS
  <2>3. a[mid] \in Slot /\ a[t] \in Slot /\ a[p] \in Slot /\ a[q] \in Slot
    BY <2>1, <2>2
  <2>4. slot_compare(a[mid], a[t]) <= 0 /\ a[mid] # a[t]
    BY <1>2, <2>1 DEF Distinct
  <2> HIDE DEF t
  <2>5. slot_compare(a[mid], a[t]) < 0
    BY <2>3, <2>4, Totality
  <2>6. CASE p \in mid + 1 .. to
    <3>1. q \in mid + 1 .. to
      BY <2>6
    <3> QED
      BY <2>6, <3>1 DEF Ascending
  <2>7. CASE q \in from + 1 .. mid
    <3>1. p \in from + 1 .. mid
      BY <2>7
    <3> QED
      BY <2>7, <3>1 DEF Ascending
  <2>8. CASE p \in from + 1 .. mid /\ q \in mid + 1 .. to
    <3>1. p = mid \/ slot_compare(a[p], a[mid]) < 0
      <4>1. p = mid \/ p < mid
        BY <2>8
      <4> QED
        BY <2>1, <2>8, <4>1 DEF Ascending
    <3>2. q = t \/ slot_compare(a[t], a[q]) < 0
      <4>1. q = t \/ t < q
        BY <2>8 DEF t
      <4> QED
        BY <2>1, <2>8, <4>1 DEF Ascending
    <3>3. slot_compare(a[p], a[t]) < 0
      BY <2>3, <2>5, <3>1, Transitivity
    <3> QED
      BY <2>3, <3>2, <3>3, Transitivity
  <2> QED
    BY <2>2, <2>6, <2>7, <2>8
<1> QED
  BY <1>1, <1>2

\* merge merges, and needs a buffer for the left half.
LEMMA MergeSorts ==
    ASSUME outcome \in Outcomes,
           NEW w \in Works, NEW from \in Nat, NEW mid \in Nat, NEW to \in Nat,
           from <= mid, mid <= to, to <= Len(w.a), NEW r, r = merge(w, from, mid, to)
    PROVE  /\ r \in Works /\ r.room = w.room /\ Len(r.a) = Len(w.a)
           /\ mid - from <= w.room => r.over = w.over
           /\ Distinct(w.a) /\ (IsOrder => Ascending(w.a, from, mid) /\ Ascending(w.a, mid, to))
              => SortedRange(w.a, r.a, from, to)
<1> DEFINE a == w.a
           done == from = mid \/ mid = to \/ slot_compare(a[mid], a[mid + 1]) <= 0
           b == merged(a, from, mid, to)
<1>1. a \in Seq(Slot) /\ w.room \in Nat /\ w.over \in BOOLEAN
  BY DEF Works
<1>2. CASE done
  <2>1. r = w
    BY <1>2 DEF merge
  <2>2. ASSUME Distinct(a), IsOrder => Ascending(a, from, mid) /\ Ascending(a, mid, to)
        PROVE  SortedRange(a, a, from, to)
    <3>1. IsOrder => Ascending(a, from, to)
      BY <1>1, <1>2, <2>2, AlreadyMerged
    <3> QED
      BY <1>1, <2>2, <3>1, NothingRearranged DEF SortedRange
  <2> QED
    BY <2>1, <2>2
<1>3. CASE ~ done
  <2>1. r = [w EXCEPT !.a = b, !.over = w.over \/ mid - from > w.room]
    BY <1>3 DEF merge
  <2>2. from < mid /\ mid < to
    BY <1>3
  <2>3. /\ b \in Seq(Slot) /\ Len(b) = Len(a)
        /\ Distinct(a) /\ (IsOrder => Ascending(a, from, mid) /\ Ascending(a, mid, to))
           => SortedRange(a, b, from, to)
    BY <1>1, <2>2, MergedSorts
  <2> HIDE DEF b
  <2>4. r \in Works /\ r.a = b /\ r.room = w.room /\ r.over = (w.over \/ mid - from > w.room)
    BY <2>1, <2>3 DEF Works
  <2>5. mid - from <= w.room => r.over = w.over
    <3>1. mid - from <= w.room => ~ (mid - from > w.room)
      BY <1>1
    <3> QED
      BY <1>1, <2>4, <3>1
  <2> QED
    BY <2>3, <2>4, <2>5
<1> QED
  BY <1>2, <1>3

\* A buffer for the left half is enough.
LEMMA RoomForMerge ==
    ASSUME NEW w \in Works, NEW from \in Nat, NEW mid \in Nat, NEW to,
           mid - from <= w.room
    PROVE  merge(w, from, mid, to).over = w.over
<1>1. w.room \in Nat /\ w.over \in BOOLEAN
  BY DEF Works
<1>2. ~ (mid - from > w.room)
  BY <1>1
<1> DEFINE b == merged(w.a, from, mid, to)
           r == [w EXCEPT !.a = b, !.over = w.over \/ mid - from > w.room]
<1>3. r.over = w.over
  <2> HIDE DEF b
  <2>1. w = [a |-> w.a, room |-> w.room, over |-> w.over]
    BY DEF Works
  <2>2. r.over = (w.over \/ mid - from > w.room)
    BY <2>1
  <2> QED
    BY <1>1, <1>2, <2>2
<1> HIDE DEF b
<1>4. merge(w, from, mid, to) = w \/ merge(w, from, mid, to) = r
  BY DEF merge, b
<1> QED
  BY <1>3, <1>4

-----------------------------------------------------------------------------
(* sort                                                                    *)

\* What a call of sort returns, given what its inner calls return.
SortValue(g, c) ==
    IF c.to - c.from <= InsertionThreshold THEN insertion_sort(c.w, c.from, c.to)
    ELSE LET mid  == middle(c.from, c.to)
             left == g[Call(c.w, c.from, mid)]
         IN  merge(g[Call(left, mid, c.to)], c.from, mid, c.to)

\* g answers all calls for at most n slots.
Answers(g, n) == g = [c \in Calls(n) |-> SortValue(g, c)]

\* What SlotSorter promises of a call: the range sorted, with a buffer for half of it.
Promised(c, r) ==
    /\ r \in Works /\ Len(r.a) = Len(c.w.a) /\ r.room = c.w.room
    /\ c.to - c.from <= 2 * c.w.room => r.over = c.w.over
    /\ Distinct(c.w.a) => SortedRange(c.w.a, r.a, c.from, c.to)

LEMMA CallParts ==
    ASSUME NEW n \in Nat, NEW c \in Calls(n)
    PROVE  /\ c.w \in Works /\ c.w.a \in Seq(Slot) /\ c.w.room \in Nat /\ c.from \in Nat /\ c.to \in Nat
           /\ c.from <= c.to /\ c.to <= Len(c.w.a) /\ c.to - c.from <= n
           /\ c = Call(c.w, c.from, c.to)
BY DEF Calls, Call, Works

LEMMA CallOf ==
    ASSUME NEW n \in Nat, NEW w \in Works, NEW from \in Nat, NEW to \in Nat,
           from <= to, to <= Len(w.a), to - from <= n
    PROVE  /\ Call(w, from, to) \in Calls(n)
           /\ Call(w, from, to).w = w /\ Call(w, from, to).from = from /\ Call(w, from, to).to = to
BY DEF Calls, Call

\* Both halves are smaller, and the left one is not more than half.
LEMMA Halves ==
    ASSUME NEW from \in Nat, NEW to \in Nat, ~ (to - from <= InsertionThreshold),
           NEW mid, mid = middle(from, to)
    PROVE  /\ mid \in Nat /\ from < mid /\ mid < to
           /\ mid - from <= to - from - 1 /\ to - mid <= to - from - 1
           /\ 2 * (mid - from) <= to - from
<1>1. InsertionThreshold \in Nat /\ InsertionThreshold >= 1
  BY SlotSorterAssumption
<1>2. to - from >= 2
  BY <1>1
<1> QED
  BY <1>2 DEF middle

LEMMA InsertionPromised ==
    ASSUME outcome \in Outcomes, NEW n \in Nat, NEW c \in Calls(n)
    PROVE  Promised(c, insertion_sort(c.w, c.from, c.to))
<1> DEFINE x == insertion_sort(c.w, c.from, c.to)
<1>1. x = insertion_sort(c.w, c.from, c.to)
  OBVIOUS
<1> HIDE DEF x
<1>2. /\ c.w \in Works /\ c.from \in Nat /\ c.to \in Nat
      /\ c.from <= c.to /\ c.to <= Len(c.w.a)
  BY CallParts
<1>3. /\ x \in Works /\ x.room = c.w.room /\ x.over = c.w.over /\ Len(x.a) = Len(c.w.a)
      /\ Distinct(c.w.a) => SortedRange(c.w.a, x.a, c.from, c.to)
  BY <1>1, <1>2, InsertionSorts
<1>4. Promised(c, x)
  BY <1>3 DEF Promised
<1> QED
  BY <1>4 DEF x

\* The halves, one after the other, and then merged.
LEMMA HalvesSort ==
    ASSUME outcome \in Outcomes, NEW n \in Nat, NEW c \in Calls(n),
           ~ (c.to - c.from <= InsertionThreshold),
           NEW mid, mid = middle(c.from, c.to),
           NEW left, Promised(Call(c.w, c.from, mid), left),
           NEW right, Promised(Call(left, mid, c.to), right),
           NEW x, x = merge(right, c.from, mid, c.to)
    PROVE  Promised(c, x)
<1> DEFINE w == c.w
           from == c.from
           to == c.to
           a == w.a
           d1 == Call(w, from, mid)
           d2 == Call(left, mid, to)
<1>1. /\ w \in Works /\ a \in Seq(Slot) /\ w.room \in Nat /\ from \in Nat /\ to \in Nat
      /\ from <= to /\ to <= Len(a)
  BY CallParts
<1>2. /\ d1.w = w /\ d1.from = from /\ d1.to = mid
      /\ d2.w = left /\ d2.from = mid /\ d2.to = to
  BY DEF Call
<1>3. mid = middle(from, to) /\ ~ (to - from <= InsertionThreshold)
      /\ Promised(d1, left) /\ Promised(d2, right) /\ x = merge(right, from, mid, to)
  OBVIOUS
<1> HIDE DEF w, from, to, d1, d2
<1>4. mid \in Nat /\ from < mid /\ mid < to /\ 2 * (mid - from) <= to - from
  BY <1>1, <1>3, Halves
<1>5. /\ left \in Works /\ Len(left.a) = Len(a) /\ left.room = w.room
      /\ mid - from <= 2 * w.room => left.over = w.over
      /\ Distinct(a) => SortedRange(a, left.a, from, mid)
  BY <1>2, <1>3 DEF Promised
<1>6. /\ right \in Works /\ Len(right.a) = Len(a) /\ right.room = w.room
      /\ to - mid <= 2 * w.room => right.over = left.over
      /\ Distinct(left.a) => SortedRange(left.a, right.a, mid, to)
  BY <1>2, <1>3, <1>5 DEF Promised
<1>7. /\ x \in Works /\ x.room = right.room /\ Len(x.a) = Len(right.a)
      /\ mid - from <= right.room => x.over = right.over
      /\ Distinct(right.a) /\ (IsOrder => Ascending(right.a, from, mid) /\ Ascending(right.a, mid, to))
         => SortedRange(right.a, x.a, from, to)
  <2>1. from <= mid /\ mid <= to /\ to <= Len(right.a)
    BY <1>1, <1>4, <1>6
  <2> QED
    BY <1>1, <1>3, <1>4, <1>6, <2>1, MergeSorts
<1>8. ASSUME to - from <= 2 * w.room
      PROVE  x.over = w.over
  <2>1. mid - from <= 2 * w.room /\ to - mid <= 2 * w.room /\ mid - from <= w.room
    BY <1>1, <1>4, <1>8
  <2> QED
    BY <1>5, <1>6, <1>7, <2>1
<1>9. ASSUME Distinct(a)
      PROVE  SortedRange(a, x.a, from, to)
  <2> DEFINE b == left.a
             e == right.a
  <2>1. SortedRange(a, b, from, mid) /\ SortedRange(b, e, mid, to) /\ Distinct(e)
    BY <1>5, <1>6, <1>9 DEF SortedRange
  <2>2. IsOrder => Ascending(e, from, mid) /\ Ascending(e, mid, to)
    <3>1. \A p \in from + 1 .. mid : e[p] = b[p]
      <4>1. Rearranged(b, e, mid, to)
        BY <2>1 DEF SortedRange
      <4>2. \A p \in 1 .. Len(b) : p <= mid \/ p > to => e[p] = b[p]
        BY <4>1 DEF Rearranged
      <4>3. \A p \in from + 1 .. mid : p \in 1 .. Len(b) /\ p <= mid
        BY <1>1, <1>4, <1>5
      <4> HIDE DEF b, e
      <4> QED
        BY <4>2, <4>3
    <3> HIDE DEF b, e
    <3> QED
      BY <2>1, <3>1 DEF SortedRange, Ascending
  <2>3. SortedRange(e, x.a, from, to)
    BY <1>7, <2>1, <2>2
  <2>4. Len(b) = Len(a) /\ Len(e) = Len(a) /\ from <= mid /\ mid <= to /\ to <= Len(a)
    BY <1>1, <1>4, <1>5, <1>6
  <2> HIDE DEF a, b, e
  <2>5. Rearranged(a, b, from, to) /\ Rearranged(b, e, from, to) /\ Rearranged(e, x.a, from, to)
    BY <1>1, <1>4, <2>1, <2>3, <2>4, RearrangedPart DEF SortedRange
  <2>6. Rearranged(a, x.a, from, to)
    <3>1. Rearranged(a, e, from, to)
      BY <1>1, <2>5, RearrangedTwice
    <3> QED
      BY <1>1, <2>5, <3>1, RearrangedTwice
  <2> QED
    BY <2>3, <2>6 DEF SortedRange
<1>10. /\ x \in Works /\ Len(x.a) = Len(a) /\ x.room = w.room
  BY <1>6, <1>7
<1> QED
  BY <1>8, <1>9, <1>10 DEF Promised, w, from, to

\* Every call keeps the promise, whatever answers the calls inside it.
LEMMA SortKeepsPromise ==
    ASSUME outcome \in Outcomes, NEW n \in Nat, NEW g, Answers(g, n)
    PROVE  \A c \in Calls(n) : Promised(c, g[c])
<1> DEFINE S == {m \in 0 .. n : \A c \in Calls(m) : Promised(c, g[c])}
<1>1. \A c \in Calls(n) : g[c] = SortValue(g, c)
  BY DEF Answers
<1>2. ASSUME NEW m \in 0 .. n, NEW c \in Calls(m)
      PROVE  c \in Calls(n)
  <2>1. m \in Nat /\ m <= n
    OBVIOUS
  <2> QED
    BY <2>1 DEF Calls
<1>3. ASSUME NEW m \in 0 .. n, NEW c \in Calls(m), c.to - c.from <= InsertionThreshold
      PROVE  Promised(c, g[c])
  <2>1. g[c] = insertion_sort(c.w, c.from, c.to)
    BY <1>1, <1>2, <1>3 DEF SortValue
  <2>2. m \in Nat
    OBVIOUS
  <2> QED
    BY <2>1, <2>2, InsertionPromised
<1>4. 0 \in S
  <2> SUFFICES ASSUME NEW c \in Calls(0) PROVE Promised(c, g[c])
    OBVIOUS
  <2>1. c.from \in Nat /\ c.to \in Nat /\ c.to - c.from <= 0
    BY CallParts
  <2>2. c.to - c.from <= InsertionThreshold
    BY <2>1, SlotSorterAssumption
  <2> QED
    BY <1>3, <2>2
<1>5. ASSUME NEW m \in 1 .. n, m - 1 \in S
      PROVE  m \in S
  <2> DEFINE h == m - 1
  <2>1. h \in Nat /\ m = h + 1 /\ m \in Nat /\ m \in 0 .. n
    OBVIOUS
  <2>2. \A d \in Calls(h) : Promised(d, g[d])
    BY <1>5
  <2> HIDE DEF h
  <2>3. ASSUME NEW c \in Calls(m)
        PROVE  Promised(c, g[c])
    <3>1. CASE c.to - c.from <= InsertionThreshold
      BY <1>3, <2>1, <3>1
    <3>2. CASE ~ (c.to - c.from <= InsertionThreshold)
      <4> DEFINE mid == middle(c.from, c.to)
                 left == g[Call(c.w, c.from, mid)]
                 right == g[Call(left, mid, c.to)]
      <4>1. /\ c.w \in Works /\ c.from \in Nat /\ c.to \in Nat
            /\ c.from <= c.to /\ c.to <= Len(c.w.a) /\ c.to - c.from <= m
        BY <2>1, CallParts
      <4>2. g[c] = merge(right, c.from, mid, c.to)
        BY <1>1, <1>2, <2>1, <3>2 DEF SortValue
      <4>3. mid = middle(c.from, c.to)
        OBVIOUS
      <4> HIDE DEF mid
      <4>4. mid \in Nat /\ c.from < mid /\ mid < c.to /\ mid - c.from <= h /\ c.to - mid <= h
        <5>1. /\ mid \in Nat /\ c.from < mid /\ mid < c.to
              /\ mid - c.from <= c.to - c.from - 1 /\ c.to - mid <= c.to - c.from - 1
          BY <3>2, <4>1, <4>3, Halves
        <5> QED
          BY <2>1, <4>1, <5>1
      <4>5. Call(c.w, c.from, mid) \in Calls(h) /\ Call(c.w, c.from, mid).w = c.w
        <5>1. c.from <= mid /\ mid <= Len(c.w.a)
          <6>1. Len(c.w.a) \in Nat
            BY <2>1, CallParts
          <6> QED
            BY <4>1, <4>4, <6>1
        <5> QED
          BY <2>1, <4>1, <4>4, <5>1, CallOf
      <4>6. Promised(Call(c.w, c.from, mid), left)
        BY <2>2, <4>5
      <4>7. left \in Works /\ Len(left.a) = Len(c.w.a)
        BY <4>5, <4>6 DEF Promised
      <4> HIDE DEF left
      <4>8. Call(left, mid, c.to) \in Calls(h)
        BY <2>1, <4>1, <4>4, <4>7, CallOf
      <4>9. Promised(Call(left, mid, c.to), right)
        BY <2>2, <4>8
      <4> HIDE DEF right
      <4> QED
        BY <2>1, <3>2, <4>2, <4>3, <4>6, <4>9, HalvesSort
    <3> QED
      BY <3>1, <3>2
  <2> QED
    BY <2>1, <2>3
<1>6. n \in S
  <2> HIDE DEF S
  <2>1. 0 .. n \subseteq S
    BY <1>4, <1>5, SetInduction
  <2> QED
    BY <2>1
<1> QED
  BY <1>6

\* The recursion ends: there are answers to calls for one slot more.
LEMMA OneLarger ==
    ASSUME outcome \in Outcomes, NEW h \in Nat, NEW m, m = h + 1, NEW g, Answers(g, h)
    PROVE  \E f : Answers(f, m)
<1> DEFINE f == [c \in Calls(m) |-> SortValue(g, c)]
<1>1. ASSUME NEW d \in Calls(h)
      PROVE  f[d] = g[d] /\ Promised(d, g[d])
  <2>1. d \in Calls(m)
    BY DEF Calls
  <2>2. g[d] = SortValue(g, d)
    BY DEF Answers
  <2> QED
    BY <2>1, <2>2, SortKeepsPromise
<1> HIDE DEF f
<1>2. ASSUME NEW c \in Calls(m)
      PROVE  SortValue(f, c) = SortValue(g, c)
  <2>1. CASE c.to - c.from <= InsertionThreshold
    BY <2>1 DEF SortValue
  <2>2. CASE ~ (c.to - c.from <= InsertionThreshold)
    <3> DEFINE mid == middle(c.from, c.to)
               left == g[Call(c.w, c.from, mid)]
    <3>1. /\ c.w \in Works /\ c.from \in Nat /\ c.to \in Nat
          /\ c.from <= c.to /\ c.to <= Len(c.w.a) /\ c.to - c.from <= m /\ Len(c.w.a) \in Nat
      <4>1. m \in Nat
        OBVIOUS
      <4> QED
        BY <4>1, CallParts
    <3>2. mid = middle(c.from, c.to)
      OBVIOUS
    <3> HIDE DEF mid
    <3>3. mid \in Nat /\ c.from <= mid /\ mid <= c.to /\ mid - c.from <= h /\ c.to - mid <= h
      <4>1. /\ mid \in Nat /\ c.from < mid /\ mid < c.to
            /\ mid - c.from <= c.to - c.from - 1 /\ c.to - mid <= c.to - c.from - 1
        BY <2>2, <3>1, <3>2, Halves
      <4> QED
        BY <3>1, <4>1
    <3>4. Call(c.w, c.from, mid) \in Calls(h) /\ Call(c.w, c.from, mid).w = c.w
      <4>1. mid <= Len(c.w.a)
        BY <3>1, <3>3
      <4> QED
        BY <3>1, <3>3, <4>1, CallOf
    <3>5. f[Call(c.w, c.from, mid)] = left /\ left \in Works /\ Len(left.a) = Len(c.w.a)
      BY <1>1, <3>4 DEF Promised
    <3> HIDE DEF left
    <3>6. Call(left, mid, c.to) \in Calls(h)
      BY <3>1, <3>3, <3>5, CallOf
    <3>7. f[Call(left, mid, c.to)] = g[Call(left, mid, c.to)]
      BY <1>1, <3>6
    <3>8. SortValue(g, c) = merge(g[Call(left, mid, c.to)], c.from, mid, c.to)
      BY <2>2 DEF SortValue, mid, left
    <3>9. SortValue(f, c) = merge(f[Call(f[Call(c.w, c.from, mid)], mid, c.to)], c.from, mid, c.to)
      BY <2>2 DEF SortValue, mid
    <3> QED
      BY <3>5, <3>7, <3>8, <3>9
  <2> QED
    BY <2>1, <2>2
<1>3. f = [c \in Calls(m) |-> SortValue(f, c)]
  <2>1. f = [c \in Calls(m) |-> SortValue(g, c)]
    BY DEF f
  <2> QED
    BY <1>2, <2>1
<1>4. Answers(f, m)
  BY <1>3 DEF Answers
<1> QED
  BY <1>4

LEMMA AnswersExist ==
    ASSUME outcome \in Outcomes, NEW n \in Nat
    PROVE  \E g : Answers(g, n)
<1> DEFINE S == {m \in 0 .. n : \E g : Answers(g, m)}
<1>1. 0 \in S
  <2> DEFINE g == [c \in Calls(0) |-> insertion_sort(c.w, c.from, c.to)]
  <2>1. ASSUME NEW c \in Calls(0)
        PROVE  SortValue(g, c) = insertion_sort(c.w, c.from, c.to)
    <3>1. c.from \in Nat /\ c.to \in Nat /\ c.to - c.from <= 0
      BY CallParts
    <3>2. c.to - c.from <= InsertionThreshold
      BY <3>1, SlotSorterAssumption
    <3> HIDE DEF g
    <3> QED
      BY <3>2 DEF SortValue
  <2>2. g = [c \in Calls(0) |-> insertion_sort(c.w, c.from, c.to)]
    OBVIOUS
  <2> HIDE DEF g
  <2>3. Answers(g, 0)
    BY <2>1, <2>2 DEF Answers
  <2> QED
    BY <2>3
<1>2. ASSUME NEW m \in 1 .. n, m - 1 \in S
      PROVE  m \in S
  <2> DEFINE h == m - 1
  <2>1. h \in Nat /\ m = h + 1 /\ m \in 0 .. n
    OBVIOUS
  <2>2. PICK g : Answers(g, h)
    BY <1>2
  <2> HIDE DEF h
  <2>3. \E f : Answers(f, m)
    BY <2>1, <2>2, OneLarger
  <2> QED
    BY <2>1, <2>3
<1>3. n \in S
  <2> HIDE DEF S
  <2>1. 0 .. n \subseteq S
    BY <1>1, <1>2, SetInduction
  <2> QED
    BY <2>1
<1> QED
  BY <1>3

\* sort sorts any range of any array.
LEMMA SortSorts ==
    ASSUME outcome \in Outcomes, NEW w \in Works, NEW from \in Nat, NEW to \in Nat,
           from <= to, to <= Len(w.a)
    PROVE  Promised(Call(w, from, to), sort(w, from, to))
<1> DEFINE n == to - from
           Body(g) == [c \in Calls(n) |-> SortValue(g, c)]
           done[c \in Calls(n)] ==
               IF c.to - c.from <= InsertionThreshold THEN insertion_sort(c.w, c.from, c.to)
               ELSE LET mid  == middle(c.from, c.to)
                        left == done[Call(c.w, c.from, mid)]
                    IN  merge(done[Call(left, mid, c.to)], c.from, mid, c.to)
<1>1. sort(w, from, to) = done[Call(w, from, to)]
  BY DEF sort
<1>2. done = CHOOSE g : g = Body(g)
  BY DEF SortValue
<1>3. n \in Nat
  OBVIOUS
<1>4. Call(w, from, to) \in Calls(n)
  BY <1>3, CallOf
<1> HIDE DEF done, n
<1>5. PICK g : g = Body(g)
  BY <1>3, AnswersExist DEF Answers
<1>6. done = Body(done)
  <2> HIDE DEF Body
  <2> QED
    BY <1>2, <1>5
<1>7. Answers(done, n)
  BY <1>6 DEF Answers
<1>8. Promised(Call(w, from, to), done[Call(w, from, to)])
  BY <1>3, <1>4, <1>7, SortKeepsPromise
<1> QED
  BY <1>1, <1>8

-----------------------------------------------------------------------------
(* The bucket                                                              *)

\* What holds in every state: besides the types, that no slot is twice in the
\* bucket, which the order of equal elements rests on.
Sound == TypeOK /\ Distinct(bucket) /\ PrefixExact /\ BufferSuffices

\* The merge of the prefix with what is sorted behind it.
LEMMA PrefixMerges ==
    ASSUME outcome \in Outcomes, NEW w \in Works, NEW mid \in Nat, NEW to \in Nat,
           mid <= to, to <= Len(w.a), mid <= w.room, Distinct(w.a),
           IsOrder => Ascending(w.a, 0, mid), IsOrder => Ascending(w.a, mid, to),
           NEW m, m = merge(w, 0, mid, to)
    PROVE  m \in Works /\ m.over = w.over /\ SortedRange(w.a, m.a, 0, to)
<1> DEFINE from == 0
<1>1. from \in Nat /\ from <= mid /\ m = merge(w, from, mid, to)
  OBVIOUS
<1>2. mid - from <= w.room
  <2>1. w.room \in Nat /\ mid - from = mid
    BY DEF Works
  <2> QED
    BY <2>1
<1>3. IsOrder => Ascending(w.a, from, mid) /\ Ascending(w.a, mid, to)
  OBVIOUS
<1> HIDE DEF from
<1>4. m \in Works /\ SortedRange(w.a, m.a, from, to)
  BY <1>1, <1>3, MergeSorts
<1>5. m.over = w.over
  BY <1>1, <1>2, RoomForMerge
<1> QED
  BY <1>4, <1>5 DEF from

\* sort_bucket sorts the rest and merges it with the prefix.
LEMMA BucketSorts ==
    ASSUME Sound,
           NEW w, w = sort(Work(bucket, buffer(Len(bucket) - sorted, sorted), FALSE), sorted, Len(bucket)),
           NEW m, m = merge(w, 0, sorted, Len(bucket))
    PROVE  m \in Works /\ m.over = FALSE /\ SortedRange(bucket, m.a, 0, Len(bucket))
<1> DEFINE to == Len(bucket)
           room == buffer(to - sorted, sorted)
           v == Work(bucket, room, FALSE)
           c == Call(v, sorted, to)
<1>1. outcome \in Outcomes /\ bucket \in Seq(Slot) /\ to \in Nat /\ sorted \in Nat /\ sorted <= to
  BY DEF Sound, TypeOK
<1>2. w = sort(v, sorted, to) /\ m = merge(w, 0, sorted, to)
  OBVIOUS
<1>3. room \in Nat /\ to - sorted <= room /\ sorted <= room
  <2> HIDE DEF to
  <2> QED
    BY <1>1 DEF buffer, larger
<1> HIDE DEF to, room
<1>4. v \in Works /\ v.a = bucket /\ v.room = room /\ v.over = FALSE
  BY <1>1, <1>3 DEF Work, Works
<1>5. c.w = v /\ c.from = sorted /\ c.to = to
  BY DEF Call
<1> HIDE DEF v
<1>6. Promised(c, w)
  <2>1. to <= Len(v.a)
    BY <1>1, <1>4 DEF to
  <2> QED
    BY <1>1, <1>2, <1>4, <2>1, SortSorts
<1> HIDE DEF c
<1>7. /\ w \in Works /\ Len(w.a) = Len(bucket) /\ w.room = room
      /\ to - sorted <= 2 * room => w.over = FALSE
      /\ Distinct(bucket) => SortedRange(bucket, w.a, sorted, to)
  BY <1>4, <1>5, <1>6 DEF Promised
<1>8. w.over = FALSE
  <2>1. to - sorted <= 2 * room
    BY <1>1, <1>3
  <2> QED
    BY <1>7, <2>1
<1>9. Distinct(bucket)
  BY DEF Sound
<1>10. SortedRange(bucket, w.a, sorted, to)
  BY <1>7, <1>9
<1>11. /\ Rearranged(bucket, w.a, sorted, to) /\ Distinct(w.a)
       /\ IsOrder => Ascending(w.a, sorted, to)
  BY <1>10 DEF SortedRange
<1>12. IsOrder => Ascending(w.a, 0, sorted)
  <2>1. \A p \in 1 .. sorted : w.a[p] = bucket[p]
    <3>1. \A p \in 1 .. Len(bucket) : p <= sorted \/ p > to => w.a[p] = bucket[p]
      BY <1>11 DEF Rearranged
    <3>2. \A p \in 1 .. sorted : p \in 1 .. Len(bucket) /\ p <= sorted
      BY <1>1 DEF to
    <3> QED
      BY <3>1, <3>2
  <2>2. IsOrder => \A p, q \in 1 .. sorted : p < q => slot_compare(bucket[p], bucket[q]) < 0
    BY DEF Sound, PrefixExact
  <2>3. 0 + 1 = 1
    OBVIOUS
  <2> QED
    BY <2>1, <2>2, <2>3 DEF Ascending
<1>13. m \in Works /\ m.over = w.over /\ SortedRange(w.a, m.a, 0, to)
  <2> DEFINE length == Len(w.a)
             room2 == w.room
  <2>1. length = to /\ room2 = room
    BY <1>7 DEF to
  <2> HIDE DEF length, room2
  <2>2. to <= length /\ sorted <= room2
    BY <1>1, <1>3, <2>1
  <2>3. to <= Len(w.a) /\ sorted <= w.room
    BY <2>2 DEF length, room2
  <2> QED
    BY <1>1, <1>2, <1>7, <1>11, <1>12, <2>3, PrefixMerges
<1>14. Rearranged(bucket, m.a, 0, to)
  <2>1. Rearranged(bucket, w.a, 0, to)
    <3>1. 0 \in Nat /\ 0 <= sorted /\ to <= to /\ to <= Len(bucket)
      BY <1>1 DEF to
    <3> QED
      BY <1>1, <1>11, <3>1, RearrangedPart
  <2>2. Rearranged(w.a, m.a, 0, to)
    BY <1>13 DEF SortedRange
  <2> QED
    BY <1>1, <2>1, <2>2, RearrangedTwice
<1> QED
  BY <1>8, <1>13, <1>14 DEF SortedRange, to

\* A slot leaves the bucket.
LEMMA OneLess ==
    ASSUME NEW a \in Seq(Slot), NEW p \in 1 .. Len(a),
           NEW b, b = SubSeq(a, 1, p - 1) \o SubSeq(a, p + 1, Len(a))
    PROVE  /\ b \in Seq(Slot) /\ Len(b) = Len(a) - 1
           /\ \A q \in 1 .. Len(b) : b[q] = IF q < p THEN a[q] ELSE a[q + 1]
<1> DEFINE n == Len(a)
<1>1. n \in Nat /\ p \in Nat /\ 1 <= p /\ p <= n /\ \A q \in 1 .. n : a[q] \in Slot
  OBVIOUS
<1>2. /\ SubSeq(a, 1, p - 1) \in Seq(Slot) /\ Len(SubSeq(a, 1, p - 1)) = p - 1
      /\ \A q \in 1 .. p - 1 : SubSeq(a, 1, p - 1)[q] = a[q]
  BY <1>1, Cut
<1>3. /\ SubSeq(a, p + 1, n) \in Seq(Slot) /\ Len(SubSeq(a, p + 1, n)) = n - p
      /\ \A q \in 1 .. n - p : SubSeq(a, p + 1, n)[q] = a[q + p]
  BY <1>1, Cut
<1> DEFINE x == SubSeq(a, 1, p - 1)
           y == SubSeq(a, p + 1, n)
<1>4. b = x \o y
  OBVIOUS
<1> HIDE DEF x, y
<1>5. x \in Seq(Slot) /\ Len(x) = p - 1 /\ \A q \in 1 .. p - 1 : x[q] = a[q]
  BY <1>2 DEF x
<1>6. y \in Seq(Slot) /\ Len(y) = n - p /\ \A q \in 1 .. n - p : y[q] = a[q + p]
  BY <1>3 DEF y
<1> HIDE DEF n
<1>7. /\ b \in Seq(Slot) /\ Len(b) = n - 1
      /\ \A q \in 1 .. n - 1 : b[q] = IF q <= p - 1 THEN x[q] ELSE y[q - (p - 1)]
  <2>1. /\ x \o y \in Seq(Slot) /\ Len(x \o y) = Len(x) + Len(y)
        /\ \A q \in 1 .. Len(x) + Len(y) :
              (x \o y)[q] = IF q <= Len(x) THEN x[q] ELSE y[q - Len(x)]
    BY <1>5, <1>6, Concatenation
  <2>2. Len(x) + Len(y) = n - 1
    BY <1>1, <1>5, <1>6
  <2> QED
    BY <1>4, <1>5, <2>1, <2>2
<1>8. ASSUME NEW q \in 1 .. n - 1
      PROVE  b[q] = IF q < p THEN a[q] ELSE a[q + 1]
  <2>1. CASE q < p
    <3>1. q \in 1 .. p - 1 /\ q <= p - 1
      BY <1>1, <2>1
    <3> QED
      BY <1>5, <1>7, <2>1, <3>1
  <2>2. CASE ~ (q < p)
    <3>1. ~ (q <= p - 1) /\ q - (p - 1) \in 1 .. n - p /\ (q - (p - 1)) + p = q + 1
      BY <1>1, <2>2
    <3>2. b[q] = y[q - (p - 1)]
      BY <1>7, <3>1
    <3>3. y[q - (p - 1)] = a[(q - (p - 1)) + p]
      BY <1>6, <3>1
    <3> QED
      BY <2>2, <3>1, <3>2, <3>3
  <2> QED
    BY <2>1, <2>2
<1> QED
  BY <1>1, <1>7, <1>8 DEF n

LEMMA SoundInit == Init => Sound
<1> SUFFICES ASSUME Init PROVE Sound
  OBVIOUS
<1>1. outcome \in Outcomes /\ bucket = << >> /\ sorted = 0 /\ spilled = FALSE
  BY DEF Init
<1>2. bucket \in Seq(Slot) /\ Len(bucket) = 0
  BY <1>1
<1>3. TypeOK /\ BufferSuffices
  <2>1. sorted \in 0 .. Len(bucket)
    BY <1>1, <1>2
  <2>2. spilled \in BOOLEAN /\ ~ spilled
    BY <1>1
  <2> QED
    BY <1>1, <1>2, <2>1, <2>2 DEF TypeOK, BufferSuffices
<1>4. \A p \in 1 .. Len(bucket) : FALSE
  BY <1>2
<1>5. \A p \in 1 .. sorted : FALSE
  BY <1>1
<1>6. Distinct(bucket)
  BY <1>4 DEF Distinct
<1>7. PrefixExact
  BY <1>5 DEF PrefixExact
<1> QED
  BY <1>3, <1>6, <1>7 DEF Sound

\* The order is that of the sort key, which does not change.
LEMMA PrefixNext ==
    ASSUME outcome' = outcome,
           IsOrder => \A p, q \in 1 .. sorted' : p < q => slot_compare(bucket'[p], bucket'[q]) < 0
    PROVE  PrefixExact'
BY DEF PrefixExact, IsOrder, slot_compare

LEMMA SoundPlace ==
    ASSUME Sound, NEW x \in Slot \ Placed, place(x)
    PROVE  Sound'
<1>1. /\ outcome \in Outcomes /\ bucket \in Seq(Slot) /\ sorted \in 0 .. Len(bucket)
      /\ spilled \in BOOLEAN /\ ~ spilled /\ Distinct(bucket) /\ PrefixExact
  BY DEF Sound, TypeOK, BufferSuffices
<1>2. bucket' = Append(bucket, x) /\ outcome' = outcome /\ sorted' = sorted /\ spilled' = spilled
  BY DEF place
<1> DEFINE n == Len(bucket)
<1>3. /\ bucket' \in Seq(Slot) /\ Len(bucket') = n + 1 /\ bucket'[n + 1] = x
      /\ \A p \in 1 .. n : bucket'[p] = bucket[p]
  BY <1>1, <1>2
<1>4. n \in Nat /\ sorted \in Nat /\ sorted <= n
  BY <1>1
<1>5. \A p \in 1 .. n : bucket[p] # x
  BY DEF Placed
<1> HIDE DEF n
<1>6. TypeOK'
  BY <1>1, <1>2, <1>3, <1>4 DEF TypeOK
<1>7. Distinct(bucket)'
  <2>1. \A p, q \in 1 .. n : p # q => bucket[p] # bucket[q]
    BY <1>1 DEF Distinct, n
  <2>2. ASSUME NEW p \in 1 .. n + 1, NEW q \in 1 .. n + 1, p # q
        PROVE  bucket'[p] # bucket'[q]
    <3>1. p \in 1 .. n \/ p = n + 1
      BY <1>4
    <3>2. q \in 1 .. n \/ q = n + 1
      BY <1>4
    <3> QED
      BY <1>3, <1>5, <2>1, <2>2, <3>1, <3>2
  <2> QED
    BY <1>3, <2>2 DEF Distinct
<1>8. PrefixExact'
  <2>1. \A p \in 1 .. sorted : bucket'[p] = bucket[p]
    BY <1>3, <1>4
  <2>2. IsOrder => \A p, q \in 1 .. sorted' : p < q => slot_compare(bucket'[p], bucket'[q]) < 0
    BY <1>1, <1>2, <2>1 DEF PrefixExact
  <2> QED
    BY <1>2, <2>2, PrefixNext
<1> QED
  BY <1>1, <1>2, <1>6, <1>7, <1>8 DEF Sound, BufferSuffices

LEMMA SoundLeave ==
    ASSUME Sound, NEW p \in DOMAIN bucket, leave(p)
    PROVE  Sound' /\ Len(bucket') # Len(bucket)
<1>1. /\ outcome \in Outcomes /\ bucket \in Seq(Slot) /\ sorted \in 0 .. Len(bucket)
      /\ spilled \in BOOLEAN /\ ~ spilled /\ Distinct(bucket) /\ PrefixExact
  BY DEF Sound, TypeOK, BufferSuffices
<1>2. /\ bucket' = SubSeq(bucket, 1, p - 1) \o SubSeq(bucket, p + 1, Len(bucket))
      /\ sorted' = IF p <= sorted THEN sorted - 1 ELSE sorted
      /\ outcome' = outcome /\ spilled' = spilled
  BY DEF leave
<1> DEFINE n == Len(bucket)
           from(q) == IF q < p THEN q ELSE q + 1
<1>3. p \in 1 .. Len(bucket) /\ n \in Nat /\ p \in Nat /\ 1 <= p /\ p <= n
      /\ sorted \in Nat /\ sorted <= n
  BY <1>1
<1>4. /\ bucket' \in Seq(Slot) /\ Len(bucket') = n - 1
      /\ \A q \in 1 .. Len(bucket') : bucket'[q] = IF q < p THEN bucket[q] ELSE bucket[q + 1]
  BY <1>1, <1>2, <1>3, OneLess
<1> HIDE DEF n
<1>5. \A q \in 1 .. n - 1 : bucket'[q] = bucket[from(q)]
  BY <1>4
<1>6. /\ \A q \in 1 .. n - 1 : from(q) \in 1 .. n
      /\ \A q, r \in 1 .. n - 1 : q < r => from(q) < from(r)
  BY <1>3
<1>7. sorted' \in 0 .. n - 1
      /\ \A q \in 1 .. sorted' : q \in 1 .. n - 1 /\ from(q) \in 1 .. sorted
  BY <1>2, <1>3
<1> HIDE DEF from
<1>8. TypeOK'
  BY <1>1, <1>2, <1>4, <1>7 DEF TypeOK
<1>9. Distinct(bucket)'
  <2>1. \A q, r \in 1 .. n : q # r => bucket[q] # bucket[r]
    BY <1>1 DEF Distinct, n
  <2>2. ASSUME NEW q \in 1 .. n - 1, NEW r \in 1 .. n - 1, q # r
        PROVE  bucket'[q] # bucket'[r]
    <3>1. from(q) \in 1 .. n /\ from(r) \in 1 .. n
      BY <1>6
    <3>2. q < r \/ r < q
      BY <1>3, <2>2
    <3>3. from(q) < from(r) \/ from(r) < from(q)
      BY <1>6, <3>2
    <3>4. from(q) # from(r)
      BY <3>1, <3>3
    <3> QED
      BY <1>5, <2>1, <3>1, <3>4
  <2> QED
    BY <1>4, <2>2 DEF Distinct
<1>10. PrefixExact'
  <2>1. ASSUME IsOrder, NEW q \in 1 .. sorted', NEW r \in 1 .. sorted', q < r
        PROVE  slot_compare(bucket'[q], bucket'[r]) < 0
    <3>1. /\ from(q) \in 1 .. sorted /\ from(r) \in 1 .. sorted /\ from(q) < from(r)
          /\ bucket'[q] = bucket[from(q)] /\ bucket'[r] = bucket[from(r)]
      BY <1>5, <1>6, <1>7, <2>1
    <3> QED
      BY <1>1, <2>1, <3>1 DEF PrefixExact
  <2> QED
    BY <1>2, <2>1, PrefixNext
<1>11. Len(bucket') # Len(bucket)
  BY <1>3, <1>4 DEF n
<1> QED
  BY <1>1, <1>2, <1>8, <1>9, <1>10, <1>11 DEF Sound, BufferSuffices

LEMMA SoundSort ==
    ASSUME Sound, sort_bucket, sorted # Len(bucket)
    PROVE  /\ Sound'
           /\ {bucket'[p] : p \in DOMAIN bucket'} = Placed
<1> DEFINE to == Len(bucket)
           w == sort(Work(bucket, buffer(to - sorted, sorted), FALSE), sorted, to)
           m == merge(w, 0, sorted, to)
<1>1. /\ outcome \in Outcomes /\ bucket \in Seq(Slot) /\ to \in Nat
      /\ spilled \in BOOLEAN /\ ~ spilled
  BY DEF Sound, TypeOK, BufferSuffices
<1>2. m \in Works /\ m.over = FALSE /\ SortedRange(bucket, m.a, 0, to)
  BY BucketSorts
<1>3. bucket' = m.a /\ sorted' = to /\ spilled' = (spilled \/ m.over) /\ outcome' = outcome
  BY DEF sort_bucket
<1> HIDE DEF m
<1>4. SortedRange(bucket, bucket', 0, to)
  BY <1>2, <1>3
<1>5. /\ Rearranged(bucket, bucket', 0, to) /\ Distinct(bucket')
      /\ IsOrder => Ascending(bucket', 0, to)
  BY <1>4 DEF SortedRange
<1>6. bucket' \in Seq(Slot) /\ Len(bucket') = to
  BY <1>5 DEF Rearranged
<1>7. spilled' = FALSE
  BY <1>1, <1>2, <1>3
<1>8. TypeOK'
  BY <1>1, <1>3, <1>6, <1>7 DEF TypeOK
<1>9. Distinct(bucket)'
  BY <1>5 DEF Distinct
<1>10. PrefixExact'
  <2>1. IsOrder => \A p, q \in 1 .. sorted' : p < q => slot_compare(bucket'[p], bucket'[q]) < 0
    BY <1>3, <1>5 DEF Ascending
  <2> QED
    BY <1>3, <2>1, PrefixNext
<1>11. {bucket'[p] : p \in DOMAIN bucket'} = Placed
  <2>1. DOMAIN bucket' = 1 .. to /\ DOMAIN bucket = 1 .. to
    BY <1>1, <1>6
  <2>2. /\ \A p \in 1 .. to : \E q \in 1 .. to : bucket'[p] = bucket[q]
        /\ \A q \in 1 .. to : \E p \in 1 .. to : bucket'[p] = bucket[q]
    BY <1>5 DEF Rearranged
  <2> HIDE DEF to
  <2>3. {bucket'[p] : p \in 1 .. to} \subseteq {bucket[p] : p \in 1 .. to}
    BY <2>2
  <2>4. {bucket[p] : p \in 1 .. to} \subseteq {bucket'[p] : p \in 1 .. to}
    BY <2>2
  <2> QED
    BY <2>1, <2>3, <2>4 DEF Placed
<1> QED
  BY <1>7, <1>8, <1>9, <1>10, <1>11 DEF Sound, BufferSuffices

LEMMA SoundStep == Sound /\ [Next]_vars => Sound'
<1> SUFFICES ASSUME Sound, [Next]_vars PROVE Sound'
  OBVIOUS
<1>1. ASSUME NEW x \in Slot \ Placed, place(x) PROVE Sound'
  BY <1>1, SoundPlace
<1>2. ASSUME NEW p \in DOMAIN bucket, leave(p) PROVE Sound'
  BY <1>2, SoundLeave
<1>3. CASE UNCHANGED vars
  <2>1. outcome' = outcome /\ bucket' = bucket /\ sorted' = sorted /\ spilled' = spilled
    BY <1>3 DEF vars
  <2> QED
    BY <2>1 DEF Sound, TypeOK, Distinct, PrefixExact, BufferSuffices, IsOrder, slot_compare
<1>4. CASE sort_bucket
  <2>1. CASE sorted = Len(bucket)
    <3>1. UNCHANGED vars
      BY <1>4, <2>1 DEF sort_bucket
    <3> QED
      BY <1>3, <3>1
  <2>2. CASE sorted # Len(bucket)
    BY <1>4, <2>2, SoundSort
  <2> QED
    BY <2>1, <2>2
<1> QED
  BY <1>1, <1>2, <1>3, <1>4 DEF Next

LEMMA SoundAlways == Spec => []Sound
<1> QED
  BY SoundInit, SoundStep, PTL DEF Spec

\* The prefix is always a part of the bucket.
THEOREM SorterTypes == Spec => []TypeOK
<1>1. Sound => TypeOK
  BY DEF Sound
<1> QED
  BY <1>1, SoundAlways, PTL

\* The trusted prefix of a bucket is in exact order, ties in insertion order,
\* whatever joined and left the bucket between the sorts.
THEOREM PrefixStaysExact == Spec => []PrefixExact
<1>1. Sound => PrefixExact
  BY DEF Sound
<1> QED
  BY <1>1, SoundAlways, PTL

\* One buffer of the larger of prefix and rest is enough for every merge, whose
\* left half alone is copied out of the way.
THEOREM BufferStaysSufficient == Spec => []BufferSuffices
<1>1. Sound => BufferSuffices
  BY DEF Sound
<1> QED
  BY <1>1, SoundAlways, PTL

\* Sorting keeps every slot exactly once, also when the comparator is no order.
THEOREM SortingLosesNothing == Spec => NothingLost
<1> DEFINE A == sorted' # sorted /\ Len(bucket') = Len(bucket) =>
                    {bucket'[p] : p \in DOMAIN bucket'} = Placed
<1>1. Sound /\ [Next]_vars => [A]_vars
  <2> SUFFICES ASSUME Sound, Next, sorted' # sorted, Len(bucket') = Len(bucket)
               PROVE  {bucket'[p] : p \in DOMAIN bucket'} = Placed
    BY DEF vars
  <2>1. ASSUME NEW x \in Slot \ Placed, place(x) PROVE FALSE
    BY <2>1 DEF place
  <2>2. ASSUME NEW p \in DOMAIN bucket, leave(p) PROVE FALSE
    BY <2>2, SoundLeave
  <2>3. CASE sort_bucket
    <3>1. sorted # Len(bucket)
      BY <2>3 DEF sort_bucket, vars
    <3> QED
      BY <2>3, <3>1, SoundSort
  <2> QED
    BY <2>1, <2>2, <2>3 DEF Next
<1> QED
  BY <1>1, SoundAlways, PTL DEF Spec, NothingLost

=============================================================================
