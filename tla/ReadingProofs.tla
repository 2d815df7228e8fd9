---------------------------- MODULE ReadingProofs ----------------------------
(***************************************************************************)
(* What the reads of BucketIndex return.  A read makes the grouping of the *)
(* active sort key current and sorts the buckets it shows; the grouping    *)
(* then is an arrangement of all slots, and the positions of both          *)
(* directions and the visits of for_each run through it once.              *)
(* And what a read trusts: the sorted prefix of every bucket is in order,  *)
(* because no operation between two reads puts it out of order unnoticed.  *)
(***************************************************************************)
EXTENDS BucketIndexProofs

-----------------------------------------------------------------------------
(* The state a read uses                                                   *)

\* A KeyState whose grouping may be trusted.
Readable(st) ==
    /\ Ready(st, items, val) /\ GroupedIn(st)
    /\ st.has_order = TRUE /\ st.order_stale = FALSE

\* Sorting buckets leaves it readable.
LEMMA SortedReadable ==
    ASSUME NEW st, Readable(st), NEW bs,
           Touched(st, sort_buckets(st, bs, items, val), items, val, plan), IsPlan(plan)
    PROVE  /\ Readable(sort_buckets(st, bs, items, val))
           /\ SortResult(sort_buckets(st, bs, items, val), st, bs, items, val)
<1> DEFINE t == sort_buckets(st, bs, items, val)
<1>1. Ready(t, items, val) /\ GroupedIn(t)
  BY TouchedKeepsGrouping DEF Readable
<1>2. DOMAIN st = KeyFields
  BY ReadyTyped DEF Readable, Typed
<1>3. SortResult(t, st, bs, items, val)
  BY <1>2, SortFields
<1> HIDE DEF t
<1>4. t.has_order = TRUE /\ t.order_stale = FALSE
  BY <1>3 DEF SortResult, Readable
<1> QED
  BY <1>1, <1>3, <1>4 DEF Readable, t

\* prepare makes the active state readable.
LEMMA PreparedReadable ==
    ASSUME IInv, Books, Groupings, active # npos
    PROVE  LET st == prepare(states[active], items, val, plan)
           IN  /\ Readable(st)
               /\ \A bs : /\ Readable(sort_buckets(st, bs, items, val))
                          /\ SortResult(sort_buckets(st, bs, items, val), st, bs, items, val)
<1> DEFINE s == states[active]
           s1 == maybe_auto_rebalance(s, items, val, plan)
           st == prepare(s, items, val, plan)
<1>1. active \in DOMAIN states /\ items \in Seq(Handle) /\ plan \in Plan
  BY DEF IInv, Collection
<1>2. Ready(states[active], items, val) /\ GroupedIn(states[active])
  BY <1>1 DEF IInv, Books, BooksIn, Groupings, Ready
<1>3. IsPlan(plan)
  BY <1>1, BucketIndexAssumption
<1>4. Consistent(s, items, val)
  BY <1>2 DEF Ready
<1> HIDE DEF s
<1>5. /\ Touched(s, s1, items, val, plan)
      /\ Touched(s1, st, items, val, plan) /\ st.has_order /\ ~ st.order_stale
      /\ \A bs : Touched(st, sort_buckets(st, bs, items, val), items, val, plan)
  BY <1>1, <1>4, ReadStages
<1> HIDE DEF s1, st
<1>6. Ready(s1, items, val) /\ GroupedIn(s1)
  BY <1>2, <1>3, <1>5, TouchedKeepsGrouping DEF s
<1>7. Ready(st, items, val) /\ GroupedIn(st)
  BY <1>3, <1>5, <1>6, TouchedKeepsGrouping
<1>8. st.has_order \in BOOLEAN /\ st.order_stale \in BOOLEAN
  BY <1>7, ReadyTyped DEF Typed
<1>9. Readable(st)
  BY <1>5, <1>7, <1>8 DEF Readable
<1>10. \A bs : /\ Readable(sort_buckets(st, bs, items, val))
               /\ SortResult(sort_buckets(st, bs, items, val), st, bs, items, val)
  BY <1>3, <1>5, <1>9, SortedReadable
<1> QED
  BY <1>9, <1>10 DEF st, s

\* Its order is an arrangement of all slots by their buckets.
LEMMA ReadableArranged ==
    ASSUME NEW st, Readable(st)
    PROVE  /\ Arranged(st.order, st.start, bucket_total(st), 1 .. Len(items), st.buckets)
           /\ Typed(st, bucket_total(st), Len(items))
  BY CurrentGrouping, ReadyTyped DEF Readable

\* A list of 1 .. n once each is a permutation of it.
LEMMA ListsWhole ==
    ASSUME NEW n \in Nat, NEW q, Lists(q, 1 .. n)
    PROVE  /\ Len(q) = n /\ DOMAIN q = 1 .. n /\ q = [i \in 1 .. n |-> q[i]]
           /\ \A i \in 1 .. n : q[i] \in 1 .. n
           /\ \A x \in 1 .. n : \E i \in 1 .. n : q[i] = x
<1> DEFINE U == 1 .. n
<1>1. Len(q) = n
  <2>1. Cardinality(1 .. n) = Len(q)
    BY ListsCount
  <2> QED
    BY <2>1, CountUpTo
<1>2. Lists(q, U)
  OBVIOUS
<1> HIDE DEF U
<1>3. q \in [1 .. Len(q) -> U] /\ \A x \in U : \E i \in 1 .. Len(q) : q[i] = x
  BY <1>2 DEF Lists
<1> QED
  BY <1>1, <1>3 DEF U

\* Slots listed once give the elements of the collection once.
LEMMA AllReturned ==
    ASSUME Collection(items, val), NEW q, Lists(q, 1 .. Len(items)),
           NEW out, out = [i \in DOMAIN q |-> items[q[i]]]
    PROVE  Len(out) = Len(items) /\ ToSet(out) = ToSet(items)
<1> DEFINE n == Len(items)
<1>1. n \in Nat /\ DOMAIN items = 1 .. n
  BY DEF Collection
<1> HIDE DEF n
<1>2. /\ DOMAIN q = 1 .. n /\ \A i \in 1 .. n : q[i] \in 1 .. n
      /\ \A x \in 1 .. n : \E i \in 1 .. n : q[i] = x
  BY <1>1, ListsWhole DEF n
<1>3. out = [i \in 1 .. n |-> items[q[i]]]
  BY <1>2
<1>4. Len(out) = n
  BY <1>1, <1>3
<1>5. ToSet(out) = {items[q[i]] : i \in 1 .. n}
  BY <1>3 DEF ToSet
<1>6. ToSet(items) = {items[x] : x \in 1 .. n}
  BY <1>1 DEF ToSet
<1>7. {items[q[i]] : i \in 1 .. n} = {items[x] : x \in 1 .. n}
  BY <1>2
<1> QED
  BY <1>4, <1>5, <1>6, <1>7 DEF n
-----------------------------------------------------------------------------
(* for_each                                                                *)

\* The other way round every element is listed once, too.
LEMMA ListsReversed ==
    ASSUME NEW q, NEW U, Lists(q, U)
    PROVE  Lists(Reverse(q), U)
<1> DEFINE n == Len(q)
           r == Reverse(q)
<1>1. /\ n \in Nat /\ \A i \in 1 .. n : q[i] \in U
      /\ \A i, j \in 1 .. n : q[i] = q[j] => i = j
      /\ \A x \in U : \E i \in 1 .. n : q[i] = x
  BY DEF Lists
<1>2. r = [i \in 1 .. n |-> q[(n - i) + 1]]
  BY DEF Reverse
<1> HIDE DEF n, r
<1>3. \A i \in 1 .. n : (n - i) + 1 \in 1 .. n /\ r[i] = q[(n - i) + 1] /\ r[i] \in U
  BY <1>1, <1>2
<1>4. r \in Seq(U) /\ Len(r) = n
  <2>1. r \in [1 .. n -> U]
    BY <1>2, <1>3
  <2> QED
    BY <1>1, <2>1
<1>5. ASSUME NEW i \in 1 .. n, NEW j \in 1 .. n, r[i] = r[j]
      PROVE  i = j
  <2>1. (n - i) + 1 = (n - j) + 1
    BY <1>1, <1>3, <1>5
  <2> QED
    BY <1>1, <2>1
<1>6. ASSUME NEW x \in U
      PROVE  \E i \in 1 .. n : r[i] = x
  <2>1. PICK i \in 1 .. n : q[i] = x
    BY <1>1
  <2>2. (n - i) + 1 \in 1 .. n /\ (n - ((n - i) + 1)) + 1 = i
    BY <1>1
  <2>3. r[(n - i) + 1] = q[(n - ((n - i) + 1)) + 1]
    BY <1>3, <2>2
  <2> QED
    BY <2>1, <2>2, <2>3
<1> QED
  BY <1>4, <1>5, <1>6 DEF Lists, r

\* The groups share the buckets of an arrangement between them: off[g] buckets
\* come before those of group g.
Shared(off, c, k) == Ladder(off, c) /\ off[c + 1] = k

\* The slots in the buckets of group g.
GroupSlots(off, n, bs, g) == {x \in 1 .. n : bs[x] \in off[g] + 1 .. off[g + 1]}

\* What for_each visits of group g in descending order.
Downward(st, off, g) ==
    joined([i \in 1 .. off[g + 1] - off[g] |-> Reverse(grouped(st, off[g + 1] + 1 - i))])

\* That is every slot of the group once.
LEMMA DownwardLists ==
    ASSUME NEW st, NEW k \in Nat, NEW n \in Nat, NEW bs,
           Arranged(st.order, st.start, k, 1 .. n, bs),
           NEW c \in Nat, NEW off, Shared(off, c, k), NEW g \in 1 .. c
    PROVE  Lists(Downward(st, off, g), GroupSlots(off, n, bs, g))
<1> DEFINE lo == off[g]
           hi == off[g + 1]
           w == hi - lo
           U == GroupSlots(off, n, bs, g)
           d == [x \in 1 .. n |-> hi + 1 - bs[x]]
           parts == [i \in 1 .. w |-> Reverse(grouped(st, hi + 1 - i))]
<1>1. lo \in Nat /\ hi \in Nat /\ lo <= hi /\ hi <= k
  BY LadderBounds DEF Shared
<1>2. U = {x \in 1 .. n : bs[x] \in lo + 1 .. hi}
  BY DEF GroupSlots
<1> HIDE DEF lo, hi, U
<1>3. w \in Nat
  BY <1>1
<1>4. \A x \in U : d[x] \in 1 .. w
  BY <1>1, <1>2
<1>5. ASSUME NEW i \in 1 .. w
      PROVE  Lists(parts[i], Class(U, d, i))
  <2> DEFINE b == hi + 1 - i
  <2>1. b \in 1 .. k /\ b \in lo + 1 .. hi
    BY <1>1
  <2>2. Class(U, d, i) = Class(1 .. n, bs, b)
    <3>1. ASSUME NEW x \in 1 .. n
          PROVE  (x \in U /\ d[x] = i) <=> bs[x] = b
      <4>1. CASE x \in U
        BY <1>1, <1>2, <4>1
      <4>2. CASE x \notin U
        BY <1>2, <2>1, <4>2
      <4> QED
        BY <4>1, <4>2
    <3>2. U \subseteq 1 .. n
      BY <1>2
    <3> HIDE DEF d, b
    <3> QED
      BY <3>1, <3>2 DEF Class
  <2>3. Lists(grouped(st, b), Class(1 .. n, bs, b))
    <3> DEFINE r == st.order
               z == st.start
               V == 1 .. n
    <3>1. Arranged(r, z, k, V, bs) /\ grouped(st, b) = segment(r, z, b)
      BY DEF grouped, segment
    <3> HIDE DEF r, z, V, b
    <3>2. Lists(segment(r, z, b), Class(V, bs, b))
      BY <2>1, <3>1, SegmentLists
    <3> QED
      BY <3>1, <3>2 DEF V
  <2>4. parts[i] = Reverse(grouped(st, b))
    OBVIOUS
  <2> HIDE DEF b, parts, d
  <2> QED
    BY <2>2, <2>3, <2>4, ListsReversed
<1>6. Len(parts) = w
  BY <1>3
<1>7. Downward(st, off, g) = joined(parts)
  BY DEF Downward, lo, hi
<1> HIDE DEF parts, d, w
<1>8. Arranged(joined(parts), prefix_sums(lengths(parts, w)), w, U, d)
  BY <1>3, <1>4, <1>5, <1>6, JoinedArranged
<1> QED
  BY <1>7, <1>8 DEF Arranged, U

\* The groups of a readable state share its buckets.
LEMMA GroupsShare ==
    ASSUME NEW st, Readable(st)
    PROVE  /\ Len(st.layouts) \in Nat \ {0} /\ DOMAIN st.layouts = 1 .. Len(st.layouts)
           /\ Shared(group_offset(st), Len(st.layouts), bucket_total(st))
<1> DEFINE c == GroupCount[st.name]
           off == group_offset(st)
<1>1. /\ st.name \in Name /\ DOMAIN st.layouts = 1 .. c
      /\ LayoutsIn(st)
  BY DEF Readable, Ready, Consistent, KeyStateOK
<1>2. GroupCount \in [Name -> Nat \ {0}]
  BY SortKeyAssumption
<1>3. c \in Nat \ {0}
  BY <1>1, <1>2
<1> HIDE DEF c, off
<1>4. Len(st.layouts) = c
  BY <1>1, <1>3
<1>5. /\ Offsets(off, c, shares(st)) /\ \A g \in 1 .. c : shares(st)[g] \in Nat
      /\ bucket_total(st) = off[c + 1]
  BY <1>1, <1>3, IdsOfGroups DEF off
<1>6. Ladder(off, c)
  BY <1>3, <1>5, OffsetsLadder
<1> QED
  BY <1>1, <1>3, <1>4, <1>5, <1>6 DEF Shared, off

\* A position is in one segment only.
LEMMA SegmentUnique ==
    ASSUME NEW k \in Nat, NEW off, Ladder(off, k), NEW a \in 1 .. k, NEW b \in 1 .. k,
           NEW p, p \in off[a] + 1 .. off[a + 1], p \in off[b] + 1 .. off[b + 1]
    PROVE  a = b
<1>1. first_above(Len(off), {i \in DOMAIN off : off[i] >= p}) = a
  BY SegmentFound
<1>2. first_above(Len(off), {i \in DOMAIN off : off[i] >= p}) = b
  BY SegmentFound
<1> QED
  BY <1>1, <1>2

\* for_each visits every slot once, in either direction.
LEMMA VisitedLists ==
    ASSUME NEW st, Readable(st), NEW dir
    PROVE  Lists(visited(st, dir), 1 .. Len(items))
<1> DEFINE n == Len(items)
           k == bucket_total(st)
           V == 1 .. n
           bs == st.buckets
           c == Len(st.layouts)
           off == group_offset(st)
<1>1. /\ Arranged(st.order, st.start, k, V, bs) /\ k \in Nat /\ n \in Nat
      /\ \A x \in V : bs[x] \in 1 .. k
  BY ReadableArranged DEF Typed
<1>2. c \in Nat \ {0} /\ DOMAIN st.layouts = 1 .. c /\ Shared(off, c, k)
  BY GroupsShare
<1>3. CASE dir = "ascending"
  <2> DEFINE parts == [b \in 1 .. k |-> grouped(st, b)]
  <2>1. visited(st, dir) = joined(parts)
    BY <1>3 DEF visited
  <2> HIDE DEF k, V, bs
  <2>2. ASSUME NEW b \in 1 .. k
        PROVE  Lists(parts[b], Class(V, bs, b))
    <3> DEFINE r == st.order
               z == st.start
    <3>1. Arranged(r, z, k, V, bs) /\ parts[b] = segment(r, z, b)
      BY <1>1 DEF grouped, segment
    <3> HIDE DEF r, z, parts
    <3>2. Lists(segment(r, z, b), Class(V, bs, b))
      BY <1>1, <3>1, SegmentLists
    <3> QED
      BY <3>1, <3>2
  <2>3. Len(parts) = k
    BY <1>1
  <2> HIDE DEF parts
  <2>4. Arranged(joined(parts), prefix_sums(lengths(parts, k)), k, V, bs)
    BY <1>1, <2>2, <2>3, JoinedArranged
  <2> QED
    BY <2>1, <2>4 DEF Arranged, V
<1>4. CASE dir # "ascending"
  <2> DEFINE parts == [g \in 1 .. c |-> Downward(st, off, g)]
             d == [x \in V |-> CHOOSE g \in 1 .. c : bs[x] \in off[g] + 1 .. off[g + 1]]
  <2>1. visited(st, dir) = joined(parts)
    BY <1>2, <1>4 DEF visited, Downward
  <2> HIDE DEF k, n, bs, c, off
  <2>2. ASSUME NEW g \in 1 .. c
        PROVE  Lists(parts[g], GroupSlots(off, n, bs, g))
    <3>1. Arranged(st.order, st.start, k, 1 .. n, bs)
      BY <1>1
    <3>2. Lists(Downward(st, off, g), GroupSlots(off, n, bs, g))
      BY <1>1, <1>2, <3>1, DownwardLists DEF bs
    <3> QED
      BY <3>2
  <2>3. ASSUME NEW x \in V
        PROVE  d[x] \in 1 .. c /\ bs[x] \in off[d[x]] + 1 .. off[d[x] + 1]
    <3>1. \E g \in 1 .. c : bs[x] \in off[g] + 1 .. off[g + 1]
      BY <1>1, <1>2, LadderSegment DEF Shared
    <3> QED
      BY <3>1
  <2>4. \A x \in V : \A g \in 1 .. c : bs[x] \in off[g] + 1 .. off[g + 1] => d[x] = g
    <3> HIDE DEF d
    <3> QED
      BY <1>2, <2>3, SegmentUnique DEF Shared
  <2>5. ASSUME NEW g \in 1 .. c
        PROVE  Class(V, d, g) = GroupSlots(off, n, bs, g)
    <3> HIDE DEF d
    <3> QED
      BY <2>3, <2>4 DEF Class, GroupSlots
  <2>6. Len(parts) = c
    BY <1>2
  <2> HIDE DEF parts, d, V
  <2>7. Arranged(joined(parts), prefix_sums(lengths(parts, c)), c, V, d)
    BY <1>2, <2>2, <2>3, <2>5, <2>6, JoinedArranged
  <2> QED
    BY <2>1, <2>7 DEF Arranged, V, n
<1> QED
  BY <1>3, <1>4
-----------------------------------------------------------------------------
(* range                                                                   *)

\* The boundaries of the groups: group g has the positions between entry g and
\* the next.
group_start(st) ==
    [g \in 1 .. Len(st.layouts) + 1 |-> st.start[group_offset(st)[g] + 1]]

\* They divide the order from its first slot to its last.
LEMMA GroupLadder ==
    ASSUME NEW st, Readable(st)
    PROVE  /\ Ladder(group_start(st), Len(st.layouts))
           /\ group_start(st)[Len(st.layouts) + 1] = Len(items)
<1> DEFINE n == Len(items)
           k == bucket_total(st)
           z == st.start
           c == Len(st.layouts)
           off == group_offset(st)
           F == group_start(st)
<1>1. Ladder(z, k) /\ z[k + 1] = n /\ k \in Nat /\ n \in Nat
  <2>1. /\ Arranged(st.order, st.start, k, 1 .. n, st.buckets) /\ k \in Nat /\ n \in Nat
    BY ReadableArranged DEF Typed
  <2>2. Lists(st.order, 1 .. n) /\ z[k + 1] = Len(st.order) /\ Ladder(z, k)
    BY <2>1 DEF Arranged
  <2> HIDE DEF n, k, z
  <2> QED
    BY <2>1, <2>2, ListsWhole
<1>2. c \in Nat \ {0} /\ Ladder(off, c) /\ off[c + 1] = k
  BY GroupsShare DEF Shared
<1>3. F = [g \in 1 .. c + 1 |-> z[off[g] + 1]]
  BY DEF group_start
<1> HIDE DEF n, k, z, c, off, F
<1>4. off \in Seq(Nat) /\ Len(off) = c + 1 /\ off[1] = 0
  BY <1>2 DEF Ladder, Offsets
<1>5. z \in Seq(Nat) /\ Len(z) = k + 1 /\ z[1] = 0
  BY <1>1 DEF Ladder, Offsets
<1>6. ASSUME NEW g \in 1 .. c
      PROVE  /\ F[g] \in Nat /\ F[g + 1] \in Nat /\ F[g] <= F[g + 1]
  <2>1. /\ off[g] \in Nat /\ off[g + 1] \in Nat /\ off[g] <= off[g + 1] /\ off[g + 1] <= k
    BY <1>2, LadderBounds
  <2>2. off[g] + 1 \in 1 .. k + 1 /\ off[g + 1] + 1 \in off[g] + 1 .. k + 1
    BY <1>1, <2>1
  <2>3. /\ z[off[g] + 1] \in Nat /\ z[off[g + 1] + 1] \in Nat
        /\ z[off[g] + 1] <= z[off[g + 1] + 1]
    <3> DEFINE a == off[g] + 1
               b == off[g + 1] + 1
    <3>1. a \in 1 .. k + 1 /\ b \in a .. k + 1
      BY <2>2
    <3> HIDE DEF a, b
    <3>2. z[a] \in Nat /\ z[b] \in Nat /\ z[a] <= z[b]
      BY <1>1, <3>1, OffsetsGrow DEF Ladder
    <3> QED
      BY <3>2 DEF a, b
  <2>4. F[g] = z[off[g] + 1] /\ F[g + 1] = z[off[g + 1] + 1]
    BY <1>2, <1>3
  <2> QED
    BY <2>3, <2>4
<1>7. F[1] = 0 /\ F[c + 1] = n
  BY <1>1, <1>2, <1>3, <1>4, <1>5
<1>8. F \in Seq(Nat) /\ Len(F) = c + 1
  <2>1. \A g \in 1 .. c + 1 : F[g] \in Nat
    <3>1. ASSUME NEW g \in 1 .. c + 1
          PROVE  g \in 1 .. c \/ g = c + 1
      BY <1>2
    <3> QED
      BY <1>1, <1>6, <1>7, <3>1
  <2>2. F \in [1 .. c + 1 -> Nat]
    BY <1>3, <2>1
  <2>3. c + 1 \in Nat
    BY <1>2
  <2> QED
    BY <2>2, <2>3
<1>9. \A g \in 1 .. c : gaps(F, c)[g] = F[g + 1] - F[g]
  BY DEF gaps
<1>10. \A g \in 1 .. c : F[g + 1] = F[g] + gaps(F, c)[g] /\ gaps(F, c)[g] \in Nat
  BY <1>6, <1>9
<1> QED
  BY <1>7, <1>8, <1>10 DEF Ladder, Offsets, F, c, n

\* The first boundary that is not before a place belongs to the segment behind.
LEMMA GroupFound ==
    ASSUME NEW c \in Nat, NEW F, Ladder(F, c), NEW g \in 1 .. c, NEW p \in F[g] + 1 .. F[g + 1]
    PROVE  first_above(c, {m \in 1 .. c : F[m] >= p}) = g
<1> DEFINE above == {m \in 1 .. c : F[m] >= p}
           f == first_above(c, above)
<1>1. F[g] \in Nat /\ F[g + 1] \in Nat /\ \A i \in 1 .. c : F[i] \in Nat
  BY LadderBounds
<1>2. p \in Nat /\ F[g] < p /\ p <= F[g + 1]
  BY <1>1
<1>3. ASSUME NEW i \in 1 .. c, NEW j \in 1 .. c, i <= j, i \in above
      PROVE  j \in above
  <2>1. i \in 1 .. c + 1 /\ j \in i .. c + 1
    BY <1>3
  <2>2. F[i] \in Nat /\ F[j] \in Nat /\ F[i] <= F[j]
    BY <2>1, OffsetsGrow DEF Ladder
  <2>3. F[i] >= p
    BY <1>3
  <2> QED
    BY <1>2, <2>2, <2>3
<1>4. g \notin above /\ (g < c => g + 1 \in above)
  BY <1>1, <1>2
<1> HIDE DEF above
<1>5. \A i \in 1 .. c : i \in above <=> i > first_above(c, above)
  BY <1>3, AboveBoundary
<1>6. first_above(c, above) \in 0 .. c
  BY AboveRange
<1> HIDE DEF f
<1>7. f \in 0 .. c /\ ~ (g > f) /\ (g < c => g + 1 > f)
  BY <1>4, <1>5, <1>6 DEF f
<1>8. f = g
  BY <1>7
<1> QED
  BY <1>8 DEF f, above

\* In descending order with several groups, the positions of a group turn round
\* between its two boundaries.
LEMMA PositionInGroup ==
    ASSUME NEW st, Readable(st), Len(st.layouts) # 1, NEW dir, dir # "ascending",
           NEW g \in 1 .. Len(st.layouts),
           NEW p \in group_start(st)[g] + 1 .. group_start(st)[g + 1]
    PROVE  to_ascending(st, Len(items), dir, p)
               = group_start(st)[g] + group_start(st)[g + 1] + 1 - p
<1> DEFINE z == st.start
           c == Len(st.layouts)
           off == group_offset(st)
           F == group_start(st)
<1>1. c \in Nat \ {0} /\ DOMAIN st.layouts = 1 .. c
  BY GroupsShare
<1>2. Ladder(F, c)
  BY GroupLadder
<1>3. \A m \in 1 .. c + 1 : F[m] = z[off[m] + 1]
  BY DEF group_start
<1>4. to_ascending(st, Len(items), dir, p)
        = LET first(m) == z[off[m] + 1]
              h == first_above(c, {m \in 1 .. c : first(m) >= p})
          IN  first(h) + first(h + 1) + 1 - p
  BY <1>1 DEF to_ascending
<1> HIDE DEF z, c, off, F
<1>5. {m \in 1 .. c : z[off[m] + 1] >= p} = {m \in 1 .. c : F[m] >= p}
  BY <1>1, <1>3
<1>6. first_above(c, {m \in 1 .. c : F[m] >= p}) = g
  BY <1>1, <1>2, GroupFound DEF F, c
<1>7. F[g] = z[off[g] + 1] /\ F[g + 1] = z[off[g + 1] + 1]
  BY <1>1, <1>3 DEF c
<1> QED
  BY <1>4, <1>5, <1>6, <1>7 DEF F, c

\* Turning a place round between two boundaries keeps it between them.
LEMMA TurnedRound ==
    ASSUME NEW a \in Nat, NEW b \in Nat, NEW n \in Nat, b <= n, NEW p \in a + 1 .. b,
           NEW q, q = a + b + 1 - p
    PROVE  q \in a + 1 .. b /\ a + b + 1 - q = p /\ q \in 1 .. n
<1>1. p \in Nat /\ a + 1 <= p /\ p <= b
  OBVIOUS
<1>2. q \in Int /\ a + 1 <= q /\ q <= b
  BY <1>1
<1> QED
  BY <1>1, <1>2

\* to_ascending is its own inverse on the positions of the collection.
LEMMA PositionsTurn ==
    ASSUME NEW st, Readable(st), NEW dir, NEW p \in 1 .. Len(items)
    PROVE  LET up(i) == to_ascending(st, Len(items), dir, i)
           IN  up(p) \in 1 .. Len(items) /\ up(up(p)) = p
<1> DEFINE n == Len(items)
           up(i) == to_ascending(st, n, dir, i)
<1>1. n \in Nat
  BY ReadableArranged DEF Typed
<1>2. CASE dir = "ascending"
  BY <1>2 DEF to_ascending
<1>3. CASE dir # "ascending" /\ Len(st.layouts) = 1
  <2>1. \A i : up(i) = n + 1 - i
    BY <1>3 DEF to_ascending
  <2> HIDE DEF up, n
  <2>2. n + 1 - p \in 1 .. n /\ n + 1 - (n + 1 - p) = p
    BY <1>1 DEF n
  <2>3. up(p) \in 1 .. n /\ up(up(p)) = p
    BY <2>1, <2>2
  <2> QED
    BY <2>3 DEF up, n
<1>4. CASE dir # "ascending" /\ Len(st.layouts) # 1
  <2> DEFINE c == Len(st.layouts)
             F == group_start(st)
  <2>1. c \in Nat \ {0} /\ Ladder(F, c) /\ F[c + 1] = n
    BY GroupLadder, GroupsShare
  <2> HIDE DEF n, c, F, up
  <2>2. p \in 1 .. F[c + 1]
    BY <2>1 DEF n
  <2>3. PICK g \in 1 .. c : p \in F[g] + 1 .. F[g + 1]
    BY <2>1, <2>2, LadderSegment
  <2>4. F[g] \in Nat /\ F[g + 1] \in Nat /\ F[g + 1] <= n
    BY <2>1, LadderBounds
  <2> DEFINE q == F[g] + F[g + 1] + 1 - p
  <2>5. up(p) = q
    BY <1>4, <2>3, PositionInGroup DEF up, n, c, F
  <2> HIDE DEF q
  <2>6. q \in F[g] + 1 .. F[g + 1] /\ F[g] + F[g + 1] + 1 - q = p /\ q \in 1 .. n
    <3> DEFINE a == F[g]
               b == F[g + 1]
    <3>1. a \in Nat /\ b \in Nat /\ b <= n /\ p \in a + 1 .. b /\ q = a + b + 1 - p
      BY <2>3, <2>4 DEF q
    <3> HIDE DEF a, b
    <3>2. q \in a + 1 .. b /\ a + b + 1 - q = p /\ q \in 1 .. n
      BY <1>1, <3>1, TurnedRound
    <3> QED
      BY <3>2 DEF a, b
  <2>7. up(q) = F[g] + F[g + 1] + 1 - q
    BY <1>4, <2>6, PositionInGroup DEF up, n, c, F
  <2> QED
    BY <2>5, <2>6, <2>7 DEF up, n
<1> QED
  BY <1>2, <1>3, <1>4

\* So range shows every slot once when it shows all positions.
LEMMA ShownLists ==
    ASSUME NEW st, Readable(st), NEW dir,
           NEW q, q = [i \in 1 .. Len(items) |-> st.order[to_ascending(st, Len(items), dir, i)]]
    PROVE  Lists(q, 1 .. Len(items))
<1> DEFINE n == Len(items)
           V == 1 .. n
           r == st.order
           up(i) == to_ascending(st, n, dir, i)
<1>1. n \in Nat
  BY ReadableArranged DEF Typed
<1>2. Lists(r, V)
  BY ReadableArranged DEF Arranged
<1>3. q = [i \in V |-> r[up(i)]]
  OBVIOUS
<1>4. \A i \in V : up(i) \in V /\ up(up(i)) = i
  BY PositionsTurn
<1> HIDE DEF up, r, n
<1>5. /\ Len(r) = n /\ \A i \in V : r[i] \in V
      /\ \A x \in V : \E i \in V : r[i] = x
  BY <1>1, <1>2, ListsWhole
<1>6. \A i, j \in V : r[i] = r[j] => i = j
  <2> HIDE DEF V
  <2>1. \A i, j \in 1 .. Len(r) : r[i] = r[j] => i = j
    BY <1>2 DEF Lists
  <2> QED
    BY <1>5, <2>1 DEF V
<1>7. \A i \in V : q[i] = r[up(i)] /\ q[i] \in V
  BY <1>3, <1>4, <1>5
<1>8. Len(q) = n /\ q \in Seq(V)
  <2>1. q \in [1 .. n -> V]
    BY <1>3, <1>7
  <2> QED
    BY <1>1, <1>3, <2>1
<1> HIDE DEF V
<1>9. \A i, j \in V : q[i] = q[j] => i = j
  <2>1. \A i, j \in V : q[i] = q[j] => up(i) = up(j)
    BY <1>4, <1>6, <1>7
  <2> QED
    BY <1>4, <2>1
<1>10. \A x \in V : \E i \in V : q[i] = x
  <2> SUFFICES ASSUME NEW x \in V
               PROVE  \E i \in V : q[i] = x
    OBVIOUS
  <2>1. PICK j \in V : r[j] = x
    BY <1>5, Zenon
  <2>2. up(j) \in V /\ q[up(j)] = x
    BY <1>4, <1>7, <2>1
  <2> QED
    BY <2>2
<1>11. \A i, j \in 1 .. Len(q) : q[i] = q[j] => i = j
  BY <1>8, <1>9 DEF V
<1>12. \A x \in V : \E i \in 1 .. Len(q) : q[i] = x
  BY <1>8, <1>10 DEF V
<1>13. Lists(q, V)
  BY <1>8, <1>11, <1>12 DEF Lists
<1> QED
  BY <1>13 DEF V, n
-----------------------------------------------------------------------------
(* The operations                                                          *)

\* The result holds every element of the collection once.
Whole(res) == Len(res.out) = Len(items) /\ ToSet(res.out) = ToSet(items)

\* The collection in insertion order does.
LEMMA ItemsWhole ==
    ASSUME Collection(items, val), NEW res, res.out = items \/ res.out = SubSeq(items, 1, Len(items))
    PROVE  Whole(res)
<1>1. SubSeq(items, 1, Len(items)) = items
  BY DEF Collection
<1> QED
  BY <1>1 DEF Whole

\* for_each gives every element once.
LEMMA ForEachWhole ==
    ASSUME IInv, Books, Groupings, for_each
    PROVE  Whole(result')
<1>1. Collection(items, val)
  BY DEF IInv
<1>2. CASE active = npos
  BY <1>1, <1>2, ItemsWhole DEF for_each, Call
<1>3. CASE active # npos
  <2> DEFINE st == prepare(states[active], items, val, plan)
             sorted == sort_buckets(st, 1 .. bucket_total(st), items, val)
             order == visited(sorted, direction)
  <2>1. Readable(sorted)
    BY <1>3, PreparedReadable
  <2>2. result'.out = [i \in DOMAIN order |-> items[order[i]]]
    BY <1>3 DEF for_each, Call
  <2> HIDE DEF sorted
  <2>3. Lists(order, 1 .. Len(items))
    BY <2>1, VisitedLists
  <2> HIDE DEF order
  <2> QED
    BY <1>1, <2>2, <2>3, AllReturned DEF Whole
<1> QED
  BY <1>2, <1>3

\* So does range when it is asked for all positions.
LEMMA RangeWhole ==
    ASSUME IInv, Books, Groupings, NEW from, NEW until, range(from, until),
           result'.arg = <<0, Len(items)>>
    PROVE  Whole(result')
<1> DEFINE n == Len(items)
<1>1. Collection(items, val) /\ n \in Nat /\ items \in Seq(Handle)
  BY DEF IInv, Collection
<1>2. from = 0 /\ until = n /\ min(until, n) = n
  <2>1. result'.arg = <<from, until>>
    BY DEF range, Call
  <2>2. from = 0 /\ until = n
    BY <2>1
  <2> QED
    BY <1>1, <2>2 DEF min
<1>3. CASE from >= n
  <2>1. result'.out = << >> /\ n = 0
    BY <1>1, <1>2, <1>3 DEF range, Call
  <2>2. items = << >>
    BY <1>1, <2>1
  <2> QED
    BY <1>1, <2>1, <2>2, ItemsWhole
<1>4. CASE ~ (from >= n) /\ active = npos
  <2>1. result'.out = SubSeq(items, from + 1, n)
    BY <1>2, <1>4 DEF range, Call
  <2>2. result'.out = SubSeq(items, 1, n)
    BY <1>2, <2>1
  <2> QED
    BY <1>1, <2>2, ItemsWhole
<1>5. CASE ~ (from >= n) /\ active # npos
  <2> DEFINE st == prepare(states[active], items, val, plan)
             bs == buckets_shown(st, n, direction, from, n)
             sorted == sort_buckets(st, bs, items, val)
             up(i) == to_ascending(st, n, direction, i)
             q == [i \in 1 .. n |-> sorted.order[up(i)]]
  <2>1. Readable(sorted) /\ SortResult(sorted, st, bs, items, val)
    BY <1>5, PreparedReadable
  <2>2. result'.out = [i \in 1 .. n - from |-> items[sorted.order[up(from + i)]]]
    BY <1>2, <1>5 DEF range, Call
  <2>3. \A i : to_ascending(sorted, n, direction, i) = up(i)
    <3> HIDE DEF st, sorted
    <3> QED
      BY <2>1 DEF SortResult, to_ascending, group_offset
  <2> HIDE DEF sorted, up
  <2>4. result'.out = [i \in 1 .. n |-> items[sorted.order[up(i)]]]
    <3>1. \A i \in 1 .. n : from + i = i
      BY <1>1, <1>2
    <3>2. n - from = n
      BY <1>1, <1>2
    <3> HIDE DEF n
    <3> QED
      BY <2>2, <3>1, <3>2
  <2>5. Lists(q, 1 .. n)
    BY <2>1, <2>3, ShownLists
  <2>6. DOMAIN q = 1 .. n /\ \A i \in 1 .. n : q[i] = sorted.order[up(i)]
    OBVIOUS
  <2> HIDE DEF q
  <2>7. result'.out = [i \in DOMAIN q |-> items[q[i]]]
    BY <2>4, <2>6
  <2> QED
    BY <1>1, <2>5, <2>7, AllReturned DEF Whole, n
<1> QED
  BY <1>3, <1>4, <1>5

\* Every other operation has a result of its own.
LEMMA OtherResults ==
    ASSUME Select \/ Tune \/ Change
    PROVE  result'.op # "for_each" /\ result'.op # "range"
<1> DEFINE Other == result'.op # "for_each" /\ result'.op # "range"
<1>1. ASSUME NEW k, NEW dir, add_sort_key(k) \/ remove_sort_key(k) \/ sort_by(k, dir) \/ unsort
      PROVE  Other
  <2>1. CASE add_sort_key(k)
    BY <2>1 DEF add_sort_key, Call, Void, Thrown
  <2>2. CASE remove_sort_key(k)
    BY <2>2 DEF remove_sort_key, Call
  <2>3. CASE sort_by(k, dir)
    BY <2>3 DEF sort_by, Call, Void, Thrown
  <2>4. CASE unsort
    BY <2>4 DEF unsort, Call, Void
  <2> QED
    BY <1>1, <2>1, <2>2, <2>3, <2>4
<1>2. ASSUME NEW k, NEW pl, rebalance(k) \/ rebalance_all \/ set_plan(pl)
      PROVE  Other
  BY <1>2 DEF rebalance, rebalance_all, set_plan, Call, Void, Thrown
<1>3. ASSUME NEW h, NEW v, add(h, v)
      PROVE  Other
  BY <1>3 DEF add, Call, Void, Thrown
<1>4. ASSUME NEW hs, NEW vs, add_all(hs, vs)
      PROVE  Other
  <2>1. result' = Thrown("add_all") \/ result' = Void("add_all")
    BY <1>4 DEF add_all
  <2> QED
    BY <2>1 DEF Call, Void, Thrown
<1>5. ASSUME NEW kept, remove_if(kept)
      PROVE  Other
  BY <1>5 DEF remove_if, Call
<1>6. ASSUME NEW matching, NEW change, update_if(matching, change)
      PROVE  Other
  BY <1>6 DEF update_if, Call
<1>7. clear => Other
  <2>1. clear => result' = Void("clear")
    BY DEF clear
  <2> QED
    BY <2>1 DEF Call, Void
<1> HIDE DEF Other
<1>8. Select => Other
  BY <1>1 DEF Select
<1>9. Tune => Other
  BY <1>2 DEF Tune
<1>10. Change => Other
  <2>1. (\E h \in Fresh, v \in Value : Room(1) /\ add(h, v)) => Other
    BY <1>3
  <2>2. (\E m \in 0 .. MaxBulk : \E hs \in [1 .. m -> Fresh] :
            Room(m) /\ IsInjective(hs) /\ \E vs \in [ToSet(hs) -> Value] : add_all(hs, vs)) => Other
    BY <1>4, Zenon
  <2>3. (\E kept \in Selections(Len(items)) :
            Bounded(Len(items) - Len(kept)) /\ remove_if(kept)) => Other
    BY <1>5, Zenon
  <2>4. (\E matching \in {S \in SUBSET DOMAIN items : Cardinality(S) <= MaxBulk} :
            Bounded(Cardinality(matching)) /\ \E change \in [{items[x] : x \in matching} -> Value] :
                update_if(matching, change)) => Other
    BY <1>6, Zenon
  <2> QED
    BY <1>7, <2>1, <2>2, <2>3, <2>4, Zenon DEF Change
<1> QED
  BY <1>8, <1>9, <1>10 DEF Other

\* What estimate reads of the samples of sort key k, where the elements have the values
\* vals and the keys ks, under the plan p: nothing when there is one bucket, and else the
\* sampled elements on both sides of positions inside the sample (bucket_layout.hpp:225).
EstimateDefined(k, vals, ks, p) ==
    \A g \in 1 .. GroupCount[k] :
        LET for == per_group(k, p)
            n == Len(members(k, vals, g))
            t == target_sizes(for, n)
        IN  Len(t) <= 1 \/ SplitsInside(k, vals, ks, sorted_sample(k, vals, ks, for, g), t, n)

\* Comparators with cycles have one bucket, and the others positions inside.
LEMMA EstimateIsDefined ==
    ASSUME NEW st, NEW its, NEW vl, Collection(its, vl), Len(its) <= MaxItems,
           Consistent(st, its, vl), NEW p \in Plan
    PROVE  EstimateDefined(st.name, values(its, vl), st.keys, p)
<1> DEFINE k == st.name
           vals == values(its, vl)
           ks == st.keys
           for == per_group(k, p)
<1>1. k \in Name /\ Keyed(k, vals, ks) /\ Len(vals) = Len(its)
  BY CollectionKeyed DEF Consistent, KeyStateOK
<1>2. Len(vals) \in Nat /\ Len(vals) <= MaxItems
  BY <1>1 DEF Keyed
<1>3. IsPlan(p) /\ Draws(p, MaxItems) /\ MaxItems \in Nat
  BY BucketIndexAssumption
<1>4. IsPlan(for) /\ for.max_buckets <= p.max_buckets
  BY <1>1, <1>3, GroupPlan
<1> HIDE DEF k, vals, ks
<1> SUFFICES ASSUME NEW g \in 1 .. GroupCount[k],
                    ~ (Len(target_sizes(for, Len(members(k, vals, g)))) <= 1)
             PROVE  SplitsInside(k, vals, ks, sorted_sample(k, vals, ks, for, g),
                        target_sizes(for, Len(members(k, vals, g))), Len(members(k, vals, g)))
  BY DEF EstimateDefined, k, vals, ks
<1> DEFINE n == Len(members(k, vals, g))
<1>5. n \in Nat
  BY <1>2, FewMembers
<1>6. Draws(for, n)
  BY <1>2, <1>3, GroupDraws
<1> HIDE DEF for
<1>7. k \in Ordering
  <2>1. Partition(target_sizes(for, n), for.max_buckets, n)
    <3> HIDE DEF n
    <3> QED
      BY <1>4, <1>5, TargetsArePartition
  <2> DEFINE l == Len(target_sizes(for, n))
  <2>2. l \in 1 .. for.max_buckets /\ for.max_buckets \in Nat
    BY <1>4, <2>1 DEF Partition, IsPlan
  <2>3. p.max_buckets # 1
    <3>1. ~ (l <= 1) /\ p.max_buckets \in Nat
      BY <1>3 DEF IsPlan
    <3> HIDE DEF l
    <3> QED
      BY <1>4, <2>2, <3>1
  <2> QED
    BY <1>1, <2>3, CyclesInOneBucket
<1> QED
  BY <1>1, <1>4, <1>6, <1>7, SampleSplitsInside DEF n

\* Under any plan, the layouts of all registered sort keys can be estimated from the
\* present elements without a read outside a sample.
EstimatesDefined ==
    \A i \in DOMAIN states, p \in Plan :
        EstimateDefined(states[i].name, values(items, val), states[i].keys, p)

LEMMA EstimatesAreDefined ==
    ASSUME IInv
    PROVE  EstimatesDefined
  BY EstimateIsDefined DEF IInv, EstimatesDefined

\* for_each, and a range over all positions, show every element exactly once,
\* whatever buckets they found sorted and whatever the direction: nothing is
\* skipped or repeated where buckets and groups meet (bucket_index.hpp:340, 370).
\* That holds for comparators with cycles too, when the plans have one bucket
\* (CyclesInOneBucket): the second part says that then no layout is estimated from
\* an element outside a sample (bucket_layout.hpp:225), where the behaviour of the
\* code would be undefined and the first part would say nothing about it.
THEOREM EveryElementReturned == Spec => EveryElementOnce /\ []EstimatesDefined
<1> DEFINE Returned == \/ result'.op = "for_each"
                       \/ result'.op = "range" /\ result'.arg = <<0, Len(items)>>
                       => Len(result'.out) = Len(items) /\ ToSet(result'.out) = ToSet(items)
<1>1. ASSUME IInv, Books, Groupings, [Next]_vars
      PROVE  [Returned]_vars
  <2>1. CASE UNCHANGED vars
    BY <2>1
  <2>2. CASE Select \/ Tune \/ Change
    BY <2>2, OtherResults
  <2>3. ASSUME NEW from, NEW until, range(from, until)
        PROVE  Returned
    <3>1. result'.op = "range"
      BY <2>3 DEF range, Call
    <3> QED
      BY <1>1, <2>3, <3>1, RangeWhole DEF Whole
  <2>4. CASE for_each
    BY <1>1, <2>4, ForEachWhole DEF Whole
  <2>5. CASE \E p \in 1 .. Len(items) + 1 : at(p)
    BY <2>5 DEF at, Call, Thrown
  <2>6. CASE \E x \in 1 .. Len(items) + 1 : position_if(x .. Len(items))
    BY <2>6 DEF position_if, Call, Void
  <2>7. CASE sort_all
    BY <2>7 DEF sort_all, Call, Void
  <2> QED
    BY <1>1, <2>1, <2>2, <2>3, <2>4, <2>5, <2>6, <2>7 DEF Next, Read, first_page
<1>2. IInv /\ Books /\ Groupings /\ [Next]_vars => [Returned]_vars
  BY <1>1
<1>3. IInv => EstimatesDefined
  BY EstimatesAreDefined
<1>4. [][Returned]_vars <=> EveryElementOnce
  BY DEF EveryElementOnce
<1> HIDE DEF Returned
<1> QED
  BY GroupingsInvariance, <1>2, <1>3, <1>4, PTL DEF Spec
-----------------------------------------------------------------------------
(* The order of the slots of a bucket                                      *)

\* Every two elements of r stand in the order they have in q.
Follows(r, q) ==
    \A i, j \in 1 .. Len(r) : i < j =>
        \E p, z \in 1 .. Len(q) : p < z /\ r[i] = q[p] /\ r[j] = q[z]

\* What only leaves follows the sequence it is taken from.
LEMMA OnlyFollows ==
    ASSUME NEW X, NEW s \in Seq(X), NEW T
    PROVE  /\ Follows(only(s, T), s)
           /\ \A i \in 1 .. Len(only(s, T)) : only(s, T)[i] \in T
<1> DEFINE o == only(s, T)
<1>1. PICK source : KeptPlaces(source, o, s, Len(s), T)
  BY OnlyPlaces
<1> HIDE DEF o
<1>2. /\ \A p \in 1 .. Len(o) : source[p] \in 1 .. Len(s) /\ o[p] = s[source[p]] /\ s[source[p]] \in T
      /\ \A p, q \in 1 .. Len(o) : p < q => source[p] < source[q]
  BY <1>1 DEF KeptPlaces
<1>3. Follows(o, s)
  BY <1>2 DEF Follows
<1>4. \A i \in 1 .. Len(o) : o[i] \in T
  BY <1>2
<1> QED
  BY <1>3, <1>4 DEF o

\* A set of places that holds all places before each of its members is the first
\* places.
LEMMA FirstPlaces ==
    ASSUME NEW m \in Nat, NEW S \in SUBSET (1 .. m), \A j \in S : \A i \in 1 .. j : i \in S
    PROVE  S = 1 .. Cardinality(S)
<1>1. CASE S = {}
  <2>1. Cardinality(S) = 0
    BY <1>1, FS_EmptySet
  <2> QED
    BY <1>1, <2>1
<1>2. CASE S # {}
  <2> DEFINE x == Max(S)
  <2>1. x \in S /\ \A y \in S : x >= y
    BY <1>2, Greatest
  <2> HIDE DEF x
  <2>2. x \in Nat /\ S = 1 .. x
    <3>1. x \in Nat /\ S \subseteq 1 .. x
      BY <2>1
    <3>2. 1 .. x \subseteq S
      BY <2>1
    <3> QED
      BY <3>1, <3>2
  <2>3. Cardinality(1 .. x) = x
    BY <2>2, CountUpTo
  <2> QED
    BY <2>2, <2>3
<1> QED
  BY <1>1, <1>2

\* The places of the first a of q that staying holds.
leading(q, a, staying) == {p \in 1 .. a : q[p] \in staying}

\* The elements r takes over from the first a of q, when r has each of them and
\* nothing else before them, stand at its front and in the same order.
LEMMA LeadingStay ==
    ASSUME NEW q, NEW T, Lists(q, T), NEW a \in 0 .. Len(q), NEW staying,
           NEW r, NEW U, Lists(r, U),
           \A p \in leading(q, a, staying) : q[p] \in U,
           \A i, j \in 1 .. Len(r) : \A z \in leading(q, a, staying) : i < j /\ r[j] = q[z] =>
               \E p \in leading(q, a, staying) : p < z /\ r[i] = q[p]
    PROVE  \A i, j \in 1 .. Cardinality(leading(q, a, staying)) : i < j =>
               \E p, z \in leading(q, a, staying) : p < z /\ r[i] = q[p] /\ r[j] = q[z]
<1> DEFINE P == leading(q, a, staying)
           m == Len(r)
           S == {j \in 1 .. m : \E z \in P : r[j] = q[z]}
           c == Cardinality(P)
<1>1. /\ m \in Nat /\ P \subseteq 1 .. Len(q) /\ P \subseteq Nat /\ Len(q) \in Nat
      /\ \A i, j \in 1 .. m : r[i] = r[j] => i = j
      /\ \A x \in U : \E i \in 1 .. m : r[i] = x
      /\ \A i, j \in 1 .. Len(q) : q[i] = q[j] => i = j
  <2>1. Len(q) \in Nat /\ m \in Nat
    BY DEF Lists
  <2>2. P \subseteq 1 .. Len(q) /\ P \subseteq Nat
    <3>1. P \subseteq 1 .. a
      BY DEF leading
    <3> HIDE DEF P
    <3> QED
      BY <2>1, <3>1
  <2> QED
    BY <2>1, <2>2 DEF Lists
<1>2. \A p \in P : q[p] \in U
  OBVIOUS
<1>3. ASSUME NEW i \in 1 .. m, NEW j \in 1 .. m, NEW z \in P, i < j, r[j] = q[z]
      PROVE  \E p \in P : p < z /\ r[i] = q[p]
  BY <1>3
<1> HIDE DEF P, m
<1>4. S = 1 .. Cardinality(S)
  <2>1. \A j \in S : \A i \in 1 .. j : i \in S
    <3> SUFFICES ASSUME NEW j \in S, NEW i \in 1 .. j, i # j
                 PROVE  i \in S
      OBVIOUS
    <3>1. PICK z \in P : r[j] = q[z]
      OBVIOUS
    <3>2. i \in 1 .. m /\ j \in 1 .. m /\ i < j
      BY <1>1
    <3>3. \E p \in P : r[i] = q[p]
      BY <1>3, <3>1, <3>2
    <3> QED
      BY <3>2, <3>3
  <2>2. S \in SUBSET (1 .. m)
    OBVIOUS
  <2> HIDE DEF S
  <2> QED
    BY <1>1, <2>1, <2>2, FirstPlaces
<1>5. Cardinality(S) = c
  <2> DEFINE g == [p \in P |-> CHOOSE j \in 1 .. m : r[j] = q[p]]
  <2>1. ASSUME NEW p \in P
        PROVE  g[p] \in 1 .. m /\ r[g[p]] = q[p]
    <3>1. \E j \in 1 .. m : r[j] = q[p]
      BY <1>1, <1>2
    <3> QED
      BY <3>1
  <2>2. g \in [P -> S]
    <3>1. \A p \in P : g[p] \in S
      BY <2>1
    <3> HIDE DEF S
    <3> QED
      BY <3>1
  <2> HIDE DEF g
  <2>3. \A p, z \in P : g[p] = g[z] => p = z
    <3> SUFFICES ASSUME NEW p \in P, NEW z \in P, g[p] = g[z]
                 PROVE  p = z
      OBVIOUS
    <3>1. q[p] = q[z]
      BY <2>1
    <3> QED
      BY <1>1, <3>1
  <2>4. \A j \in S : \E p \in P : g[p] = j
    <3> SUFFICES ASSUME NEW j \in S
                 PROVE  \E p \in P : g[p] = j
      OBVIOUS
    <3>1. PICK z \in P : r[j] = q[z]
      OBVIOUS
    <3>2. r[g[z]] = r[j] /\ g[z] \in 1 .. m /\ j \in 1 .. m
      BY <2>1, <3>1
    <3> QED
      BY <1>1, <3>2
  <2>5. IsFiniteSet(P)
    <3>1. IsFiniteSet(1 .. Len(q))
      BY <1>1, CountUpTo
    <3> QED
      BY <1>1, <3>1, FS_Subset
  <2>6. g \in Bijection(P, S)
    <3> HIDE DEF S
    <3> QED
      BY <2>2, <2>3, <2>4 DEF Bijection, Injection, Surjection, IsInjective
  <2> HIDE DEF S
  <2>7. ExistsBijection(P, S)
    BY <2>6 DEF ExistsBijection
  <2> QED
    BY <2>5, <2>7, FS_Bijection
<1>6. ASSUME NEW i \in 1 .. c, NEW j \in 1 .. c, i < j
      PROVE  \E p, z \in P : p < z /\ r[i] = q[p] /\ r[j] = q[z]
  <2>1. i \in S /\ j \in S
    BY <1>4, <1>5
  <2>2. PICK z \in P : r[j] = q[z]
    BY <2>1
  <2>3. i \in 1 .. m /\ j \in 1 .. m
    BY <2>1
  <2>4. PICK p \in P : p < z /\ r[i] = q[p]
    BY <1>3, <1>6, <2>2, <2>3
  <2> QED
    BY <2>2, <2>4
<1> QED
  BY <1>6 DEF P

\* With slots that have keys apart or the same group, slot_less is the exact
\* order, and insertion order decides between elements it does not tell apart.
Ranked(less, k, w, U) ==
    \A a, b \in U : <<a, b>> \in less <=>
        \/ compare(k, w[a], w[b]) < 0
        \/ compare(k, w[a], w[b]) = 0 /\ a < b

\* Such a comparator is an order when the sort key's functions order the values.
LEMMA RankedLinear ==
    ASSUME NEW k \in Ordering, NEW U \in SUBSET Nat, NEW w, \A a \in U : w[a] \in Value,
           NEW less, Ranked(less, k, w, U)
    PROVE  Linear(less, U)
<1> DEFINE C(a, b) == compare(k, w[a], w[b])
<1>1. k \in Name
  BY DEF Ordering
<1>2. ASSUME NEW a \in U, NEW b \in U
      PROVE  C(a, b) \in {-1, 0, 1}
  <2>1. tie_break(k, w[a], w[b]) \in {-1, 0, 1}
    BY <1>1, Signs
  <2> QED
    BY <2>1 DEF compare
<1>3. /\ \A a, b \in U : C(a, b) = 0 - C(b, a)
      /\ \A a, b, c \in U : C(a, b) <= 0 /\ C(b, c) <= 0 => C(a, c) <= 0
  BY DEF Ordering
<1>4. \A a, b \in U : <<a, b>> \in less <=> C(a, b) < 0 \/ (C(a, b) = 0 /\ a < b)
  BY DEF Ranked
<1> HIDE DEF C
<1>5. ASSUME NEW a \in U, NEW b \in U
      PROVE  ~ (<<a, b>> \in less /\ <<b, a>> \in less)
  <2>1. C(a, b) = 0 - C(b, a) /\ C(a, b) \in Int /\ C(b, a) \in Int /\ a \in Nat /\ b \in Nat
    BY <1>2, <1>3
  <2> QED
    BY <1>4, <2>1
<1>6. ASSUME NEW a \in U, NEW b \in U, a # b
      PROVE  <<a, b>> \in less \/ <<b, a>> \in less
  <2>1. C(a, b) = 0 - C(b, a) /\ C(a, b) \in Int /\ C(b, a) \in Int /\ a \in Nat /\ b \in Nat
    BY <1>2, <1>3
  <2> QED
    BY <1>4, <1>6, <2>1
<1>7. ASSUME NEW a \in U, NEW b \in U, NEW c \in U, <<a, b>> \in less, <<b, c>> \in less
      PROVE  <<a, c>> \in less
  <2>1. /\ C(a, b) \in Int /\ C(b, c) \in Int /\ C(a, c) \in Int
        /\ C(b, a) \in Int /\ C(c, b) \in Int /\ C(c, a) \in Int
        /\ a \in Nat /\ b \in Nat /\ c \in Nat
    BY <1>2
  <2>2. /\ C(a, b) = 0 - C(b, a) /\ C(b, c) = 0 - C(c, b) /\ C(a, c) = 0 - C(c, a)
    BY <1>3
  <2>3. /\ C(a, b) < 0 \/ (C(a, b) = 0 /\ a < b)
        /\ C(b, c) < 0 \/ (C(b, c) = 0 /\ b < c)
    BY <1>4, <1>7
  <2>4. C(a, b) <= 0 /\ C(b, c) <= 0
    BY <2>1, <2>3
  <2>5. C(a, c) <= 0
    BY <1>3, <2>4
  <2>6. CASE C(a, c) = 0
    <3>1. C(c, a) <= 0
      BY <2>1, <2>2, <2>6
    <3>2. C(c, b) <= 0 /\ C(b, a) <= 0
      BY <1>3, <2>4, <3>1
    <3>3. C(a, b) = 0 /\ C(b, c) = 0
      BY <2>1, <2>2, <2>4, <3>2
    <3>4. a < c
      BY <2>1, <2>3, <3>3
    <3> QED
      BY <1>4, <2>6, <3>4
  <2>7. CASE C(a, c) # 0
    <3>1. C(a, c) < 0
      BY <2>1, <2>5, <2>7
    <3> QED
      BY <1>4, <3>1
  <2> QED
    BY <2>6, <2>7
<1> QED
  BY <1>5, <1>6, <1>7 DEF Linear

\* Slots of one bucket hold elements of one group.
LEMMA BucketInGroup ==
    ASSUME NEW st, NEW its, NEW vl, Ready(st, its, vl), NEW a \in 1 .. Len(its),
           NEW b \in 1 .. Len(its), st.buckets[a] = st.buckets[b]
    PROVE  group(st.name, vl[its[a]]) = group(st.name, vl[its[b]])
<1>1. Collection(its, vl) /\ Consistent(st, its, vl) /\ LayoutsIn(st)
  BY DEF Ready
<1>2. st.name \in Name /\ DOMAIN st.layouts = 1 .. GroupCount[st.name]
  BY <1>1 DEF Consistent, KeyStateOK
<1>3. DOMAIN its = 1 .. Len(its) /\ \A x \in 1 .. Len(its) : vl[its[x]] \in Value
  BY <1>1 DEF Collection, ToSet
<1> DEFINE c == GroupCount[st.name]
           off == group_offset(st)
           G(x) == group(st.name, vl[its[x]])
<1>4. ASSUME NEW x \in 1 .. Len(its)
      PROVE  G(x) \in 1 .. c /\ st.buckets[x] \in off[G(x)] + 1 .. off[G(x) + 1]
  <2>1. st.buckets[x] = bucket_for(st, vl[its[x]], st.keys[x], vl)
    BY <1>1, <1>3 DEF Consistent, BucketsIn
  <2> QED
    BY <1>1, <1>2, <1>3, <2>1, IdInRange
<1>5. c \in Nat
  <2>1. GroupCount \in [Name -> Nat \ {0}]
    BY SortKeyAssumption
  <2> QED
    BY <1>2, <2>1
<1>6. Ladder(off, c)
  <2>1. c \in Nat \ {0}
    <3>1. GroupCount \in [Name -> Nat \ {0}]
      BY SortKeyAssumption
    <3> QED
      BY <1>2, <3>1
  <2>2. Offsets(off, c, shares(st)) /\ \A g \in 1 .. c : shares(st)[g] \in Nat
    BY <1>1, <1>2, <2>1, IdsOfGroups
  <2> HIDE DEF off, c
  <2> QED
    BY <1>5, <2>2, OffsetsLadder
<1> HIDE DEF c, off, G
<1>7. G(a) = G(b)
  BY <1>4, <1>5, <1>6, SegmentUnique
<1> QED
  BY <1>7 DEF G

\* Inside a bucket slot_less is the exact order.
LEMMA BucketRanked ==
    ASSUME NEW st, NEW its, NEW vl, Ready(st, its, vl), NEW U \in SUBSET (1 .. Len(its)),
           \A a, b \in U : st.buckets[a] = st.buckets[b]
    PROVE  Ranked(slot_order(st, its, vl), st.name, values(its, vl), U)
<1>1. Collection(its, vl) /\ Consistent(st, its, vl)
  BY DEF Ready
<1>2. DOMAIN its = 1 .. Len(its)
  BY <1>1 DEF Collection
<1> SUFFICES ASSUME NEW a \in U, NEW b \in U
             PROVE  LET c == compare(st.name, values(its, vl)[a], values(its, vl)[b])
                    IN  <<a, b>> \in slot_order(st, its, vl) <=> c < 0 \/ (c = 0 /\ a < b)
  BY DEF Ranked
<1>3. a \in DOMAIN its /\ b \in DOMAIN its
  BY <1>2
<1>4. values(its, vl)[a] = vl[its[a]] /\ values(its, vl)[b] = vl[its[b]]
  BY <1>3 DEF values
<1>5. <<a, b>> \in slot_order(st, its, vl) <=> slot_less(st, its, vl, a, b)
  BY <1>3 DEF slot_order
<1>6. st.keys[a] = key(st.name, vl[its[a]]) /\ st.keys[b] = key(st.name, vl[its[b]])
  BY <1>1, <1>3 DEF Consistent, KeysIn
<1>7. group(st.name, vl[its[a]]) = group(st.name, vl[its[b]])
  BY <1>2, <1>3, BucketInGroup
<1> DEFINE k == st.name
           v == vl[its[a]]
           w == vl[its[b]]
           c == compare(k, v, w)
<1>8. k \in Name /\ v \in Value /\ w \in Value
  BY <1>1, <1>3 DEF Consistent, KeyStateOK, Collection, ToSet
<1>9. tie_break(k, v, w) \in {-1, 0, 1} /\ key(k, v) \in Nat /\ key(k, w) \in Nat
  <2> HIDE DEF k, v, w
  <2>1. tie_break(k, v, w) \in {-1, 0, 1}
    BY <1>8, Signs
  <2>2. KeyOf[k][v] \in Nat /\ KeyOf[k][w] \in Nat
    <3>1. KeyOf \in [Name -> [Value -> Nat]]
      BY SortKeyAssumption
    <3>2. KeyOf[k] \in [Value -> Nat]
      BY <1>8, <3>1
    <3> QED
      BY <1>8, <3>2
  <2> QED
    BY <2>1, <2>2 DEF key
<1>10. slot_less(st, its, vl, a, b) <=>
           IF has_key(k) /\ key(k, v) # key(k, w) THEN key(k, v) < key(k, w)
           ELSE LET e == IF has_key(k) THEN tie_break(k, v, w) ELSE compare(k, v, w)
                IN  IF e # 0 THEN e < 0 ELSE a < b
  BY <1>6 DEF slot_less
<1>11. c = IF key(k, v) # key(k, w) THEN IF key(k, v) < key(k, w) THEN -1 ELSE 1
           ELSE tie_break(k, v, w)
  BY <1>7 DEF compare
<1>12. c \in {-1, 0, 1}
  BY <1>9, <1>11
<1> HIDE DEF k, v, w, c
<1>13. slot_less(st, its, vl, a, b) <=> c < 0 \/ (c = 0 /\ a < b)
  <2>1. CASE has_key(k) /\ key(k, v) # key(k, w)
    BY <1>9, <1>10, <1>11, <2>1
  <2>2. CASE has_key(k) /\ key(k, v) = key(k, w)
    BY <1>9, <1>10, <1>11, <2>2
  <2>3. CASE ~ has_key(k)
    <3>1. slot_less(st, its, vl, a, b) <=> IF c # 0 THEN c < 0 ELSE a < b
      BY <1>10, <2>3 DEF c
    <3> QED
      BY <1>12, <3>1
  <2> QED
    BY <2>1, <2>2, <2>3
<1> QED
  BY <1>4, <1>5, <1>13 DEF k, v, w, c

\* So it is an order there, if the sort key's functions order the values.
LEMMA BucketLinear ==
    ASSUME NEW st, NEW its, NEW vl, Ready(st, its, vl), st.name \in Ordering,
           NEW U \in SUBSET (1 .. Len(its)), \A a, b \in U : st.buckets[a] = st.buckets[b]
    PROVE  Linear(slot_order(st, its, vl), U)
<1>1. Collection(its, vl)
  BY DEF Ready
<1>2. DOMAIN its = 1 .. Len(its) /\ Len(its) \in Nat
  BY <1>1 DEF Collection
<1>3. \A a \in U : values(its, vl)[a] \in Value
  BY <1>1, <1>2 DEF values, Collection, ToSet
<1>4. U \in SUBSET Nat
  BY <1>2
<1>5. Ranked(slot_order(st, its, vl), st.name, values(its, vl), U)
  BY BucketRanked
<1> QED
  BY <1>3, <1>4, <1>5, RankedLinear
-----------------------------------------------------------------------------
(* The sorted prefixes                                                     *)

\* The slots of a collection that do not wait to be re-placed.
Unmoved(st, its) == (1 .. Len(its)) \ st.moved

\* The sorted prefix of bucket b, without the slots that wait to be re-placed, is
\* in order.
PrefixInOrder(st, its, vl, b) ==
    LET q == grouped(st, b)
        P == leading(q, st.sorted_len[b], Unmoved(st, its))
    IN  \A p, z \in P : p < z => <<q[p], q[z]>> \in slot_order(st, its, vl)

\* All sorted prefixes of a KeyState are, if its functions order the values.
OrderedIn(st, its, vl) ==
    st.has_order = TRUE /\ st.name \in Ordering =>
        \A b \in 1 .. bucket_total(st) : PrefixInOrder(st, its, vl, b)

\* What the grouping of a bucket holds.
BucketHolds(st, b, T) ==
    /\ T \subseteq 1 .. st.ordered_slots
    /\ Lists(grouped(st, b), T)
    /\ Len(grouped(st, b)) = st.start[b + 1] - st.start[b]
    /\ st.sorted_len[b] \in 0 .. Len(grouped(st, b))
    /\ \A x \in T : x \in st.moved \/ st.buckets[x] = b

\* It holds slots of that bucket and slots that wait to be re-placed.
LEMMA BucketOfGrouping ==
    ASSUME NEW st, NEW its, NEW vl, Ready(st, its, vl), GroupedIn(st), st.has_order = TRUE,
           NEW b \in 1 .. bucket_total(st)
    PROVE  \E T : BucketHolds(st, b, T)
<1> DEFINE k == bucket_total(st)
           U == 1 .. st.ordered_slots
<1>1. k \in Nat
  BY ReadyTyped DEF Typed
<1>2. (\E d : Placed(st, d)) /\ PrefixesIn(st)
  BY DEF GroupedIn
<1>3. PICK d : Placed(st, d)
  BY <1>2
<1> DEFINE r == st.order
           off == st.start
           T == Class(U, d, b)
<1>4. Arranged(r, off, k, U, d) /\ \A x \in U : x \in st.moved \/ d[x] = st.buckets[x]
  BY <1>3 DEF Placed
<1>5. grouped(st, b) = segment(r, off, b)
  BY DEF grouped, segment
<1>6. st.sorted_len[b] \in 0 .. off[b + 1] - off[b]
  BY <1>2 DEF PrefixesIn
<1>7. b \in 1 .. k
  OBVIOUS
<1> HIDE DEF r, off, U, k, T
<1>8. Lists(segment(r, off, b), Class(U, d, b)) /\ Len(segment(r, off, b)) = off[b + 1] - off[b]
  BY <1>1, <1>4, <1>7, SegmentLists
<1>9. Lists(grouped(st, b), T) /\ Len(grouped(st, b)) = off[b + 1] - off[b]
  BY <1>5, <1>8 DEF T
<1>10. T \subseteq U /\ \A x \in T : x \in st.moved \/ st.buckets[x] = b
  BY <1>4 DEF T, Class
<1>11. st.sorted_len[b] \in 0 .. Len(grouped(st, b))
  BY <1>6, <1>9
<1>12. BucketHolds(st, b, T)
  BY <1>9, <1>10, <1>11 DEF BucketHolds, U, off
<1> QED
  BY <1>12

\* slot_less compares the names' functions of the values and the slot numbers.
LEMMA OrderAgain ==
    ASSUME NEW s, NEW its, NEW vl, Ready(s, its, vl),
           NEW t, NEW its2, NEW vl2, Ready(t, its2, vl2), t.name = s.name,
           NEW a \in 1 .. Len(its), NEW b \in 1 .. Len(its),
           NEW c \in 1 .. Len(its2), NEW d \in 1 .. Len(its2),
           vl2[its2[c]] = vl[its[a]], vl2[its2[d]] = vl[its[b]], a < b => c < d, c < d => a < b
    PROVE  <<c, d>> \in slot_order(t, its2, vl2) <=> <<a, b>> \in slot_order(s, its, vl)
<1>1. DOMAIN its = 1 .. Len(its) /\ DOMAIN its2 = 1 .. Len(its2)
  BY DEF Ready, Collection
<1>2. t.keys[c] = s.keys[a] /\ t.keys[d] = s.keys[b]
  BY <1>1 DEF Ready, Consistent, KeysIn
<1>3. slot_less(t, its2, vl2, c, d) <=> slot_less(s, its, vl, a, b)
  BY <1>2 DEF slot_less
<1> QED
  BY <1>1, <1>3 DEF slot_order

\* A grouping left as it is stays in order as long as the slots that do not wait
\* keep their values.
LEMMA StillOrdered ==
    ASSUME NEW s, NEW its, NEW vl, Ready(s, its, vl), GroupedIn(s), OrderedIn(s, its, vl),
           NEW t, NEW its2, NEW vl2, Ready(t, its2, vl2), t.name = s.name, t.layouts = s.layouts,
           t.has_order = s.has_order, t.order = s.order, t.start = s.start,
           t.sorted_len = s.sorted_len, s.moved \subseteq t.moved,
           \A x \in 1 .. s.ordered_slots :
               x \notin t.moved => x \in 1 .. Len(its2) /\ vl2[its2[x]] = vl[its[x]]
    PROVE  OrderedIn(t, its2, vl2)
<1> SUFFICES ASSUME s.has_order = TRUE, s.name \in Ordering, NEW b \in 1 .. bucket_total(s)
             PROVE  PrefixInOrder(t, its2, vl2, b)
  <2>1. bucket_total(t) = bucket_total(s)
    BY SameTotal
  <2> QED
    BY <2>1 DEF OrderedIn
<1>1. PrefixInOrder(s, its, vl, b)
  BY DEF OrderedIn
<1>2. PICK T : BucketHolds(s, b, T)
  BY BucketOfGrouping
<1>3. s.ordered_slots \in 0 .. Len(its) /\ Len(its) \in Nat
  BY ReadyTyped DEF Typed
<1> DEFINE q == grouped(s, b)
           a == s.sorted_len[b]
           P == leading(q, a, Unmoved(t, its2))
<1>4. grouped(t, b) = q /\ t.sorted_len[b] = a
  BY DEF grouped
<1>5. ASSUME NEW p \in P
      PROVE  /\ q[p] \in 1 .. s.ordered_slots /\ q[p] \notin t.moved
             /\ p \in leading(q, a, Unmoved(s, its))
  <2>1. p \in 1 .. a /\ q[p] \in Unmoved(t, its2)
    BY DEF leading
  <2> HIDE DEF q, P, a
  <2>2. q \in Seq(T) /\ a \in 0 .. Len(q) /\ T \subseteq 1 .. s.ordered_slots
    BY <1>2 DEF BucketHolds, Lists, q, a
  <2>3. q[p] \in T
    BY <2>1, <2>2
  <2>4. q[p] \in 1 .. s.ordered_slots /\ q[p] \notin t.moved
    BY <2>1, <2>2, <2>3 DEF Unmoved
  <2>5. q[p] \in Unmoved(s, its)
    BY <1>3, <2>4 DEF Unmoved
  <2> QED
    BY <2>1, <2>4, <2>5 DEF leading
<1> SUFFICES ASSUME NEW p \in P, NEW z \in P, p < z
             PROVE  <<q[p], q[z]>> \in slot_order(t, its2, vl2)
  BY <1>4 DEF PrefixInOrder
<1>6. <<q[p], q[z]>> \in slot_order(s, its, vl)
  BY <1>1, <1>5 DEF PrefixInOrder
<1> DEFINE x == q[p]
           y == q[z]
<1>7. /\ x \in 1 .. s.ordered_slots /\ y \in 1 .. s.ordered_slots
      /\ x \notin t.moved /\ y \notin t.moved
  BY <1>5
<1> HIDE DEF x, y
<1>8. x \in 1 .. Len(its) /\ y \in 1 .. Len(its)
  BY <1>3, <1>7
<1>9. /\ x \in 1 .. Len(its2) /\ vl2[its2[x]] = vl[its[x]]
      /\ y \in 1 .. Len(its2) /\ vl2[its2[y]] = vl[its[y]]
  BY <1>7
<1>10. <<x, y>> \in slot_order(t, its2, vl2) <=> <<x, y>> \in slot_order(s, its, vl)
  BY <1>8, <1>9, OrderAgain
<1> QED
  BY <1>6, <1>10 DEF x, y

\* A new grouping has no sorted prefixes yet.
LEMMA BuildOrdered ==
    ASSUME NEW s, NEW its, NEW vl, Ready(s, its, vl), NEW its2, NEW vl2
    PROVE  OrderedIn(build_order(s, Len(its)), its2, vl2)
<1> DEFINE n == Len(its)
           t == build_order(s, n)
           k == bucket_total(s)
<1>1. Typed(s, k, n)
  BY ReadyTyped
<1>2. t.layouts = s.layouts /\ t.sorted_len = [b \in DOMAIN s.counts |-> 0]
  <2>1. DOMAIN s = KeyFields
    BY <1>1 DEF Typed
  <2> HIDE DEF n
  <2> QED
    BY <2>1, BuildFields
<1>3. bucket_total(t) = k
  BY <1>2, SameTotal
<1>4. DOMAIN s.counts = 1 .. k
  BY <1>1, CountPerBucket DEF Typed
<1> HIDE DEF t, k
<1>5. ASSUME NEW b \in 1 .. k
      PROVE  PrefixInOrder(t, its2, vl2, b)
  <2>1. t.sorted_len[b] = 0
    BY <1>2, <1>4
  <2> QED
    BY <2>1 DEF PrefixInOrder, leading
<1> QED
  BY <1>3, <1>5 DEF OrderedIn, t

\* A new layout has no grouping at all.
LEMMA LaidOutUngrouped ==
    ASSUME NEW t, NEW its, NEW vl, NEW pl, LaidOut(t, its, vl, pl)
    PROVE  t.has_order = FALSE
<1>1. PICK u : DOMAIN u = KeyFields /\ t = relayout(u, its, vl, pl)
  BY DEF LaidOut
<1> DEFINE estimated == estimate_layouts(u.name, values(its, vl), u.keys, pl)
           placed == with_buckets(with_layouts(u, estimated, its, vl), its, vl)
<1>2. DOMAIN placed = KeyFields
  BY <1>1 DEF with_layouts, with_buckets, KeyFields
<1>3. t = with_counts(placed, Len(its))
  BY <1>1 DEF relayout
<1> HIDE DEF placed
<1> QED
  BY <1>2, <1>3 DEF with_counts, KeyFields

\* The last of s is less than the first of t, where both have one.
Meets(s, t, less) ==
    Len(s) \in Nat \ {0} /\ Len(t) \in Nat \ {0} => <<s[Len(s)], t[1]>> \in less

\* Then one behind the other is in order when both are.
LEMMA BehindInOrder ==
    ASSUME NEW less, NEW U, Linear(less, U), NEW s \in Seq(U), NEW t \in Seq(U),
           InOrder(s, less), InOrder(t, less), Meets(s, t, less), NEW r, Behind(r, s, t, U)
    PROVE  InOrder(r, less)
<1> DEFINE a == Len(s)
           b == Len(t)
<1>1. /\ a \in Nat /\ b \in Nat
      /\ (\A i \in 1 .. a : s[i] \in U) /\ \A i \in 1 .. b : t[i] \in U
  OBVIOUS
<1> HIDE DEF a, b
<1>2. ASSUME NEW i \in 1 .. a, NEW j \in 1 .. b
      PROVE  <<s[i], t[j]>> \in less
  <2>1. a \in 1 .. a /\ 1 \in 1 .. b
    BY <1>1
  <2>2. <<s[a], t[1]>> \in less
    BY <1>1, <2>1 DEF Meets, a, b
  <2>3. <<s[i], t[1]>> \in less
    <3>1. CASE i = a
      BY <2>2, <3>1
    <3>2. CASE i # a
      <4>1. i < a
        BY <1>1, <3>2
      <4>2. <<s[i], s[a]>> \in less
        BY <2>1, <4>1 DEF InOrder, a
      <4> QED
        BY <1>1, <2>1, <2>2, <4>2 DEF Linear
    <3> QED
      BY <3>1, <3>2
  <2>4. CASE j = 1
    BY <2>3, <2>4
  <2>5. CASE j # 1
    <3>1. 1 < j
      BY <1>1, <2>5
    <3>2. <<t[1], t[j]>> \in less
      BY <2>1, <3>1 DEF InOrder, b
    <3> QED
      BY <1>1, <2>1, <2>3, <3>2 DEF Linear
  <2> QED
    BY <2>4, <2>5
<1>3. /\ Len(r) = a + b
      /\ \A i \in 1 .. a : r[i] = s[i]
      /\ \A j \in 1 .. b : r[a + j] = t[j]
  BY DEF Behind, a, b
<1>4. ASSUME NEW i \in 1 .. a + b, NEW j \in 1 .. a + b, i < j
      PROVE  <<r[i], r[j]>> \in less
  <2>1. CASE j <= a
    <3>1. i \in 1 .. a /\ j \in 1 .. a
      BY <1>1, <1>4, <2>1
    <3>2. <<s[i], s[j]>> \in less
      BY <1>4, <3>1 DEF InOrder, a
    <3> QED
      BY <1>3, <3>1, <3>2
  <2>2. CASE j > a
    <3>1. j - a \in 1 .. b /\ a + (j - a) = j
      BY <1>1, <2>2
    <3>2. r[j] = t[j - a]
      BY <1>3, <3>1
    <3>3. CASE i <= a
      BY <1>1, <1>2, <1>3, <3>1, <3>2, <3>3
    <3>4. CASE i > a
      <4>1. i - a \in 1 .. b /\ a + (i - a) = i /\ i - a < j - a
        BY <1>1, <1>4, <3>4
      <4>2. r[i] = t[i - a]
        BY <1>3, <4>1
      <4>3. <<t[i - a], t[j - a]>> \in less
        BY <3>1, <4>1 DEF InOrder, b
      <4> QED
        BY <3>2, <4>2, <4>3
    <3> QED
      BY <1>1, <3>3, <3>4
  <2> QED
    BY <1>1, <2>1, <2>2
<1> QED
  BY <1>3, <1>4 DEF InOrder

\* sort_bucket puts a bucket in order when its sorted prefix already is.
LEMMA SortedBucketInOrder ==
    ASSUME NEW st, NEW b, NEW its, NEW vl, NEW T, Linear(slot_order(st, its, vl), T),
           Lists(grouped(st, b), T), st.sorted_len[b] \in 0 .. Len(grouped(st, b)),
           \A p, z \in 1 .. st.sorted_len[b] :
               p < z => <<grouped(st, b)[p], grouped(st, b)[z]>> \in slot_order(st, its, vl)
    PROVE  InOrder(sorted_bucket(st, b, its, vl), slot_order(st, its, vl))
<1> DEFINE less == slot_order(st, its, vl)
           slots == grouped(st, b)
           a == st.sorted_len[b]
           n == Len(slots)
           prefix == SubSeq(slots, 1, a)
           back == SubSeq(slots, a + 1, n)
           tail == IF is_sorted(back, less) THEN back ELSE stable_sort(back, less)
           r == sorted_bucket(st, b, its, vl)
<1>1. r = IF back = << >> THEN slots
          ELSE IF prefix # << >> /\ <<tail[1], Last(prefix)>> \in less
               THEN inplace_merge(prefix, tail, less) ELSE prefix \o tail
  BY DEF sorted_bucket
<1>2. /\ slots \in Seq(T) /\ n \in Nat /\ a \in 0 .. n
      /\ \A i, j \in 1 .. n : slots[i] = slots[j] => i = j
  BY DEF Lists
<1>3. \A p, z \in 1 .. a : p < z => <<slots[p], slots[z]>> \in less
  OBVIOUS
<1>4. Linear(less, T)
  OBVIOUS
<1> HIDE DEF less, slots, a, r
<1>5. /\ prefix \in Seq(T) /\ Len(prefix) = a /\ \A i \in 1 .. a : prefix[i] = slots[i]
  <2>1. 0 \in 0 .. n /\ a \in 0 .. n /\ a - 0 = a /\ 0 + 1 = 1 /\ 0 <= a
    BY <1>2
  <2>2. /\ SubSeq(slots, 0 + 1, a) \in Seq(T) /\ Len(SubSeq(slots, 0 + 1, a)) = a - 0
        /\ \A i \in 1 .. a - 0 : SubSeq(slots, 0 + 1, a)[i] = slots[0 + i]
    BY <1>2, <2>1, Slice
  <2>3. \A i \in 1 .. a : 0 + i = i
    BY <1>2
  <2> QED
    BY <2>1, <2>2, <2>3
<1>6. /\ back \in Seq(T) /\ Len(back) = n - a /\ \A i \in 1 .. n - a : back[i] = slots[a + i]
  <2>1. n \in a .. n
    BY <1>2
  <2> QED
    BY <1>2, <2>1, Slice
<1> HIDE DEF n, prefix, back
<1>7. InOrder(prefix, less)
  BY <1>3, <1>5 DEF InOrder
<1>8. \A i, j \in 1 .. Len(back) : back[i] = back[j] => i = j
  <2> SUFFICES ASSUME NEW i \in 1 .. Len(back), NEW j \in 1 .. Len(back), back[i] = back[j]
               PROVE  i = j
    OBVIOUS
  <2>1. a + i \in 1 .. n /\ a + j \in 1 .. n /\ slots[a + i] = slots[a + j]
    BY <1>2, <1>6
  <2>2. a + i = a + j
    BY <1>2, <2>1
  <2> QED
    BY <1>2, <2>2
<1>9. tail \in Seq(T) /\ Rearranges(tail, back)
  <2>1. CASE is_sorted(back, less)
    BY <1>6, <2>1 DEF Rearranges
  <2>2. CASE ~ is_sorted(back, less)
    BY <1>6, <2>2, SortRearranges
  <2> QED
    BY <2>1, <2>2
<1>10. InOrder(tail, less)
  <2>1. CASE is_sorted(back, less)
    BY <1>4, <1>6, <1>8, <2>1, SortedInOrder
  <2>2. CASE ~ is_sorted(back, less)
    BY <1>4, <1>6, <1>8, <2>2, SortInOrder
  <2> QED
    BY <2>1, <2>2
<1> HIDE DEF tail
<1>11. \A i \in 1 .. Len(prefix), j \in 1 .. Len(tail) : prefix[i] # tail[j]
  <2> SUFFICES ASSUME NEW i \in 1 .. Len(prefix), NEW j \in 1 .. Len(tail), prefix[i] = tail[j]
               PROVE  FALSE
    OBVIOUS
  <2>1. tail[j] \in ToSet(back)
    <3>1. tail[j] \in ToSet(tail)
      BY <1>9 DEF ToSet
    <3> QED
      BY <1>9, <3>1 DEF Rearranges
  <2>2. PICK z \in 1 .. n - a : tail[j] = slots[a + z]
    BY <1>6, <2>1 DEF ToSet
  <2>3. i \in 1 .. a /\ i \in 1 .. n /\ a + z \in 1 .. n /\ i < a + z
    BY <1>2, <1>5
  <2>4. slots[i] = slots[a + z]
    BY <1>5, <2>2, <2>3
  <2> QED
    BY <1>2, <2>3, <2>4
<1>12. CASE back = << >>
  <2>1. n = a /\ r = slots
    BY <1>1, <1>2, <1>6, <1>12
  <2> QED
    BY <1>3, <2>1 DEF InOrder, n, r, less
<1>13. CASE back # << >> /\ prefix # << >> /\ <<tail[1], Last(prefix)>> \in less
  <2>1. r = inplace_merge(prefix, tail, less)
    BY <1>1, <1>13
  <2>2. InOrder(inplace_merge(prefix, tail, less), less)
    BY <1>4, <1>5, <1>7, <1>9, <1>10, <1>11, MergeInOrder
  <2> QED
    BY <2>1, <2>2 DEF r, less
<1>14. CASE back # << >> /\ ~ (prefix # << >> /\ <<tail[1], Last(prefix)>> \in less)
  <2> DEFINE c == prefix \o tail
  <2>1. r = c
    BY <1>1, <1>14
  <2>2. Behind(c, prefix, tail, T)
    BY <1>5, <1>9, Concatenation
  <2> HIDE DEF c
  <2>3. Meets(prefix, tail, less)
    <3> SUFFICES ASSUME Len(prefix) \in Nat \ {0}, Len(tail) \in Nat \ {0}
                 PROVE  <<prefix[Len(prefix)], tail[1]>> \in less
      BY DEF Meets
    <3>1. Len(prefix) \in 1 .. Len(prefix) /\ 1 \in 1 .. Len(tail)
      OBVIOUS
    <3>2. Last(prefix) = prefix[Len(prefix)] /\ prefix # << >>
      BY DEF Last
    <3>3. <<tail[1], prefix[Len(prefix)]>> \notin less
      BY <1>14, <3>2
    <3>4. prefix[Len(prefix)] # tail[1] /\ prefix[Len(prefix)] \in T /\ tail[1] \in T
      BY <1>5, <1>9, <1>11, <3>1
    <3> QED
      BY <1>4, <3>3, <3>4 DEF Linear
  <2>4. InOrder(c, less)
    BY <1>4, <1>5, <1>7, <1>9, <1>10, <2>2, <2>3, BehindInOrder
  <2> QED
    BY <2>1, <2>4 DEF r, less
<1> QED
  BY <1>12, <1>13, <1>14

\* The segments of joined parts are the parts.
LEMMA PartsAreSegments ==
    ASSUME NEW X, NEW k \in Nat, NEW parts, Len(parts) = k, \A b \in 1 .. k : parts[b] \in Seq(X),
           NEW b \in 1 .. k
    PROVE  segment(joined(parts), prefix_sums(lengths(parts, k)), b) = parts[b]
<1> DEFINE r == joined(parts)
           off == prefix_sums(lengths(parts, k))
           q == segment(r, off, b)
           m == Len(parts[b])
<1>1. JoinedAt(r, off, parts, k, X)
  BY JoinedPlaces
<1> HIDE DEF r, off
<1>2. /\ r \in Seq(X) /\ Len(r) = off[k + 1] /\ Offsets(off, k, lengths(parts, k))
      /\ \A j \in 1 .. m : r[off[b] + j] = parts[b][j]
  BY <1>1 DEF JoinedAt
<1>3. \A c \in 1 .. k : lengths(parts, k)[c] \in Nat /\ Len(parts[c]) \in Nat
  BY DEF lengths
<1>4. off[b + 1] = off[b] + m
  BY <1>2 DEF Offsets, lengths
<1>5. b \in 1 .. k + 1 /\ k + 1 \in b + 1 .. k + 1 /\ b + 1 \in 1 .. k + 1
  OBVIOUS
<1>6. off[b] \in Nat /\ off[b + 1] \in Nat /\ off[b + 1] <= off[k + 1] /\ off[k + 1] \in Nat
  <2>1. off[b] \in Nat
    BY <1>2, <1>5 DEF Offsets
  <2> QED
    BY <1>2, <1>3, <1>5, <2>1, OffsetsGrow
<1>7. m \in Nat /\ parts[b] \in Seq(X)
  BY <1>3
<1> HIDE DEF m
<1>8. /\ off[b] \in 0 .. Len(r) /\ off[b + 1] \in off[b] .. Len(r) /\ off[b + 1] - off[b] = m
  <2>1. Len(r) = off[k + 1]
    BY <1>2
  <2>2. m \in Nat
    BY <1>7
  <2>3. off[b] \in Nat /\ off[b + 1] \in Nat /\ off[b + 1] = off[b] + m /\ off[b + 1] <= Len(r)
        /\ Len(r) \in Nat
    BY <1>4, <1>6, <2>1
  <2> DEFINE x == off[b]
             y == off[b + 1]
             l == Len(r)
  <2>4. x \in Nat /\ y \in Nat /\ y = x + m /\ y <= l /\ l \in Nat
    BY <2>3
  <2> HIDE DEF x, y, l
  <2>5. x \in 0 .. l /\ y \in x .. l /\ y - x = m
    BY <2>2, <2>4
  <2> QED
    BY <2>5 DEF x, y, l
<1>9. /\ q \in Seq(X) /\ Len(q) = m /\ \A i \in 1 .. m : q[i] = r[off[b] + i]
  <2> DEFINE lo == off[b]
             hi == off[b + 1]
  <2>1. lo \in 0 .. Len(r) /\ hi \in lo .. Len(r) /\ hi - lo = m
    BY <1>8
  <2>2. q = SubSeq(r, lo + 1, hi)
    BY DEF segment
  <2> HIDE DEF lo, hi, q
  <2>3. /\ SubSeq(r, lo + 1, hi) \in Seq(X) /\ Len(SubSeq(r, lo + 1, hi)) = hi - lo
        /\ \A i \in 1 .. hi - lo : SubSeq(r, lo + 1, hi)[i] = r[lo + i]
    BY <1>2, <2>1, Slice
  <2> QED
    BY <2>1, <2>2, <2>3 DEF lo
<1> HIDE DEF q
<1>10. q = [i \in 1 .. m |-> q[i]] /\ parts[b] = [i \in 1 .. m |-> parts[b][i]]
  BY <1>7, <1>9 DEF m
<1>11. \A i \in 1 .. m : q[i] = parts[b][i]
  BY <1>2, <1>9
<1>12. q = parts[b]
  BY <1>10, <1>11
<1> QED
  BY <1>12 DEF q, r, off

\* The b-th of k parts lists the slots among the first n that e puts into bucket b.
ListsOfBuckets(parts, k, n, e) ==
    /\ DOMAIN e = 1 .. n /\ \A x \in 1 .. n : e[x] \in 1 .. k
    /\ Len(parts) = k /\ \A b \in 1 .. k : Lists(parts[b], Class(1 .. n, e, b))

\* So the segments of a grouping by the boundaries its counts give are the parts
\* it was joined from.
LEMMA SegmentsOfClasses ==
    ASSUME NEW k \in Nat, NEW n, NEW e, NEW parts, ListsOfBuckets(parts, k, n, e), NEW b \in 1 .. k
    PROVE  segment(joined(parts), prefix_sums(tally(e, k)), b) = parts[b]
<1> DEFINE U == 1 .. n
<1>1. /\ DOMAIN e = 1 .. n /\ \A x \in 1 .. n : e[x] \in 1 .. k
      /\ Len(parts) = k /\ \A c \in 1 .. k : Lists(parts[c], Class(1 .. n, e, c))
  BY DEF ListsOfBuckets
<1>2. \A c \in 1 .. k : parts[c] \in Seq(U) /\ Len(parts[c]) \in Nat
  <2> SUFFICES ASSUME NEW c \in 1 .. k
               PROVE  parts[c] \in Seq(U) /\ Len(parts[c]) \in Nat
    OBVIOUS
  <2>1. parts[c] \in Seq(Class(U, e, c))
    BY <1>1 DEF Lists
  <2>2. Class(U, e, c) \subseteq U
    BY DEF Class
  <2> HIDE DEF U
  <2> QED
    BY <2>1, <2>2
<1>3. Arranged(joined(parts), prefix_sums(lengths(parts, k)), k, U, e)
  BY <1>1, JoinedArranged
<1>4. lengths(parts, k) = tally(e, k)
  BY <1>2, <1>3, <1>1, SumsOfTally
<1> HIDE DEF U
<1>5. segment(joined(parts), prefix_sums(lengths(parts, k)), b) = parts[b]
  BY <1>2, <1>1, PartsAreSegments
<1> QED
  BY <1>4, <1>5

\* Sorting a bucket puts it in order and leaves the others as they are.
LEMMA SortOrdered ==
    ASSUME NEW s, NEW its, NEW vl, NEW bs, Ready(s, its, vl), GroupedIn(s), OrderedIn(s, its, vl),
           s.has_order = TRUE, s.order_stale = FALSE,
           NEW t, t = sort_buckets(s, bs, its, vl), Ready(t, its, vl)
    PROVE  OrderedIn(t, its, vl)
<1> DEFINE n == Len(its)
           k == bucket_total(s)
           e == s.buckets
           parts == bucket_parts(s, bs, its, vl)
<1>1. Typed(s, k, n)
  BY ReadyTyped
<1>2. PrefixesIn(s) /\ s.start = prefix_sums(s.counts) /\ s.moved = {} /\ s.ordered_slots = n
  BY CurrentGrouping
<1>3. SortResult(t, s, bs, its, vl)
  BY <1>1, SortFields DEF Typed
<1>4. t.name = s.name /\ t.keys = s.keys
  BY <1>1 DEF sort_buckets, Typed, KeyFields
<1>5. /\ t.layouts = s.layouts /\ t.start = s.start /\ t.moved = {} /\ t.order = joined(parts)
      /\ t.sorted_len = [b \in DOMAIN s.sorted_len |->
                            IF b \in bs THEN s.start[b + 1] - s.start[b] ELSE s.sorted_len[b]]
  BY <1>2, <1>3 DEF SortResult
<1>6. bucket_total(t) = k
  BY <1>5, SameTotal
<1>7. /\ k \in Nat /\ n \in Nat /\ s.counts = tally(e, k) /\ DOMAIN e = 1 .. n
      /\ \A x \in 1 .. n : e[x] \in 1 .. k
  BY <1>1 DEF Typed
<1>8. DOMAIN s.sorted_len = 1 .. k
  BY <1>2 DEF PrefixesIn
<1>9. parts = [b \in 1 .. k |-> IF b \in bs THEN sorted_bucket(s, b, its, vl) ELSE grouped(s, b)]
  <2> DEFINE sl == s.sorted_len
  <2> HIDE DEF k, sl
  <2>1. DOMAIN sl = 1 .. k
    BY <1>8 DEF sl
  <2>2. Len(sl) = k
    BY <1>7, <2>1
  <2> QED
    BY <2>2 DEF bucket_parts, sl
<1> HIDE DEF parts
<1>10. \A b \in 1 .. k : \E T : BucketHolds(s, b, T)
  BY BucketOfGrouping
<1> HIDE DEF k, n, e
<1>11. ASSUME NEW b \in 1 .. k
       PROVE  /\ Lists(grouped(s, b), Class(1 .. n, e, b))
              /\ s.sorted_len[b] \in 0 .. Len(grouped(s, b))
              /\ Len(grouped(s, b)) = s.start[b + 1] - s.start[b]
  <2>1. PICK d : Placed(s, d)
    BY DEF GroupedIn
  <2> DEFINE r == s.order
             off == s.start
             U == 1 .. n
  <2>2. Arranged(r, off, k, U, e)
    BY CurrentGrouping DEF k, n, e
  <2>3. grouped(s, b) = segment(r, off, b)
    BY DEF grouped, segment
  <2> HIDE DEF r, off, U
  <2>4. Lists(segment(r, off, b), Class(U, e, b)) /\ Len(segment(r, off, b)) = off[b + 1] - off[b]
    BY <1>7, <2>2, SegmentLists
  <2>5. s.sorted_len[b] \in 0 .. off[b + 1] - off[b]
    BY <1>2 DEF PrefixesIn, k, off
  <2> QED
    BY <2>3, <2>4, <2>5 DEF U, off
<1>12. ASSUME NEW b \in 1 .. k
       PROVE  Lists(parts[b], Class(1 .. n, e, b))
  <2> DEFINE T == Class(1 .. n, e, b)
  <2> HIDE DEF T
  <2>1. Lists(grouped(s, b), T) /\ s.sorted_len[b] \in 0 .. Len(grouped(s, b))
    BY <1>11 DEF T
  <2>2. Lists(sorted_bucket(s, b, its, vl), T)
    BY <2>1, SortedBucketLists
  <2> QED
    BY <1>9, <2>1, <2>2 DEF T
<1> SUFFICES ASSUME s.name \in Ordering, NEW b \in 1 .. k
             PROVE  PrefixInOrder(t, its, vl, b)
  BY <1>4, <1>6 DEF OrderedIn
<1> DEFINE less == slot_order(s, its, vl)
           q == grouped(s, b)
           T == Class(1 .. n, e, b)
<1>13. grouped(t, b) = parts[b]
  <2>1. Len(parts) = k
    BY <1>7, <1>9
  <2>2. segment(joined(parts), prefix_sums(tally(e, k)), b) = parts[b]
    <3>1. ListsOfBuckets(parts, k, n, e)
      BY <1>7, <1>12, <2>1 DEF ListsOfBuckets
    <3> HIDE DEF less, q, T
    <3> QED
      BY <1>7, <3>1, SegmentsOfClasses
  <2>3. grouped(t, b) = segment(joined(parts), prefix_sums(tally(e, k)), b)
    BY <1>2, <1>5, <1>7 DEF grouped, segment
  <2> QED
    BY <2>2, <2>3
<1>14. slot_order(t, its, vl) = less
  BY <1>4 DEF slot_order, slot_less
<1>15. PrefixInOrder(s, its, vl, b)
  BY DEF OrderedIn, k
<1> DEFINE V == 1 .. n
<1>16. q \in Seq(V) /\ T \in SUBSET V /\ Lists(q, T) /\ Len(q) \in Nat
  <2>1. Lists(q, T) /\ T \subseteq V
    BY <1>11 DEF Class
  <2>2. q \in Seq(T)
    BY <2>1 DEF Lists
  <2> HIDE DEF q, T, V
  <2> QED
    BY <2>1, <2>2
<1>17. ASSUME NEW p \in 1 .. s.sorted_len[b], NEW z \in 1 .. s.sorted_len[b], p < z
       PROVE  <<q[p], q[z]>> \in less
  <2>1. s.sorted_len[b] \in 0 .. Len(q)
    BY <1>11
  <2>2. p \in 1 .. Len(q) /\ z \in 1 .. Len(q)
    BY <1>16, <2>1
  <2> HIDE DEF q
  <2>3. q[p] \in V /\ q[z] \in V
    <3> HIDE DEF V, T
    <3> QED
      BY <1>16, <2>2
  <2>4. q[p] \in Unmoved(s, its) /\ q[z] \in Unmoved(s, its)
    BY <1>2, <2>3 DEF Unmoved, V, n
  <2>5. /\ p \in leading(q, s.sorted_len[b], Unmoved(s, its))
        /\ z \in leading(q, s.sorted_len[b], Unmoved(s, its))
    BY <2>4 DEF leading
  <2> QED
    BY <1>15, <1>17, <2>5 DEF PrefixInOrder, q
<1>18. CASE b \in bs
  <2>1. Linear(less, T)
    <3>1. \A x, y \in T : s.buckets[x] = s.buckets[y]
      BY DEF Class, e
    <3>2. T \in SUBSET (1 .. Len(its))
      BY <1>16 DEF V, n
    <3> HIDE DEF T
    <3> QED
      BY <3>1, <3>2, BucketLinear
  <2>2. InOrder(sorted_bucket(s, b, its, vl), slot_order(s, its, vl))
    <3>1. s.sorted_len[b] \in 0 .. Len(q)
      BY <1>11
    <3> HIDE DEF T
    <3> QED
      BY <1>16, <1>17, <2>1, <3>1, SortedBucketInOrder
  <2>3. parts[b] = sorted_bucket(s, b, its, vl)
    BY <1>9, <1>18
  <2>4. InOrder(parts[b], less)
    BY <2>2, <2>3
  <2>5. t.sorted_len[b] = Len(parts[b])
    <3>1. t.sorted_len[b] = Len(q)
      BY <1>5, <1>8, <1>11, <1>18
    <3>2. Cardinality(T) = Len(q) /\ Cardinality(T) = Len(parts[b])
      BY <1>12, <1>16, ListsCount
    <3> QED
      BY <3>1, <3>2
  <2> QED
    BY <1>13, <1>14, <2>4, <2>5 DEF PrefixInOrder, InOrder, leading
<1>19. CASE b \notin bs
  <2>1. parts[b] = q /\ t.sorted_len[b] = s.sorted_len[b]
    BY <1>5, <1>8, <1>9, <1>19
  <2> QED
    BY <1>13, <1>14, <1>17, <2>1 DEF PrefixInOrder, leading
<1> QED
  BY <1>18, <1>19

\* Place v of r is place z of the segment of bucket b.
InSegment(r, off, b, z, v) ==
    z \in 1 .. Len(segment(r, off, b)) /\ v \in 1 .. Len(r) /\ r[v] = segment(r, off, b)[z]

\* A place of the segment of bucket b before its place z has the element x.
HasBefore(r, off, b, z, x) ==
    \E p \in 1 .. Len(segment(r, off, b)) : p < z /\ segment(r, off, b)[p] = x

\* What stands before an element of a segment and belongs to the same bucket
\* stands before it in the segment.
LEMMA BeforeInSegment ==
    ASSUME NEW k \in Nat, NEW U, NEW d, NEW r, NEW off, Arranged(r, off, k, U, d), NEW b \in 1 .. k,
           NEW z, NEW v, InSegment(r, off, b, z, v), NEW u \in 1 .. Len(r), u < v, d[r[u]] = b
    PROVE  HasBefore(r, off, b, z, r[u])
<1> DEFINE lo == off[b]
           hi == off[b + 1]
           q == segment(r, off, b)
<1>1. /\ r \in Seq(U) /\ Len(r) \in Nat /\ Ladder(off, k) /\ off[k + 1] = Len(r)
      /\ \A i, j \in 1 .. Len(r) : r[i] = r[j] => i = j
      /\ \A c \in 1 .. k : \A p \in off[c] + 1 .. off[c + 1] : d[r[p]] = c
  <2>1. Lists(r, U) /\ Ladder(off, k) /\ off[k + 1] = Len(r)
    BY DEF Arranged
  <2>2. \A c \in 1 .. k : \A p \in off[c] + 1 .. off[c + 1] : d[r[p]] = c
    BY DEF Arranged
  <2>3. r \in Seq(U) /\ Len(r) \in Nat /\ \A i, j \in 1 .. Len(r) : r[i] = r[j] => i = j
    BY <2>1 DEF Lists
  <2> HIDE DEF lo, hi, q
  <2> QED
    BY <2>1, <2>2, <2>3
<1>2. lo \in Nat /\ hi \in Nat /\ lo <= hi /\ hi <= Len(r)
  BY <1>1, LadderBounds
<1>3. Len(q) = hi - lo /\ \A i \in 1 .. hi - lo : q[i] = r[lo + i]
  <2>1. lo \in 0 .. Len(r) /\ hi \in lo .. Len(r)
    BY <1>1, <1>2
  <2>2. q = SubSeq(r, lo + 1, hi)
    BY DEF segment
  <2> HIDE DEF lo, hi, q
  <2> QED
    BY <1>1, <2>1, <2>2, Slice
<1>4. z \in 1 .. Len(q) /\ v \in 1 .. Len(r) /\ r[v] = q[z]
  BY DEF InSegment
<1>5. u \in lo + 1 .. hi
  <2>1. PICK c \in 1 .. k : u \in off[c] + 1 .. off[c + 1]
    BY <1>1, LadderSegment
  <2>2. d[r[u]] = c
    BY <1>1, <2>1
  <2> QED
    BY <2>1, <2>2
<1> HIDE DEF lo, hi, q
<1>6. lo + z \in 1 .. Len(r) /\ v = lo + z
  <2>1. lo + z \in 1 .. Len(r)
    BY <1>1, <1>2, <1>3, <1>4
  <2>2. r[v] = r[lo + z]
    BY <1>3, <1>4
  <2> QED
    BY <1>1, <1>4, <2>1, <2>2
<1>7. /\ u - lo \in 1 .. hi - lo /\ lo + (u - lo) = u /\ u - lo < z
  <2>1. lo \in Nat /\ hi \in Nat
    BY <1>2
  <2>2. u \in Int /\ lo + 1 <= u /\ u <= hi
    BY <1>5, <2>1
  <2>3. Len(q) \in Nat
    BY <1>3, <1>5, <2>1, <2>2
  <2>4. z \in Int
    BY <1>4, <2>3
  <2>5. u < lo + z
    BY <1>6
  <2> QED
    BY <2>1, <2>2, <2>4, <2>5
<1>8. q[u - lo] = r[u]
  BY <1>3, <1>7
<1> QED
  BY <1>3, <1>7, <1>8 DEF HasBefore, q

\* What the queue has in places u and v, the grouping has in the same order.
TakenInOrder(s, n, u, v) ==
    /\ requeued(s, n)[u] \in (1 .. n) \ s.moved
    /\ \E x, y \in 1 .. Len(s.order) : /\ x < y
                                       /\ requeued(s, n)[u] = s.order[x]
                                       /\ requeued(s, n)[v] = s.order[y]

\* regroup distributes the slots that stay in the order they had and before all
\* others.
LEMMA RequeuedBefore ==
    ASSUME NEW s, NEW n \in Nat, s.ordered_slots \in 0 .. n, Lists(s.order, 1 .. s.ordered_slots),
           NEW u \in 1 .. Len(requeued(s, n)), NEW v \in 1 .. Len(requeued(s, n)), u < v,
           requeued(s, n)[v] \in 1 .. s.ordered_slots, requeued(s, n)[v] \notin s.moved
    PROVE  TakenInOrder(s, n, u, v)
<1> SUFFICES /\ requeued(s, n)[u] \in (1 .. n) \ s.moved
             /\ \E x, y \in 1 .. Len(s.order) : /\ x < y
                                                /\ requeued(s, n)[u] = s.order[x]
                                                /\ requeued(s, n)[v] = s.order[y]
  BY DEF TakenInOrder
<1> DEFINE o == s.ordered_slots
           N == 1 .. n
           M == (1 .. n) \ s.moved
           kept == only(s.order, M)
           back == only(s.order, s.moved)
           new == interval(o, n)
           r == requeued(s, n)
           a == Len(kept)
           b == Len(back)
           c == Len(new)
<1>1. r = (kept \o back) \o new
  BY DEF requeued
<1>2. s.order \in Seq(N)
  <2> DEFINE ord == s.order
             O == 1 .. o
  <2>1. ord \in Seq(O)
    BY DEF Lists
  <2>2. O \subseteq N
    OBVIOUS
  <2> HIDE DEF N, O, ord
  <2>3. ord \in Seq(N)
    BY <2>1, <2>2
  <2> QED
    BY <2>3 DEF ord
<1>3. /\ kept \in Seq(N) /\ Follows(kept, s.order) /\ \A i \in 1 .. a : kept[i] \in M
      /\ back \in Seq(N) /\ \A i \in 1 .. b : back[i] \in s.moved
  <2> HIDE DEF N, M
  <2> QED
    BY <1>2, OnlyPlaces, OnlyFollows
<1>4. /\ new \in Seq(N) /\ c = n - o /\ \A i \in 1 .. n - o : new[i] = o + i
  <2>1. new = [i \in 1 .. n - o |-> o + i]
    BY DEF interval
  <2>2. n - o \in Nat /\ \A i \in 1 .. n - o : o + i \in N
    OBVIOUS
  <2> HIDE DEF new, N, o
  <2> QED
    BY <2>1, <2>2
<1>5. /\ o \in Nat /\ r[v] \in 1 .. o /\ r[v] \notin s.moved
      /\ u \in 1 .. Len(r) /\ v \in 1 .. Len(r)
  OBVIOUS
<1> HIDE DEF N, o, kept, back, new, r, M
<1>6. a \in Nat /\ b \in Nat /\ c \in Nat
  BY <1>3, <1>4
<1> DEFINE f == kept \o back
<1>7. /\ Len(f) = a + b /\ (\A i \in 1 .. a : f[i] = kept[i])
      /\ \A i \in 1 .. b : f[a + i] = back[i]
  BY <1>3, Concatenation DEF Behind
<1>8. f \in Seq(N)
  BY <1>3
<1> HIDE DEF f, a, b, c
<1>9. /\ Len(r) = Len(f) + c /\ (\A i \in 1 .. Len(f) : r[i] = f[i])
      /\ \A i \in 1 .. c : r[Len(f) + i] = new[i]
  <2>1. r = f \o new
    BY <1>1 DEF f
  <2>2. Behind(r, f, new, N)
    BY <1>4, <1>8, <2>1, Concatenation
  <2> QED
    BY <2>2 DEF Behind, c
<1>10. v \in 1 .. a
  <2>1. CASE v > a + b
    <3>1. v - (a + b) \in 1 .. c /\ (a + b) + (v - (a + b)) = v
      BY <1>5, <1>6, <1>7, <1>9, <2>1
    <3>2. r[v] = o + (v - (a + b))
      BY <1>4, <1>7, <1>9, <3>1
    <3> QED
      BY <1>5, <1>6, <3>1, <3>2
  <2>2. CASE v > a /\ v <= a + b
    <3>1. v - a \in 1 .. b /\ a + (v - a) = v /\ v \in 1 .. a + b
      BY <1>5, <1>6, <2>2
    <3>2. r[v] = back[v - a]
      BY <1>7, <1>9, <3>1
    <3>3. back[v - a] \in s.moved
      BY <1>3, <3>1 DEF b
    <3> QED
      BY <1>5, <3>2, <3>3
  <2> QED
    BY <1>5, <1>6, <2>1, <2>2
<1>11. u \in 1 .. a
  BY <1>5, <1>6, <1>10
<1>12. \A i \in 1 .. a : r[i] = kept[i]
  BY <1>6, <1>7, <1>9
<1>13. /\ r[u] \in M
       /\ \E x, y \in 1 .. Len(s.order) : x < y /\ r[u] = s.order[x] /\ r[v] = s.order[y]
  <2>1. r[u] = kept[u] /\ r[v] = kept[v] /\ u \in 1 .. Len(kept) /\ v \in 1 .. Len(kept)
    BY <1>10, <1>11, <1>12 DEF a
  <2>2. kept[u] \in M
    BY <1>3, <2>1 DEF a
  <2>3. \E x, y \in 1 .. Len(s.order) : x < y /\ kept[u] = s.order[x] /\ kept[v] = s.order[y]
    BY <1>3, <2>1 DEF Follows
  <2> QED
    BY <2>1, <2>2, <2>3
<1> QED
  BY <1>13 DEF r, M

\* regroup keeps what stays of every sorted prefix, in its order and in front.
LEMMA RegroupOrdered ==
    ASSUME NEW s, NEW its, NEW vl, Ready(s, its, vl), GroupedIn(s), OrderedIn(s, its, vl),
           s.has_order = TRUE, NEW t, t = regroup(s, Len(its)), Ready(t, its, vl)
    PROVE  OrderedIn(t, its, vl)
<1> DEFINE n == Len(its)
           k == bucket_total(s)
           e == s.buckets
           o == s.ordered_slots
           M == Unmoved(s, its)
           Q == requeued(s, n)
           dest == destinations(s, n)
           parts == [b \in 1 .. k |-> only(Q, {x \in DOMAIN dest : dest[x] = b})]
<1>1. Typed(s, k, n)
  BY ReadyTyped
<1>2. RegroupResult(t, s, n)
  <2>1. DOMAIN s = KeyFields
    BY <1>1 DEF Typed
  <2> HIDE DEF n
  <2> QED
    BY <2>1, RegroupFields DEF n
<1>3. t.name = s.name /\ t.keys = s.keys
  BY <1>1 DEF regroup, Typed, KeyFields
<1>4. M = 1 .. n \ s.moved
  BY DEF Unmoved
<1>5. /\ k \in Nat /\ n \in Nat /\ s.counts = tally(e, k) /\ DOMAIN e = 1 .. n
      /\ (\A x \in 1 .. n : e[x] \in 1 .. k) /\ o \in 0 .. n
  BY <1>1 DEF Typed
<1>6. PICK d : Placed(s, d)
  BY DEF GroupedIn
<1>7. \A x \in 1 .. n : dest[x] = e[x]
  BY <1>1, <1>6, DestinationsFit
<1>8. DOMAIN dest = 1 .. n
  BY DEF destinations
<1>9. \A b \in 1 .. k : \E T : BucketHolds(s, b, T)
  BY BucketOfGrouping
<1>10. \A b \in 1 .. k : s.name \in Ordering => PrefixInOrder(s, its, vl, b)
  BY DEF OrderedIn
<1>11. bucket_total(t) = k
  BY <1>2, SameTotal DEF RegroupResult
<1> HIDE DEF n, k, e, M, Q, dest, o
<1>12. Len(s.counts) = k
  BY <1>5, CountPerBucket
<1>13. /\ t.start = prefix_sums(tally(e, k)) /\ t.order = joined(parts)
       /\ t.sorted_len = surviving_prefix(s, M) /\ t.moved = {}
  <2>1. /\ t.start = prefix_sums(s.counts) /\ t.order = distribute(Q, dest, Len(s.counts))
        /\ t.sorted_len = surviving_prefix(s, M) /\ t.moved = {}
    BY <1>2, <1>4 DEF RegroupResult, Q, dest
  <2>2. distribute(Q, dest, k) = joined(parts)
    BY DEF distribute
  <2> QED
    BY <1>5, <1>12, <2>1, <2>2
<1>14. /\ Arranged(s.order, s.start, k, 1 .. o, d)
       /\ \A x \in 1 .. o : x \in s.moved \/ d[x] = e[x]
  BY <1>6 DEF Placed, k, o, e
<1>15. Lists(s.order, 1 .. o)
  BY <1>14 DEF Arranged
<1>16. Lists(Q, 1 .. n)
  BY <1>5, <1>15, RequeuedLists DEF Q, o
<1>17. ASSUME NEW b \in 1 .. k
       PROVE  Lists(parts[b], Class(1 .. n, e, b))
  <2> DEFINE D == {x \in DOMAIN dest : dest[x] = b}
             N == 1 .. n
  <2>1. N \cap D = Class(N, e, b)
    BY <1>7, <1>8 DEF Class
  <2>2. parts[b] = only(Q, D)
    OBVIOUS
  <2>3. Lists(Q, N)
    BY <1>16
  <2> HIDE DEF D, parts, N
  <2>4. Lists(only(Q, D), N \cap D)
    BY <2>3, ListsOnly
  <2> QED
    BY <2>1, <2>2, <2>4 DEF N
<1>18. ASSUME NEW b \in 1 .. k
       PROVE  grouped(t, b) = parts[b]
  <2>1. Len(parts) = k
    BY <1>5
  <2> HIDE DEF parts
  <2>2. ListsOfBuckets(parts, k, n, e)
    BY <1>5, <1>17, <2>1 DEF ListsOfBuckets
  <2>3. segment(joined(parts), prefix_sums(tally(e, k)), b) = parts[b]
    BY <1>5, <2>2, SegmentsOfClasses
  <2> QED
    BY <1>13, <2>3 DEF grouped, segment
<1> SUFFICES ASSUME s.name \in Ordering, NEW b \in 1 .. k
             PROVE  PrefixInOrder(t, its, vl, b)
  BY <1>3, <1>11 DEF OrderedIn
<1> DEFINE q == grouped(s, b)
           a == s.sorted_len[b]
           P == leading(q, a, M)
           r == parts[b]
           U == Class(1 .. n, e, b)
<1>19. PICK T : BucketHolds(s, b, T)
  BY <1>9
<1>20. /\ Lists(q, T) /\ T \subseteq 1 .. o /\ a \in 0 .. Len(q)
       /\ \A x \in T : x \in s.moved \/ e[x] = b
  BY <1>19 DEF BucketHolds, o, e
<1>21. t.sorted_len[b] = Cardinality(P)
  <2>1. DOMAIN s.sorted_len = 1 .. k
    BY DEF GroupedIn, PrefixesIn, k
  <2> QED
    BY <1>13, <2>1 DEF surviving_prefix, leading
<1>22. Lists(r, U)
  BY <1>17
<1>23. \E source : KeptPlaces(source, r, Q, Len(Q), {x \in DOMAIN dest : dest[x] = b})
  <2> DEFINE D == {x \in DOMAIN dest : dest[x] = b}
             N == 1 .. n
  <2>1. r = only(Q, D)
    OBVIOUS
  <2>2. Q \in Seq(N)
    BY <1>16 DEF Lists
  <2> HIDE DEF r, D, N
  <2>3. \E source : KeptPlaces(source, only(Q, D), Q, Len(Q), D)
    BY <2>2, OnlyPlaces
  <2> QED
    BY <2>1, <2>3 DEF D
<1> HIDE DEF r, parts
<1>24. ASSUME NEW p \in P
       PROVE  p \in 1 .. a /\ p \in 1 .. Len(q) /\ q[p] \in 1 .. o /\ q[p] \in M /\ q[p] \in U
  <2>1. p \in 1 .. a /\ q[p] \in M
    BY DEF leading
  <2> HIDE DEF P, q, a
  <2>2. p \in 1 .. Len(q) /\ q \in Seq(T) /\ Len(q) \in Nat
    BY <1>20, <2>1 DEF Lists
  <2>3. q[p] \in T
    BY <2>2
  <2>4. q[p] \in 1 .. n /\ q[p] \notin s.moved
    BY <1>4, <2>1
  <2> QED
    BY <1>20, <2>1, <2>2, <2>3, <2>4 DEF Class
<1>25. ASSUME NEW i \in 1 .. Len(r), NEW j \in 1 .. Len(r), NEW z \in P, i < j, r[j] = q[z]
       PROVE  \E p \in P : p < z /\ r[i] = q[p]
  <2>1. PICK source : KeptPlaces(source, r, Q, Len(Q), {x \in DOMAIN dest : dest[x] = b})
    BY <1>23
  <2>2. /\ source[i] \in 1 .. Len(Q) /\ source[j] \in 1 .. Len(Q) /\ source[i] < source[j]
        /\ r[i] = Q[source[i]] /\ r[j] = Q[source[j]]
        /\ r[i] \in DOMAIN dest /\ dest[r[i]] = b
    BY <1>25, <2>1 DEF KeptPlaces
  <2>3. Q[source[j]] \in 1 .. o /\ Q[source[j]] \notin s.moved
    BY <1>4, <1>24, <1>25, <2>2
  <2> DEFINE u == source[i]
             v == source[j]
  <2> HIDE DEF u, v
  <2>4. /\ Q[u] \in (1 .. n) \ s.moved
        /\ \E x, y \in 1 .. Len(s.order) : x < y /\ Q[u] = s.order[x] /\ Q[v] = s.order[y]
    <3>1. u \in 1 .. Len(Q) /\ v \in 1 .. Len(Q) /\ u < v /\ Q[v] \in 1 .. o /\ Q[v] \notin s.moved
      BY <2>2, <2>3 DEF u, v
    <3>2. n \in Nat /\ s.ordered_slots \in 0 .. n /\ Lists(s.order, 1 .. s.ordered_slots)
      BY <1>5, <1>15 DEF o
    <3>3. /\ u \in 1 .. Len(requeued(s, n)) /\ v \in 1 .. Len(requeued(s, n)) /\ u < v
          /\ requeued(s, n)[v] \in 1 .. s.ordered_slots /\ requeued(s, n)[v] \notin s.moved
      BY <3>1 DEF Q, o
    <3> HIDE DEF q, a, P, U
    <3>4. TakenInOrder(s, n, u, v)
      BY <3>2, <3>3, RequeuedBefore
    <3> QED
      BY <3>4 DEF TakenInOrder, Q
  <2>5. PICK x \in 1 .. Len(s.order), y \in 1 .. Len(s.order) :
            x < y /\ r[i] = s.order[x] /\ r[j] = s.order[y]
    BY <2>2, <2>4 DEF u, v
  <2> DEFINE ord == s.order
             off == s.start
             O == 1 .. o
  <2>6. d[r[i]] = b
    <3>1. r[i] \in 1 .. n /\ r[i] \notin s.moved /\ e[r[i]] = b
      BY <1>7, <1>8, <2>2, <2>4 DEF u
    <3>2. r[i] \in O
      <4>1. ord \in Seq(O) /\ r[i] = ord[x] /\ x \in 1 .. Len(ord)
        BY <1>15, <2>5 DEF Lists
      <4> HIDE DEF O, ord
      <4> QED
        BY <4>1
    <3> QED
      BY <1>14, <3>1, <3>2
  <2>7. q = segment(ord, off, b) /\ Arranged(ord, off, k, O, d)
    BY <1>14 DEF grouped, segment
  <2>8. z \in 1 .. Len(q) /\ ord[y] = q[z] /\ d[ord[x]] = b /\ x < y /\ ord[x] = r[i]
        /\ x \in 1 .. Len(ord) /\ y \in 1 .. Len(ord)
    BY <1>24, <1>25, <2>5, <2>6
  <2> HIDE DEF ord, off, O, q, P
  <2>9. \E p \in 1 .. Len(q) : p < z /\ q[p] = ord[x]
    <3> DEFINE g == segment(ord, off, b)
    <3>1. z \in 1 .. Len(g) /\ ord[y] = g[z]
      BY <2>7, <2>8
    <3>3. InSegment(ord, off, b, z, y)
      BY <2>8, <3>1 DEF InSegment
    <3>4. x \in 1 .. Len(ord) /\ x < y /\ d[ord[x]] = b
      BY <2>8
    <3>5. Arranged(ord, off, k, O, d) /\ k \in Nat
      BY <1>5, <2>7
    <3> HIDE DEF g, k
    <3>6. HasBefore(ord, off, b, z, ord[x])
      BY <3>3, <3>4, <3>5, BeforeInSegment
    <3>2. \E p \in 1 .. Len(g) : p < z /\ g[p] = ord[x]
      BY <3>6 DEF HasBefore, g
    <3>7. q = g
      BY <2>7 DEF g
    <3> QED
      BY <3>2, <3>7
  <2>10. PICK p \in 1 .. Len(q) : p < z /\ q[p] = r[i]
    BY <2>8, <2>9
  <2>11. p \in 1 .. a
    <3>1. z \in 1 .. a
      BY <1>24
    <3> HIDE DEF a
    <3> QED
      BY <1>20, <2>10, <3>1
  <2>12. r[i] \in M
    BY <1>4, <2>2, <2>4 DEF u
  <2>13. p \in P
    BY <2>10, <2>11, <2>12 DEF P, leading
  <2> QED
    BY <2>10, <2>13
<1>26. \A i, j \in 1 .. Cardinality(P) : i < j =>
           \E p, z \in P : p < z /\ r[i] = q[p] /\ r[j] = q[z]
  <2>1. \A p \in P : q[p] \in U
    BY <1>24
  <2>2. \A i, j \in 1 .. Len(r) : \A z \in P : i < j /\ r[j] = q[z] =>
            \E p \in P : p < z /\ r[i] = q[p]
    BY <1>25
  <2> HIDE DEF q, a, U, M
  <2> QED
    BY <1>20, <1>22, <2>1, <2>2, LeadingStay
<1>27. slot_order(t, its, vl) = slot_order(s, its, vl)
  BY <1>3 DEF slot_order, slot_less
<1>28. PrefixInOrder(s, its, vl, b)
  BY <1>10
<1>29. grouped(t, b) = r
  BY <1>18 DEF r
<1> SUFFICES ASSUME NEW i \in 1 .. Cardinality(P), NEW j \in 1 .. Cardinality(P), i < j
             PROVE  <<r[i], r[j]>> \in slot_order(s, its, vl)
  BY <1>21, <1>27, <1>29 DEF PrefixInOrder, leading
<1>30. PICK p \in P, z \in P : p < z /\ r[i] = q[p] /\ r[j] = q[z]
  BY <1>26
<1> QED
  BY <1>28, <1>30 DEF PrefixInOrder, M

\* append leaves the sorted prefixes alone.
LEMMA AppendOrdered ==
    ASSUME NEW s, NEW t, NEW its, NEW vl, NEW its2, NEW vl2, Ready(s, its, vl), GroupedIn(s),
           OrderedIn(s, its, vl), Ready(t, its2, vl2), Appended(s, t, its, vl, its2, vl2)
    PROVE  OrderedIn(t, its2, vl2)
<1> DEFINE n == Len(its)
<1>1. Extends(its, vl, its2, vl2) /\ t = append(s, n, its2, vl2)
  BY DEF Appended
<1>2. Typed(s, bucket_total(s), n)
  BY ReadyTyped
<1>3. t.name = s.name
  BY <1>1, AppendConsistent DEF Ready
<1>4. AppendResult(t, s, n, its2)
  <2>1. DOMAIN s = KeyFields
    BY <1>2 DEF Typed
  <2> QED
    BY <1>1, <2>1, AppendFields
<1>5. /\ t.layouts = s.layouts
      /\ t.has_order = s.has_order /\ t.order = s.order /\ t.start = s.start
      /\ t.sorted_len = s.sorted_len /\ t.moved = s.moved
  BY <1>4 DEF AppendResult
<1>6. /\ n \in Nat /\ Len(its2) \in Nat /\ n <= Len(its2)
      /\ \A x \in 1 .. n : its2[x] = its[x] /\ vl2[its[x]] = vl[its[x]]
  BY <1>1 DEF Extends, Collection
<1>7. s.ordered_slots \in 0 .. n
  BY <1>2 DEF Typed
<1> HIDE DEF n
<1>8. \A x \in 1 .. s.ordered_slots :
          x \notin t.moved => x \in 1 .. Len(its2) /\ vl2[its2[x]] = vl[its[x]]
  BY <1>6, <1>7
<1> QED
  BY <1>3, <1>5, <1>8, StillOrdered

\* rekey keeps what it did not change in order; what it changed waits to be
\* re-placed.
LEMMA RekeyOrdered ==
    ASSUME NEW s, NEW t, NEW its, NEW vl, NEW its2, NEW vl2, Ready(s, its, vl), GroupedIn(s),
           OrderedIn(s, its, vl), Ready(t, its2, vl2), Rekeyed(s, t, its, vl, its2, vl2)
    PROVE  OrderedIn(t, its2, vl2)
<1> DEFINE n == Len(its)
<1>1. PICK hit \in SUBSET DOMAIN its :
          /\ \A x \in DOMAIN its : x \notin hit => vl2[its[x]] = vl[its[x]]
          /\ t = rekey(s, hit, its, vl2)
  BY DEF Rekeyed
<1>2. its2 = its /\ Collection(its, vl) /\ Collection(its, vl2) /\ Consistent(s, its, vl)
  BY DEF Rekeyed, Ready
<1>3. Typed(s, bucket_total(s), n)
  BY ReadyTyped
<1>4. t.name = s.name
  <2> DEFINE u == rekey(s, hit, its, vl2)
  <2>1. \A x \in DOMAIN its : x \notin hit => vl2[its[x]] = vl[its[x]]
    BY <1>1
  <2>2. /\ DOMAIN u = KeyFields /\ u.name = s.name
        /\ DOMAIN u.keys = 1 .. Len(its)
        /\ KeysIn(u, its, vl2)
        /\ u.splitter_changed = FALSE => Consistent(u, its, vl2)
        /\ u.splitter_changed \in BOOLEAN
    BY <1>2, <2>1, RekeyConsistent
  <2> QED
    BY <1>1, <2>2
<1>5. RekeyResult(t, s, hit, its)
  <2>1. DOMAIN s = KeyFields
    BY <1>3 DEF Typed
  <2> QED
    BY <1>1, <2>1, RekeyFields
<1> DEFINE placed == {x \in hit : s.has_order /\ x <= s.ordered_slots}
<1>6. /\ t.layouts = s.layouts
      /\ t.has_order = s.has_order /\ t.order = s.order /\ t.start = s.start
      /\ t.sorted_len = s.sorted_len /\ t.moved = s.moved \cup placed
  BY <1>5 DEF RekeyResult
<1>7. n \in Nat /\ DOMAIN its = 1 .. n
  BY <1>2 DEF Collection
<1>8. s.ordered_slots \in 0 .. n /\ s.has_order \in BOOLEAN
  BY <1>3 DEF Typed
<1>9. CASE s.has_order = FALSE
  BY <1>6, <1>9 DEF OrderedIn
<1>10. CASE s.has_order = TRUE
  <2>1. ASSUME NEW x \in 1 .. s.ordered_slots, x \notin t.moved
        PROVE  x \in 1 .. Len(its2) /\ vl2[its2[x]] = vl[its[x]]
    <3>1. x \in DOMAIN its /\ x <= s.ordered_slots
      BY <1>7, <1>8
    <3>2. x \notin hit
      BY <1>6, <1>10, <2>1, <3>1
    <3> QED
      BY <1>1, <1>2, <1>7, <3>1, <3>2
  <2>2. s.moved \subseteq t.moved
    BY <1>6
  <2> HIDE DEF placed, n
  <2> QED
    BY <1>4, <1>6, <2>1, <2>2, StillOrdered
<1> QED
  BY <1>8, <1>9, <1>10

\* The segments of a renumbered arrangement are the renumbered segments.
LEMMA RenumberedSegment ==
    ASSUME NEW k \in Nat, NEW U, NEW d, NEW q, NEW off, Arranged(q, off, k, U, d),
           NEW M, NEW e, NEW r, Arranged(r, off, k, M, e), NEW kept, Renumbered(r, q, kept),
           NEW b \in 1 .. k
    PROVE  /\ Len(segment(q, off, b)) \in Nat
           /\ Len(segment(r, off, b)) = Len(segment(q, off, b))
           /\ \A i \in 1 .. Len(segment(q, off, b)) :
                 segment(r, off, b)[i] = remap(kept, segment(q, off, b)[i])
<1> DEFINE lo == off[b]
           hi == off[b + 1]
           l == Len(q)
<1>1. /\ q \in Seq(U) /\ r \in Seq(M) /\ l \in Nat /\ Ladder(off, k) /\ off[k + 1] = l
      /\ off[k + 1] = Len(r)
  BY DEF Arranged, Lists
<1>2. lo \in Nat /\ hi \in Nat /\ lo <= hi /\ hi <= l
  BY <1>1, LadderBounds
<1>3. \A p \in 1 .. l : r[p] = remap(kept, q[p])
  BY DEF Renumbered
<1>4. segment(q, off, b) = SubSeq(q, lo + 1, hi) /\ segment(r, off, b) = SubSeq(r, lo + 1, hi)
  BY DEF segment
<1>5. l = Len(q) /\ l = Len(r)
  BY <1>1
<1> HIDE DEF lo, hi, l
<1>6. /\ lo \in 0 .. l /\ hi \in lo .. l /\ hi - lo \in Nat
      /\ \A i \in 1 .. hi - lo : lo + i \in 1 .. l
  BY <1>1, <1>2
<1>7. /\ Len(SubSeq(q, lo + 1, hi)) = hi - lo
      /\ \A i \in 1 .. hi - lo : SubSeq(q, lo + 1, hi)[i] = q[lo + i]
  BY <1>1, <1>5, <1>6, Slice
<1>8. /\ Len(SubSeq(r, lo + 1, hi)) = hi - lo
      /\ \A i \in 1 .. hi - lo : SubSeq(r, lo + 1, hi)[i] = r[lo + i]
  BY <1>1, <1>5, <1>6, Slice
<1> QED
  BY <1>3, <1>4, <1>6, <1>7, <1>8

\* compact keeps what stays of every sorted prefix, in its order and in front.
LEMMA CompactOrdered ==
    ASSUME NEW s, NEW t, NEW its, NEW vl, NEW its2, NEW vl2, Ready(s, its, vl), GroupedIn(s),
           OrderedIn(s, its, vl), Ready(t, its2, vl2), Compacted(s, t, its, vl, its2, vl2)
    PROVE  OrderedIn(t, its2, vl2)
<1> DEFINE n == Len(its)
           m == Len(its2)
           k == bucket_total(s)
           e == s.buckets
<1>1. Typed(s, k, n)
  BY ReadyTyped
<1>2. PICK l, kept, pl :
          /\ Reduction(its, vl, l, kept, its2, vl2)
          /\ ~ (s.has_order /\ s.order_stale)
          /\ s.splitter_slots \subseteq ToSet(kept)
          /\ t = compact(s, kept, its2, vl2, pl)
  BY DEF Compacted
<1>3. /\ n \in Nat /\ l \in 0 .. n /\ kept \in [1 .. l -> 1 .. n]
      /\ (\A i, j \in 1 .. l : i < j => kept[i] < kept[j])
      /\ its2 = [i \in 1 .. l |-> its[kept[i]]]
      /\ \A i \in 1 .. l : vl2[its[kept[i]]] = vl[its[kept[i]]]
  BY <1>2 DEF Reduction, Collection
<1>4. m = l /\ m \in Nat /\ DOMAIN kept = 1 .. m
  <2> HIDE DEF n
  <2>1. l \in Nat
    BY <1>3
  <2>2. Len(its2) = l
    BY <1>3, <2>1
  <2> QED
    BY <1>3, <2>1, <2>2
<1>5. t.name = s.name
  <2> DEFINE u == compact(s, kept, its2, vl2, pl)
  <2>1. Reduction(its, vl, l, kept, its2, vl2) /\ Consistent(s, its, vl)
    BY <1>2 DEF Ready
  <2>2. Consistent(u, its2, vl2) /\ u.name = s.name
    BY <1>2, <2>1, CompactConsistent
  <2> QED
    BY <1>2, <2>2
<1> HIDE DEF n, m
<1>6. t.layouts = s.layouts /\ t.has_order = s.has_order
  <2>1. DOMAIN s = KeyFields /\ DOMAIN s.buckets = 1 .. n
    BY <1>1 DEF Typed
  <2>2. CompactResult(t, s, kept, n, m)
    BY <1>2, <1>3, <1>4, <2>1, CompactFields
  <2> QED
    BY <2>2 DEF CompactResult
<1> SUFFICES ASSUME s.has_order = TRUE, s.name \in Ordering, NEW b \in 1 .. k
             PROVE  PrefixInOrder(t, its2, vl2, b)
  <2>1. bucket_total(t) = k
    BY <1>6, SameTotal
  <2> QED
    BY <1>5, <1>6, <2>1 DEF OrderedIn
<1>7. s.order_stale = FALSE
  BY <1>1, <1>2 DEF Typed
<1>8. s.moved = {}
  BY <1>7 DEF Ready, Consistent, FlagsIn
<1> DEFINE parts == survivors_of(s, kept)
           staying == ToSet(kept)
           q == grouped(s, b)
           a == s.sorted_len[b]
           P == leading(q, a, staying)
           r == parts[b]
           T == Class(1 .. n, e, b)
           U == Class(staying, e, b)
<1>9. Survived(t, s, kept, k, n, m)
  BY <1>2, <1>7, CompactParts DEF n, m
<1>10. /\ Arranged(joined(parts), t.start, k, staying, e)
       /\ Arranged(t.order, t.start, k, 1 .. m, t.buckets)
       /\ Renumbered(t.order, joined(parts), kept)
       /\ t.start = prefix_sums(lengths(parts, k)) /\ t.sorted_len = surviving_prefix(s, staying)
       /\ Len(parts) = k /\ parts = [c \in 1 .. k |-> only(grouped(s, c), staying)]
       /\ staying \subseteq 1 .. n
       /\ \A c \in 1 .. k : /\ Lists(grouped(s, c), Class(1 .. n, e, c))
                            /\ Lists(parts[c], Class(staying, e, c))
  BY <1>9 DEF Survived
<1>11. k \in Nat
  BY <1>1 DEF Typed
<1>12. Lists(q, T) /\ Lists(r, U)
  BY <1>10
<1>13. r = only(q, staying)
  BY <1>10
<1>14. segment(joined(parts), t.start, b) = r
  <2> HIDE DEF parts, staying
  <2>1. \A c \in 1 .. k : parts[c] \in Seq(Class(staying, e, c))
    BY <1>10 DEF Lists
  <2>2. \A c \in 1 .. k : parts[c] \in Seq(staying)
    <3> SUFFICES ASSUME NEW c \in 1 .. k
                 PROVE  parts[c] \in Seq(staying)
      OBVIOUS
    <3>1. Class(staying, e, c) \subseteq staying
      BY DEF Class
    <3> QED
      BY <2>1, <3>1
  <2>3. segment(joined(parts), prefix_sums(lengths(parts, k)), b) = parts[b]
    BY <1>10, <1>11, <2>2, PartsAreSegments
  <2> QED
    BY <1>10, <2>3
<1> HIDE DEF k, parts, r, e
<1>15. /\ Len(r) \in Nat /\ Len(grouped(t, b)) = Len(r)
       /\ \A i \in 1 .. Len(r) : grouped(t, b)[i] = remap(kept, r[i])
  <2> DEFINE all == joined(parts)
             off == t.start
             ord == t.order
             M == 1 .. m
             d == t.buckets
  <2>1. Arranged(all, off, k, staying, e) /\ Arranged(ord, off, k, M, d) /\ Renumbered(ord, all, kept)
    BY <1>10
  <2>2. grouped(t, b) = segment(ord, off, b) /\ segment(all, off, b) = r
    BY <1>14 DEF grouped, segment
  <2> HIDE DEF all, off, ord, M, d, staying
  <2>3. /\ Len(segment(all, off, b)) \in Nat
        /\ Len(segment(ord, off, b)) = Len(segment(all, off, b))
        /\ \A i \in 1 .. Len(segment(all, off, b)) :
              segment(ord, off, b)[i] = remap(kept, segment(all, off, b)[i])
    BY <1>11, <2>1, RenumberedSegment
  <2> QED
    BY <2>2, <2>3
<1>16. a \in 0 .. Len(q)
  <2>1. PICK W : BucketHolds(s, b, W)
    BY BucketOfGrouping DEF k
  <2> QED
    BY <2>1 DEF BucketHolds
<1>17. Cardinality(P) = t.sorted_len[b]
  <2>1. b \in DOMAIN s.sorted_len
    BY DEF GroupedIn, PrefixesIn, k
  <2> QED
    BY <1>10, <2>1 DEF surviving_prefix, leading
<1>18. Follows(r, q) /\ \A i \in 1 .. Len(r) : r[i] \in staying
  <2>1. q \in Seq(T)
    BY <1>12 DEF Lists
  <2> HIDE DEF q, T, staying
  <2> QED
    BY <1>13, <2>1, OnlyFollows
<1>19. \A p \in P : q[p] \in U
  <2> SUFFICES ASSUME NEW p \in P
               PROVE  q[p] \in U
    OBVIOUS
  <2>1. p \in 1 .. a /\ q[p] \in staying
    BY DEF leading
  <2> HIDE DEF P, a, q, staying
  <2>2. p \in 1 .. Len(q) /\ q \in Seq(T) /\ Len(q) \in Nat
    BY <1>12, <1>16, <2>1 DEF Lists
  <2> HIDE DEF T
  <2>3. q[p] \in T
    BY <2>2
  <2> QED
    BY <2>1, <2>3 DEF T, Class
<1>20. ASSUME NEW i \in 1 .. Len(r), NEW j \in 1 .. Len(r), NEW z \in P, i < j, r[j] = q[z]
       PROVE  \E p \in P : p < z /\ r[i] = q[p]
  <2>1. PICK p \in 1 .. Len(q), y \in 1 .. Len(q) : p < y /\ r[i] = q[p] /\ r[j] = q[y]
    BY <1>18, <1>20 DEF Follows
  <2>2. z \in 1 .. a
    BY DEF leading
  <2>3. r[i] \in staying
    BY <1>18
  <2>4. \A x, w \in 1 .. Len(q) : q[x] = q[w] => x = w
    BY <1>12 DEF Lists
  <2> HIDE DEF q, a, P, staying
  <2>5. z \in 1 .. Len(q) /\ Len(q) \in Nat
    <3>1. Lists(q, T)
      BY <1>12
    <3>2. Len(q) \in Nat
      BY <3>1 DEF Lists
    <3> QED
      BY <1>16, <2>2, <3>2
  <2>6. y = z
    BY <1>20, <2>1, <2>4, <2>5
  <2>7. p < z /\ p \in 1 .. a
    BY <1>16, <2>1, <2>2, <2>6
  <2>8. p \in P
    BY <2>1, <2>3, <2>7 DEF P, leading
  <2> QED
    BY <2>1, <2>7, <2>8
<1>21. \A i, j \in 1 .. Cardinality(P) : i < j =>
           \E p, z \in P : p < z /\ r[i] = q[p] /\ r[j] = q[z]
  <2>1. \A i, j \in 1 .. Len(r) : \A z \in P : i < j /\ r[j] = q[z] =>
            \E p \in P : p < z /\ r[i] = q[p]
    BY <1>20
  <2> HIDE DEF q, a, T, U, staying
  <2> QED
    BY <1>12, <1>16, <1>19, <2>1, LeadingStay
<1>22. Cardinality(P) <= Len(r) /\ Cardinality(P) \in Nat
  <2>1. GroupedIn(t) /\ t.has_order = TRUE /\ b \in 1 .. bucket_total(t)
    BY <1>6, CompactGroups, SameTotal DEF k
  <2>2. PICK W : BucketHolds(t, b, W)
    BY <2>1, BucketOfGrouping
  <2>3. t.sorted_len[b] \in 0 .. Len(grouped(t, b))
    BY <2>2 DEF BucketHolds
  <2> QED
    BY <1>15, <1>17, <2>3
<1>23. ASSUME NEW i \in 1 .. Cardinality(P), NEW j \in 1 .. Cardinality(P), i < j
       PROVE  <<remap(kept, r[i]), remap(kept, r[j])>> \in slot_order(t, its2, vl2)
  <2>1. PICK p \in P, z \in P : p < z /\ r[i] = q[p] /\ r[j] = q[z]
    BY <1>21, <1>23
  <2>2. ASSUME NEW y \in P
        PROVE  y \in leading(q, a, Unmoved(s, its)) /\ q[y] \in staying
    BY <1>8, <1>10 DEF leading, Unmoved, n
  <2>3. PrefixInOrder(s, its, vl, b)
    BY DEF OrderedIn, k
  <2>4. <<q[p], q[z]>> \in slot_order(s, its, vl)
    BY <2>1, <2>2, <2>3 DEF PrefixInOrder
  <2>5. staying = {kept[y] : y \in 1 .. m}
    BY <1>4 DEF ToSet
  <2>6. ASSUME NEW x \in staying
        PROVE  /\ x \in 1 .. Len(its) /\ remap(kept, x) \in 1 .. m /\ kept[remap(kept, x)] = x
               /\ vl2[its2[remap(kept, x)]] = vl[its[x]]
    <3>1. \E y \in DOMAIN kept : kept[y] = x
      BY <1>4, <2>5
    <3>2. remap(kept, x) \in 1 .. m /\ kept[remap(kept, x)] = x
      BY <1>4, <3>1 DEF remap
    <3> QED
      BY <1>3, <1>4, <1>10, <3>2 DEF n
  <2> DEFINE x == q[p]
             w == q[z]
             c == remap(kept, x)
             d == remap(kept, w)
  <2>7. x \in staying /\ w \in staying
    BY <2>2
  <2> HIDE DEF x, w, staying
  <2>8. /\ x \in 1 .. Len(its) /\ c \in 1 .. m /\ kept[c] = x /\ vl2[its2[c]] = vl[its[x]]
        /\ w \in 1 .. Len(its) /\ d \in 1 .. m /\ kept[d] = w /\ vl2[its2[d]] = vl[its[w]]
    BY <2>6, <2>7
  <2> HIDE DEF c, d
  <2>9. (x < w => c < d) /\ (c < d => x < w)
    <3>1. c < d => x < w
      BY <1>3, <1>4, <2>8
    <3>2. ~ (x < w /\ d < c) /\ ~ (x < w /\ c = d)
      BY <1>3, <1>4, <2>8
    <3> QED
      BY <1>4, <2>8, <3>1, <3>2
  <2>10. c \in 1 .. Len(its2) /\ d \in 1 .. Len(its2)
    BY <2>8 DEF m
  <2>11. <<c, d>> \in slot_order(t, its2, vl2) <=> <<x, w>> \in slot_order(s, its, vl)
    BY <1>5, <2>8, <2>9, <2>10, OrderAgain
  <2>12. c = remap(kept, r[i]) /\ d = remap(kept, r[j])
    BY <2>1 DEF c, d, x, w
  <2> QED
    BY <2>4, <2>11, <2>12 DEF x, w
<1> DEFINE g == grouped(t, b)
           C == 1 .. Cardinality(P)
<1>24. \A i \in C : i \in 1 .. Len(r) /\ g[i] = remap(kept, r[i])
  BY <1>15, <1>22
<1>25. \A i, j \in C : i < j => <<g[i], g[j]>> \in slot_order(t, its2, vl2)
  BY <1>23, <1>24
<1>26. leading(g, t.sorted_len[b], Unmoved(t, its2)) \subseteq C
  BY <1>17 DEF leading
<1> HIDE DEF g, C
<1>27. \A i, j \in leading(g, t.sorted_len[b], Unmoved(t, its2)) :
           i < j => <<g[i], g[j]>> \in slot_order(t, its2, vl2)
  BY <1>25, <1>26
<1> QED
  BY <1>27 DEF PrefixInOrder, g

\* The stages in which the collection stays the same leave the prefixes sorted.
LEMMA TouchedKeepsOrder ==
    ASSUME NEW s, NEW t, NEW its, NEW vl, NEW pl, IsPlan(pl), Ready(s, its, vl), GroupedIn(s),
           OrderedIn(s, its, vl), Touched(s, t, its, vl, pl)
    PROVE  OrderedIn(t, its, vl)
<1>1. DOMAIN s = KeyFields /\ s.has_order \in BOOLEAN /\ s.order_stale \in BOOLEAN
  BY ReadyTyped DEF Typed
<1>2. Ready(t, its, vl)
  BY TouchedKeepsGrouping
<1>3. CASE LaidOut(t, its, vl, pl)
  <2>1. t.has_order = FALSE
    BY <1>3, LaidOutUngrouped
  <2> QED
    BY <2>1 DEF OrderedIn
<1>4. CASE t = s
  BY <1>4
<1>5. CASE t = [s EXCEPT !.stale_checked_at = s.churn]
  <2>1. /\ t.name = s.name /\ t.layouts = s.layouts /\ t.has_order = s.has_order
        /\ t.order = s.order /\ t.start = s.start /\ t.sorted_len = s.sorted_len
        /\ t.moved = s.moved
    BY <1>1, <1>5 DEF KeyFields
  <2>2. s.ordered_slots \in 0 .. Len(its) /\ Len(its) \in Nat
    BY ReadyTyped DEF Typed
  <2>3. \A x \in 1 .. s.ordered_slots :
            x \notin t.moved => x \in 1 .. Len(its) /\ vl[its[x]] = vl[its[x]]
    BY <2>2
  <2>4. s.moved \subseteq t.moved
    BY <2>1
  <2> QED
    BY <1>2, <2>1, <2>3, <2>4, StillOrdered
<1>6. CASE t = build_order(s, Len(its))
  BY <1>6, BuildOrdered
<1>7. CASE s.has_order /\ t = regroup(s, Len(its))
  <2>1. s.has_order = TRUE
    BY <1>1, <1>7
  <2> QED
    BY <1>2, <1>7, <2>1, RegroupOrdered
<1>8. ASSUME NEW bs, s.has_order, ~ s.order_stale, t = sort_buckets(s, bs, its, vl)
      PROVE  OrderedIn(t, its, vl)
  <2>1. s.has_order = TRUE /\ s.order_stale = FALSE
    BY <1>1, <1>8
  <2> QED
    BY <1>2, <1>8, <2>1, SortOrdered
<1> QED
  BY <1>3, <1>4, <1>5, <1>6, <1>7, <1>8 DEF Touched

\* So does the change of the collection.
LEMMA ChangedKeepsOrder ==
    ASSUME NEW s, NEW t, NEW its, NEW vl, NEW its2, NEW vl2, Ready(s, its, vl), GroupedIn(s),
           OrderedIn(s, its, vl), Changed(s, t, its, vl, its2, vl2)
    PROVE  OrderedIn(t, its2, vl2)
<1>1. Ready(t, its2, vl2)
  BY ChangedKeepsGrouping
<1>2. CASE t = s /\ its2 = its /\ vl2 = vl
  BY <1>2
<1>3. CASE Appended(s, t, its, vl, its2, vl2)
  BY <1>1, <1>3, AppendOrdered
<1>4. CASE Compacted(s, t, its, vl, its2, vl2)
  BY <1>1, <1>4, CompactOrdered
<1>5. CASE Rekeyed(s, t, its, vl, its2, vl2)
  BY <1>1, <1>5, RekeyOrdered
<1> QED
  BY <1>2, <1>3, <1>4, <1>5 DEF Changed

\* The sorted prefixes of every KeyState are in order.
Orders == \A i \in DOMAIN states : OrderedIn(states[i], items, val)

\* Every call leaves them sorted.
LEMMA OrdersStep ==
    ASSUME IInv, IInv', Books, Books', Groupings, Orders, [Next]_vars
    PROVE  Orders'
<1> SUFFICES ASSUME NEW j \in DOMAIN states'
             PROVE  OrderedIn(states'[j], items', val')
  BY DEF Orders
<1>1. IsPlan(plan) /\ IsPlan(plan')
  BY BucketIndexAssumption DEF IInv
<1>2. CASE LaidOut(states'[j], items', val', plan')
  <2>1. states'[j].has_order = FALSE
    BY <1>2, LaidOutUngrouped
  <2> QED
    BY <2>1 DEF OrderedIn
<1>3. ASSUME NEW i \in DOMAIN states, Develops(states[i], states'[j]),
             ~ LaidOut(states'[j], items', val', plan')
      PROVE  OrderedIn(states'[j], items', val')
  <2>1. PICK s1, s2, s3, s4 :
            Chain(states[i], s1, s2, s3, s4, states'[j], items, val, items', val', plan)
    BY <1>3 DEF Develops
  <2>2. Ready(states[i], items, val) /\ GroupedIn(states[i]) /\ OrderedIn(states[i], items, val)
    BY DEF IInv, Books, BooksIn, Groupings, Ready, Orders
  <2>3. Ready(s1, items, val) /\ GroupedIn(s1) /\ OrderedIn(s1, items, val)
    BY <1>1, <2>1, <2>2, TouchedKeepsGrouping, TouchedKeepsOrder DEF Chain
  <2>4. Ready(s2, items, val) /\ GroupedIn(s2) /\ OrderedIn(s2, items, val)
    BY <1>1, <2>1, <2>3, TouchedKeepsGrouping, TouchedKeepsOrder DEF Chain
  <2>5. Ready(s3, items, val) /\ GroupedIn(s3) /\ OrderedIn(s3, items, val)
    BY <1>1, <2>1, <2>4, TouchedKeepsGrouping, TouchedKeepsOrder DEF Chain
  <2>6. Ready(s4, items', val') /\ GroupedIn(s4) /\ OrderedIn(s4, items', val')
    BY <2>1, <2>5, ChangedKeepsGrouping, ChangedKeepsOrder DEF Chain
  <2>7. OrderedIn(states'[j], items', val')
    BY <1>1, <2>1, <2>6, TouchedKeepsOrder DEF Chain
  <2> QED
    BY <2>7
<1> QED
  BY <1>2, <1>3, StateSteps DEF StateFrom

\* They are in every reachable state.
LEMMA OrdersInvariance == Spec => [](IInv /\ Books /\ Groupings /\ Orders)
<1>1. Init => Orders
  BY DEF Init, Orders
<1>2. IInv /\ IInv' /\ Books /\ Books' /\ Groupings /\ Orders /\ [Next]_vars => Orders'
  BY OrdersStep
<1> QED
  BY GroupingsInvariance, <1>1, <1>2, PTL DEF Spec

\* Filtering a prefix keeps the order its places have.
LEMMA PrefixFiltered ==
    ASSUME NEW X, NEW q \in Seq(X), NEW a \in 0 .. Len(q), NEW staying, NEW R,
           \A p, z \in leading(q, a, staying) : p < z => <<q[p], q[z]>> \in R
    PROVE  \A i, j \in DOMAIN only(SubSeq(q, 1, a), staying) : i < j =>
               <<only(SubSeq(q, 1, a), staying)[i], only(SubSeq(q, 1, a), staying)[j]>> \in R
<1> DEFINE c == SubSeq(q, 1, a)
           o == only(c, staying)
<1>1. c \in Seq(X) /\ Len(c) = a /\ \A i \in 1 .. a : c[i] = q[i]
  <2>1. Len(q) \in Nat /\ 0 \in 0 .. Len(q)
    OBVIOUS
  <2>2. /\ SubSeq(q, 0 + 1, a) \in Seq(X) /\ Len(SubSeq(q, 0 + 1, a)) = a - 0
        /\ \A i \in 1 .. a - 0 : SubSeq(q, 0 + 1, a)[i] = q[0 + i]
    BY <2>1, Slice
  <2>3. 0 + 1 = 1 /\ a - 0 = a /\ \A i \in 1 .. a : 0 + i = i
    BY <2>1
  <2> QED
    BY <2>2, <2>3
<1> HIDE DEF c
<1>2. Follows(o, c) /\ \A i \in 1 .. Len(o) : o[i] \in staying
  BY <1>1, OnlyFollows
<1>3. DOMAIN o = 1 .. Len(o)
  <2>1. o \in Seq(X)
    BY <1>1, OnlyPlaces
  <2> QED
    BY <2>1
<1> HIDE DEF o
<1>4. ASSUME NEW i \in 1 .. Len(o), NEW j \in 1 .. Len(o), i < j
      PROVE  <<o[i], o[j]>> \in R
  <2>1. PICK p \in 1 .. Len(c), z \in 1 .. Len(c) : p < z /\ o[i] = c[p] /\ o[j] = c[z]
    BY <1>2, <1>4 DEF Follows
  <2>2. p \in 1 .. a /\ z \in 1 .. a /\ q[p] = o[i] /\ q[z] = o[j]
    BY <1>1, <2>1
  <2>3. p \in leading(q, a, staying) /\ z \in leading(q, a, staying)
    BY <1>2, <2>2 DEF leading
  <2> QED
    BY <2>1, <2>2, <2>3
<1> QED
  BY <1>3, <1>4 DEF o, c

\* The prefix up to sorted_len of every bucket stays in exact order, the slots
\* waiting to be re-placed left out: what sort_bucket sorts or merges, regroup and
\* compact only thin out, and a changed element leaves it before the next read.
THEOREM PrefixesStaySorted == Spec => []PrefixesSorted
<1>1. ASSUME IInv, Books, Groupings, Orders
      PROVE  PrefixesSorted
  <2> SUFFICES ASSUME NEW i \in DOMAIN states, states[i].has_order, states[i].name \in Ordering
               PROVE  LET st == states[i] IN
                      \A b \in 1 .. Len(st.start) - 1 :
                        LET s == only(SubSeq(grouped(st, b), 1, st.sorted_len[b]), Slots \ st.moved)
                        IN  \A p, q \in DOMAIN s : p < q => slot_less(st, items, val, s[p], s[q])
    BY <1>1 DEF PrefixesSorted
  <2>1. /\ Ready(states[i], items, val) /\ GroupedIn(states[i])
        /\ OrderedIn(states[i], items, val)
    BY <1>1 DEF IInv, Books, BooksIn, Groupings, Ready, Orders
  <2> DEFINE st == states[i]
             k == bucket_total(st)
  <2>2. Ready(st, items, val) /\ GroupedIn(st) /\ OrderedIn(st, items, val) /\ st.name \in Ordering
    BY <2>1
  <2>3. st.has_order = TRUE
    <3>1. st.has_order \in BOOLEAN
      BY <2>2, ReadyTyped DEF Typed
    <3> QED
      BY <3>1
  <2> HIDE DEF st
  <2>4. k \in Nat
    BY <2>2, ReadyTyped DEF Typed
  <2>5. Len(st.start) - 1 = k
    <3>1. PICK d : Placed(st, d)
      BY <2>2, <2>3 DEF GroupedIn
    <3>2. Len(st.start) = k + 1
      BY <3>1 DEF Placed, Arranged, Ladder, Offsets
    <3> QED
      BY <2>4, <3>2
  <2>6. ASSUME NEW b \in 1 .. k
        PROVE  LET s == only(SubSeq(grouped(st, b), 1, st.sorted_len[b]), Slots \ st.moved)
               IN  \A p, q \in DOMAIN s : p < q => slot_less(st, items, val, s[p], s[q])
    <3> DEFINE g == grouped(st, b)
               a == st.sorted_len[b]
               M == Slots \ st.moved
               R == slot_order(st, items, val)
               s == only(SubSeq(g, 1, a), M)
    <3>1. PICK T : BucketHolds(st, b, T)
      BY <2>2, <2>3, BucketOfGrouping
    <3>2. g \in Seq(T) /\ a \in 0 .. Len(g)
      BY <3>1 DEF BucketHolds, Lists
    <3>3. M = Unmoved(st, items)
      BY <2>2 DEF Unmoved, Slots, Ready, Collection
    <3>4. \A p, z \in leading(g, a, M) : p < z => <<g[p], g[z]>> \in R
      BY <2>2, <2>3, <3>3 DEF OrderedIn, PrefixInOrder
    <3> HIDE DEF g, a, M, R
    <3>5. \A p, q \in DOMAIN s : p < q => <<s[p], s[q]>> \in R
      BY <3>2, <3>4, PrefixFiltered
    <3> HIDE DEF s
    <3>6. \A p, q \in DOMAIN s : p < q => slot_less(st, items, val, s[p], s[q])
      BY <3>5 DEF R, slot_order
    <3> QED
      BY <3>6 DEF s, g, a, M
  <2> QED
    BY <2>5, <2>6 DEF st
<1> QED
  BY OrdersInvariance, <1>1, PTL
-----------------------------------------------------------------------------
(* No call but a rebalance loses sorted work                               *)

\* How much of the sorted prefix of bucket b does not wait to be re-placed.
staying(s, b) == Cardinality({p \in 1 .. s.sorted_len[b] : grouped(s, b)[p] \notin s.moved})

\* What a call keeps of the sorted prefixes of s, unless it has counted a change
\* or made a new layout.
WorkKept(s, t) ==
    s.has_order /\ t.churn = s.churn =>
        /\ t.has_order
        /\ \A b \in DOMAIN s.sorted_len : t.sorted_len[b] >= staying(s, b)

\* The size a layout was estimated from.
Sized(st) == st.estimated_from \in Nat

\* relayout takes it from the collection.
LEMMA LaidOutSized ==
    ASSUME NEW t, NEW its \in Seq(Handle), NEW vl, NEW pl, LaidOut(t, its, vl, pl)
    PROVE  Sized(t)
<1>1. PICK u : DOMAIN u = KeyFields /\ t = relayout(u, its, vl, pl)
  BY DEF LaidOut
<1> DEFINE estimated == estimate_layouts(u.name, values(its, vl), u.keys, pl)
           placed == with_buckets(with_layouts(u, estimated, its, vl), its, vl)
<1>2. DOMAIN placed = KeyFields
  BY <1>1 DEF with_layouts, with_buckets, KeyFields
<1>3. t = with_counts(placed, Len(its))
  BY <1>1 DEF relayout
<1> HIDE DEF placed
<1>4. t.estimated_from = Len(its)
  BY <1>2, <1>3 DEF with_counts, KeyFields
<1> QED
  BY <1>4 DEF Sized

\* The other stages keep it.
LEMMA TouchedKeepsSize ==
    ASSUME NEW s, NEW t, NEW its \in Seq(Handle), NEW vl, NEW pl, Consistent(s, its, vl),
           Touched(s, t, its, vl, pl), Sized(s)
    PROVE  Sized(t)
<1>1. DOMAIN s = KeyFields
  BY DEF Consistent, KeyStateOK
<1> QED
  BY <1>1, TouchedBooks, LaidOutSized DEF Sized

\* So do the changes of the collection.
LEMMA ChangedKeepsSize ==
    ASSUME NEW s, NEW t, NEW its, NEW vl, NEW its2, NEW vl2, Consistent(s, its, vl),
           Changed(s, t, its, vl, its2, vl2), Sized(s)
    PROVE  Sized(t)
<1>1. DOMAIN s = KeyFields /\ DOMAIN s.buckets = 1 .. Len(its)
  BY DEF Consistent, KeyStateOK
<1>2. CASE Appended(s, t, its, vl, its2, vl2)
  <2>1. t = append(s, Len(its), its2, vl2)
    BY <1>2 DEF Appended
  <2>2. AppendResult(t, s, Len(its), its2)
    BY <1>1, <2>1, AppendFields
  <2> QED
    BY <2>2 DEF AppendResult, Sized
<1>3. CASE Rekeyed(s, t, its, vl, its2, vl2)
  <2>1. PICK hit \in SUBSET DOMAIN its : t = rekey(s, hit, its, vl2)
    BY <1>3 DEF Rekeyed
  <2>2. RekeyResult(t, s, hit, its)
    BY <1>1, <2>1, RekeyFields
  <2> QED
    BY <2>2 DEF RekeyResult, Sized
<1>4. CASE Compacted(s, t, its, vl, its2, vl2)
  <2>1. PICK l, kept, p :
            /\ Reduction(its, vl, l, kept, its2, vl2) /\ s.splitter_slots \subseteq ToSet(kept)
            /\ t = compact(s, kept, its2, vl2, p)
    BY <1>4 DEF Compacted
  <2> DEFINE n == Len(its)
  <2>2. n \in Nat /\ l \in Nat /\ DOMAIN kept = 1 .. l
    BY <2>1 DEF Reduction, Collection
  <2> HIDE DEF n
  <2>3. CompactResult(t, s, kept, n, l)
    BY <1>1, <2>1, <2>2, CompactFields DEF n
  <2> QED
    BY <2>3 DEF CompactResult, Sized
<1> QED
  BY <1>2, <1>3, <1>4 DEF Changed

EstimateSizes == \A i \in DOMAIN states : Sized(states[i])

\* Every call keeps the sizes.
LEMMA EstimateSizesStep ==
    ASSUME IInv, IInv', EstimateSizes, [Next]_vars
    PROVE  EstimateSizes'
<1> SUFFICES ASSUME NEW j \in DOMAIN states'
             PROVE  Sized(states'[j])
  BY DEF EstimateSizes
<1>1. items \in Seq(Handle) /\ items' \in Seq(Handle)
  BY DEF IInv, Collection
<1>2. CASE LaidOut(states'[j], items', val', plan')
  BY <1>1, <1>2, LaidOutSized
<1>3. ASSUME NEW i \in DOMAIN states, Develops(states[i], states'[j]),
             ~ LaidOut(states'[j], items', val', plan')
      PROVE  Sized(states'[j])
  <2>1. PICK s1, s2, s3, s4 :
            Chain(states[i], s1, s2, s3, s4, states'[j], items, val, items', val', plan)
    BY <1>3 DEF Develops
  <2>2. Consistent(states[i], items, val) /\ Sized(states[i])
    BY DEF IInv, EstimateSizes
  <2>3. Consistent(s1, items, val) /\ Sized(s1)
    BY <1>1, <2>1, <2>2, TouchedKeepsSize DEF Chain, Touched
  <2>4. Consistent(s2, items, val) /\ Sized(s2)
    BY <1>1, <2>1, <2>3, TouchedKeepsSize DEF Chain, Touched
  <2>5. Consistent(s3, items, val) /\ Sized(s3)
    BY <1>1, <2>1, <2>4, TouchedKeepsSize DEF Chain, Touched
  <2>6. Consistent(s4, items', val') /\ Sized(s4)
    BY <2>1, <2>5, ChangedKeepsSize DEF Chain, Changed
  <2> QED
    BY <1>1, <2>1, <2>6, TouchedKeepsSize DEF Chain
<1> QED
  BY <1>2, <1>3, StateSteps DEF StateFrom

\* bucket_index.hpp:524-528: one read makes the grouping current and sorts it; for the
\* next, either the check for staleness was just made with the same count of changes, or
\* a layout was just estimated and not one change is counted, fewer than any page has.
LEMMA SettlesAfterRead ==
    ASSUME NEW st, NEW its, NEW vl, NEW pl, IsPlan(pl), Ready(st, its, vl), Sized(st)
    PROVE  SettledAfterRead(st, its, vl, pl)
<1> DEFINE c == maybe_auto_rebalance(st, its, vl, pl)
           ready == prepare(st, its, vl, pl)
           bs == 1 .. bucket_total(ready)
           read == sort_buckets(ready, bs, its, vl)
           checked == [st EXCEPT !.stale_checked_at = st.churn]
           again == prepare(read, its, vl, pl)
           once == [read EXCEPT !.stale_checked_at = read.churn]
<1>1. /\ its \in Seq(Handle) /\ Consistent(st, its, vl)
      /\ st.churn \in Nat /\ DOMAIN st = KeyFields /\ st.name \in Name
  BY DEF Ready, Collection, Consistent, KeyStateOK
<1>2. DOMAIN checked = KeyFields /\ checked.name = st.name
      /\ checked.churn = st.churn /\ checked.stale_checked_at = st.churn
  BY <1>1 DEF KeyFields
<1>3. /\ DOMAIN c = KeyFields /\ c.churn \in Nat
      /\ \/ pl.auto_rebalance = FALSE \/ c.churn = c.stale_checked_at \/ c.churn = 0
  <2>1. CASE c = st /\ (~ pl.auto_rebalance \/ st.churn = st.stale_checked_at)
    <3>1. pl.auto_rebalance \in BOOLEAN
      BY DEF IsPlan
    <3> HIDE DEF c
    <3> QED
      BY <1>1, <2>1, <3>1
  <2>2. CASE c = checked
    <3> HIDE DEF c, checked
    <3> QED
      BY <1>1, <1>2, <2>2
  <2>3. CASE c = relayout(checked, its, vl, pl)
    <3> DEFINE r == relayout(checked, its, vl, pl)
    <3> HIDE DEF c, checked
    <3>1. /\ DOMAIN r = KeyFields
          /\ r.name = checked.name /\ r.keys = checked.keys
          /\ DOMAIN r.buckets = DOMAIN its
          /\ DOMAIN r.layouts = 1 .. GroupCount[r.name]
          /\ r.churn = 0 /\ r.stale_checked_at = npos
          /\ r.splitter_changed = FALSE /\ r.has_order = FALSE /\ r.order_stale = FALSE
          /\ r.moved = {} /\ r.ordered_slots = 0
          /\ r.splitter_slots \subseteq DOMAIN its
      BY <1>1, <1>2, RelayoutShape
    <3> HIDE DEF r
    <3> QED
      BY <2>3, <3>1 DEF r
  <2> QED
    BY <2>1, <2>2, <2>3 DEF maybe_auto_rebalance
<1>4. ready = grouping(c, Len(its))
  BY DEF prepare
<1>5. Touched(st, c, its, vl, pl)
  BY <1>1, RebalanceStage
<1> HIDE DEF c, checked
<1>6. c.estimated_from \in Nat
  BY <1>1, <1>5, TouchedKeepsSize DEF Sized
<1>7. c.has_order \in BOOLEAN /\ c.order_stale \in BOOLEAN
  BY <1>5 DEF Touched, Consistent, KeyStateOK
<1>8. /\ DOMAIN ready = KeyFields
      /\ ready.churn = c.churn /\ ready.estimated_from = c.estimated_from
      /\ ready.stale_checked_at = c.stale_checked_at
      /\ ready.has_order = TRUE /\ ready.order_stale = FALSE
  BY <1>3, <1>4, <1>7 DEF grouping, build_order, regroup, KeyFields
<1> HIDE DEF ready
<1>9. /\ DOMAIN read = KeyFields
      /\ read = [f \in KeyFields |-> read[f]]
      /\ read.churn = c.churn /\ read.estimated_from = c.estimated_from
      /\ read.stale_checked_at = c.stale_checked_at
      /\ read.has_order = TRUE /\ read.order_stale = FALSE
  BY <1>8 DEF sort_buckets, KeyFields
<1> HIDE DEF read
<1>10. maybe_auto_rebalance(read, its, vl, pl) \in {read, once}
  <2>1. CASE pl.auto_rebalance = FALSE \/ read.churn = read.stale_checked_at
    BY <2>1 DEF maybe_auto_rebalance
  <2>2. CASE read.churn = 0
    <3> DEFINE e == once.estimated_from \div 8
               p == pl.page_size
    <3>1. once.churn = 0 /\ once.estimated_from = c.estimated_from
      BY <1>9, <2>2 DEF KeyFields
    <3>2. p \in Nat \ {0}
      BY DEF IsPlan
    <3> HIDE DEF p, once
    <3>3. e \in Int
      BY <1>6, <3>1
    <3> HIDE DEF e
    <3>4. ~ (0 >= max(p, e))
      BY <3>2, <3>3 DEF max
    <3> QED
      BY <3>1, <3>4 DEF maybe_auto_rebalance, once, p, e
  <2> QED
    BY <1>3, <1>9, <2>1, <2>2
<1>11. /\ DOMAIN once = KeyFields /\ once.has_order = TRUE /\ once.order_stale = FALSE
  BY <1>9 DEF KeyFields
<1>12. again \in {read, once}
  BY <1>9, <1>10, <1>11 DEF prepare, grouping
<1>13. again = [read EXCEPT !.stale_checked_at = again.stale_checked_at]
  <2>1. CASE again = read
    <3>1. read = [read EXCEPT !.stale_checked_at = read.stale_checked_at]
      BY <1>9 DEF KeyFields
    <3> HIDE DEF again
    <3> QED
      BY <2>1, <3>1
  <2>2. CASE again = once
    <3>1. once.stale_checked_at = read.churn
      BY <1>9 DEF KeyFields
    <3> HIDE DEF again
    <3> QED
      BY <2>2, <3>1
  <2> QED
    BY <1>12, <2>1, <2>2
<1> QED
  BY <1>13 DEF SettledAfterRead, read, ready

\* What one sorted read has sorted, the next finds sorted: with any registered sort
\* key active, a read of the whole collection leaves nothing for another one to
\* rebalance or to regroup (bucketed_list.hpp:77-79).
THEOREM ReadsComeToRest ==
    Spec => [](\A i \in DOMAIN states : SettledAfterRead(states[i], items, val, plan))
<1> DEFINE Claim == \A i \in DOMAIN states : SettledAfterRead(states[i], items, val, plan)
<1>1. Init => EstimateSizes
  BY DEF Init, EstimateSizes
<1>2. IInv /\ IInv' /\ EstimateSizes /\ [Next]_vars => EstimateSizes'
  BY EstimateSizesStep
<1>3. ASSUME IInv, Books, Groupings, EstimateSizes
      PROVE  Claim
  <2>1. IsPlan(plan)
    BY <1>3, BucketIndexAssumption DEF IInv
  <2>2. ASSUME NEW i \in DOMAIN states
        PROVE  Ready(states[i], items, val) /\ Sized(states[i])
    BY <1>3, <2>2 DEF IInv, Books, BooksIn, Groupings, EstimateSizes, Ready
  <2> QED
    BY <2>1, <2>2, SettlesAfterRead
<1>4. [](IInv /\ Books /\ Groupings /\ EstimateSizes) => []Claim
  BY <1>3, PTL
<1> QED
  BY <1>1, <1>2, <1>4, GroupingsInvariance, PTL DEF Spec

\* What waits for the next read is not more than the prefix.
LEMMA PartOfPrefix ==
    ASSUME NEW l \in Nat, NEW P \in SUBSET (1 .. l)
    PROVE  Cardinality(P) \in Nat /\ Cardinality(P) <= l
<1>1. IsFiniteSet(1 .. l) /\ Cardinality(1 .. l) = l
  BY CountUpTo
<1>2. IsFiniteSet(P) /\ Cardinality(P) <= Cardinality(1 .. l)
  BY <1>1, FS_Subset
<1> QED
  BY <1>1, <1>2, FS_CardinalityType

\* A stage that leaves at least what was there.
AsLong(s, t) ==
    /\ t.has_order = TRUE
    /\ DOMAIN t.sorted_len = DOMAIN s.sorted_len
    /\ \A b \in DOMAIN s.sorted_len :
          t.sorted_len[b] \in Nat /\ staying(s, b) \in 0 .. t.sorted_len[b]

\* Nothing is lost where nothing is done.
LEMMA AsLongAsBefore ==
    ASSUME NEW s, NEW its, NEW vl, Ready(s, its, vl), GroupedIn(s), s.has_order = TRUE
    PROVE  AsLong(s, s)
<1>1. /\ DOMAIN s.sorted_len = 1 .. bucket_total(s)
      /\ \A b \in 1 .. bucket_total(s) : \E T : BucketHolds(s, b, T)
  BY BucketOfGrouping DEF GroupedIn, PrefixesIn
<1> SUFFICES ASSUME NEW b \in DOMAIN s.sorted_len
             PROVE  s.sorted_len[b] \in Nat /\ staying(s, b) \in 0 .. s.sorted_len[b]
  BY DEF AsLong
<1> DEFINE l == s.sorted_len[b]
           P == {p \in 1 .. l : grouped(s, b)[p] \notin s.moved}
<1>2. PICK T : BucketHolds(s, b, T)
  BY <1>1
<1>3. l \in Nat
  <2>1. l \in 0 .. Len(grouped(s, b))
    BY <1>2 DEF BucketHolds
  <2> QED
    BY <2>1
<1>4. P \subseteq 1 .. l
  OBVIOUS
<1> HIDE DEF l, P
<1>5. Cardinality(P) \in 0 .. l
  BY <1>3, <1>4, PartOfPrefix
<1> QED
  BY <1>3, <1>5 DEF l, P, staying

\* regroup keeps every slot of a prefix that does not wait.
LEMMA RegroupKeeps ==
    ASSUME NEW s, NEW its, NEW vl, Ready(s, its, vl), GroupedIn(s), s.has_order = TRUE
    PROVE  AsLong(s, regroup(s, Len(its)))
<1> DEFINE n == Len(its)
           t == regroup(s, n)
           k == bucket_total(s)
<1>1. Typed(s, k, n)
  BY ReadyTyped
<1>2. RegroupResult(t, s, n)
  BY <1>1, RegroupFields DEF Typed
<1>3. DOMAIN s.sorted_len = 1 .. k /\ \A b \in 1 .. k : \E T : BucketHolds(s, b, T)
  BY BucketOfGrouping DEF GroupedIn, PrefixesIn
<1>4. /\ t.has_order = TRUE /\ t.sorted_len = surviving_prefix(s, 1 .. n \ s.moved)
      /\ n \in Nat /\ s.ordered_slots \in 0 .. n
  BY <1>1, <1>2 DEF RegroupResult, Typed
<1> HIDE DEF t, n, k
<1>5. DOMAIN t.sorted_len = DOMAIN s.sorted_len
  BY <1>4 DEF surviving_prefix
<1>6. ASSUME NEW b \in DOMAIN s.sorted_len
      PROVE  t.sorted_len[b] \in Nat /\ staying(s, b) \in 0 .. t.sorted_len[b]
  <2> DEFINE l == s.sorted_len[b]
             q == grouped(s, b)
             P == {p \in 1 .. l : q[p] \notin s.moved}
  <2>1. PICK T : BucketHolds(s, b, T)
    BY <1>3
  <2>2. l \in 0 .. Len(q) /\ T \subseteq 1 .. s.ordered_slots /\ \A p \in 1 .. Len(q) : q[p] \in T
    BY <2>1 DEF BucketHolds, Lists
  <2>3. Len(q) \in Nat
    BY <2>1, ListsCount DEF BucketHolds
  <2>4. t.sorted_len[b] = Cardinality({p \in 1 .. l : q[p] \in 1 .. n \ s.moved})
    BY <1>4 DEF surviving_prefix
  <2> HIDE DEF l, q
  <2>5. \A p \in 1 .. l : q[p] \in 1 .. n
    <3>1. \A x \in T : x \in 1 .. n
      BY <1>4, <2>2
    <3>2. \A p \in 1 .. l : p \in 1 .. Len(q)
      BY <2>2, <2>3
    <3>3. \A p \in 1 .. Len(q) : q[p] \in T
      BY <2>2
    <3> QED
      BY <3>1, <3>2, <3>3
  <2>6. {p \in 1 .. l : q[p] \in 1 .. n \ s.moved} = P
    BY <2>5
  <2>7. l \in Nat /\ P \subseteq 1 .. l
    BY <2>2, <2>3
  <2> HIDE DEF P
  <2>8. Cardinality(P) \in Nat
    BY <2>7, PartOfPrefix
  <2> QED
    BY <2>4, <2>6, <2>8 DEF P, l, q, staying
<1> QED
  BY <1>4, <1>5, <1>6 DEF AsLong, t, n

\* Sorting buckets only makes prefixes longer.
LEMMA SortKeeps ==
    ASSUME NEW s, NEW t, AsLong(s, t), NEW its, NEW vl, NEW bs, Ready(t, its, vl), GroupedIn(t)
    PROVE  LET u == sort_buckets(t, bs, its, vl)
           IN  /\ u.has_order = TRUE
               /\ \A b \in DOMAIN s.sorted_len : u.sorted_len[b] >= staying(s, b)
<1> DEFINE u == sort_buckets(t, bs, its, vl)
           k == bucket_total(t)
<1>1. SortResult(u, t, bs, its, vl)
  BY ReadyTyped, SortFields DEF Typed
<1>2. /\ t.has_order = TRUE /\ DOMAIN t.sorted_len = DOMAIN s.sorted_len
      /\ \A b \in DOMAIN s.sorted_len : t.sorted_len[b] \in Nat /\ staying(s, b) \in 0 .. t.sorted_len[b]
  BY DEF AsLong
<1>3. /\ DOMAIN t.sorted_len = 1 .. k
      /\ \A b \in 1 .. k : t.sorted_len[b] \in 0 .. t.start[b + 1] - t.start[b]
  BY <1>2 DEF GroupedIn, PrefixesIn
<1>4. \A b \in 1 .. k : /\ Len(grouped(t, b)) = t.start[b + 1] - t.start[b]
                        /\ Len(grouped(t, b)) \in Nat
  <2>1. ASSUME NEW b \in 1 .. k
        PROVE  /\ Len(grouped(t, b)) = t.start[b + 1] - t.start[b]
               /\ Len(grouped(t, b)) \in Nat
    <3>1. PICK T : BucketHolds(t, b, T)
      BY <1>2, BucketOfGrouping
    <3> QED
      BY <3>1, ListsCount DEF BucketHolds
  <2> QED
    BY <2>1
<1>5. /\ u.has_order = TRUE
      /\ u.sorted_len = [b \in DOMAIN t.sorted_len |->
                            IF b \in bs THEN t.start[b + 1] - t.start[b] ELSE t.sorted_len[b]]
  BY <1>1, <1>2 DEF SortResult
<1> HIDE DEF u, k
<1>6. ASSUME NEW b \in DOMAIN s.sorted_len
      PROVE  u.sorted_len[b] >= staying(s, b)
  <2> DEFINE d == t.start[b + 1] - t.start[b]
             l == t.sorted_len[b]
             c == staying(s, b)
  <2>1. d \in Nat /\ l \in 0 .. d /\ c \in 0 .. l
    <3>1. b \in 1 .. k
      BY <1>2, <1>3
    <3> QED
      BY <1>2, <1>3, <1>4, <3>1
  <2>2. u.sorted_len[b] = IF b \in bs THEN d ELSE l
    BY <1>2, <1>5
  <2> HIDE DEF d, l, c
  <2>3. d >= c /\ l >= c
    BY <2>1
  <2> QED
    BY <2>2, <2>3 DEF c
<1> QED
  BY <1>5, <1>6 DEF u

\* A rebalance that is due has changes to forget.
LEMMA DueCounts ==
    ASSUME NEW s, NEW n, NEW pl, IsPlan(pl), Sized(s), s.churn \in Nat, Due(s, n, pl)
    PROVE  s.churn # 0
<1>1. pl.page_size \in Nat /\ pl.page_size # 0
  BY DEF IsPlan
<1> DEFINE e == s.estimated_from \div 8
           p == pl.page_size
<1>2. e \in Int /\ s.churn >= max(p, e)
  BY DEF Sized, Due
<1> HIDE DEF e, p
<1> QED
  BY <1>1, <1>2 DEF max, p

\* maybe_auto_rebalance loses nothing unless it makes a new layout, and so neither
\* does prepare.
LEMMA PrepareKeeps ==
    ASSUME NEW s, NEW its, NEW vl, NEW pl, IsPlan(pl), Ready(s, its, vl), GroupedIn(s),
           s.has_order = TRUE, Sized(s), prepare(s, its, vl, pl).churn = s.churn
    PROVE  AsLong(s, prepare(s, its, vl, pl))
<1> DEFINE c == maybe_auto_rebalance(s, its, vl, pl)
           t == prepare(s, its, vl, pl)
           checked == [s EXCEPT !.stale_checked_at = s.churn]
<1>1. /\ Typed(s, bucket_total(s), Len(its)) /\ its \in Seq(Handle) /\ Consistent(s, its, vl)
      /\ s.churn \in Nat /\ DOMAIN s = KeyFields
  BY ReadyTyped DEF Ready, Collection, Consistent, KeyStateOK
<1>2. Touched(s, c, its, vl, pl) /\ t = grouping(c, Len(its))
  BY <1>1, RebalanceStage DEF prepare
<1>3. Ready(c, its, vl) /\ GroupedIn(c)
  BY <1>2, TouchedKeepsGrouping
<1>4. c = s \/ c = checked \/ (Due(s, Len(its), pl) /\ c = relayout(checked, its, vl, pl))
  BY DEF maybe_auto_rebalance, Due
<1>5. SameGrouping(s, checked) /\ DOMAIN checked = KeyFields /\ checked.name = s.name
      /\ DOMAIN checked.keys = 1 .. Len(its)
  BY <1>1 DEF SameGrouping, KeyFields, Consistent, KeyStateOK
<1>6. c.has_order \in BOOLEAN /\ c.order_stale \in BOOLEAN /\ DOMAIN c = KeyFields
  BY <1>3, ReadyTyped DEF Typed
<1> HIDE DEF c, checked
<1>7. t.churn = c.churn
  BY <1>2, <1>6 DEF grouping, build_order, regroup, KeyFields
<1>8. CASE Due(s, Len(its), pl) /\ c = relayout(checked, its, vl, pl)
  <2>1. checked.name \in Name
    BY <1>1, <1>5 DEF Consistent, KeyStateOK
  <2>2. c.churn = 0
    <3>1. Consistent(c, its, vl)
      BY <1>2 DEF Touched
    <3>2. LaidOut(c, its, vl, pl)
      BY <1>5, <1>8, <2>1, <3>1 DEF LaidOut
    <3> QED
      BY <3>2, LaidOutCounts
  <2>3. s.churn # 0
    BY <1>1, <1>8, DueCounts
  <2> QED
    BY <1>7, <2>2, <2>3 DEF t
<1>9. CASE c = s \/ c = checked
  <2>1. SameGrouping(s, c)
    BY <1>5, <1>9 DEF SameGrouping
  <2>2. /\ c.has_order = TRUE /\ c.sorted_len = s.sorted_len /\ c.moved = s.moved
        /\ \A b : grouped(c, b) = grouped(s, b)
    BY <2>1 DEF SameGrouping, grouped
  <2>3. AsLong(c, t)
    <3>1. CASE c.order_stale
      <4>1. t = regroup(c, Len(its))
        BY <1>2, <2>2, <3>1 DEF grouping
      <4> QED
        BY <1>3, <2>2, <4>1, RegroupKeeps
    <3>2. CASE ~ c.order_stale
      <4>1. t = c
        BY <1>2, <2>2, <3>2 DEF grouping
      <4> QED
        BY <1>3, <2>2, <4>1, AsLongAsBefore
    <3> QED
      BY <3>1, <3>2
  <2>4. \A b : staying(c, b) = staying(s, b)
    BY <2>2 DEF staying
  <2> HIDE DEF t
  <2>5. AsLong(s, t)
    BY <2>2, <2>3, <2>4 DEF AsLong
  <2> QED
    BY <2>5 DEF t
<1> QED
  BY <1>4, <1>8, <1>9

\* A read takes the active state through both.
LEMMA ReadKeeps ==
    ASSUME NEW s, NEW its, NEW vl, NEW pl, IsPlan(pl), Ready(s, its, vl), GroupedIn(s), Sized(s)
    PROVE  /\ WorkKept(s, prepare(s, its, vl, pl))
           /\ \A bs : WorkKept(s, sort_buckets(prepare(s, its, vl, pl), bs, its, vl))
<1> DEFINE t == prepare(s, its, vl, pl)
<1>1. its \in Seq(Handle) /\ Consistent(s, its, vl) /\ s.has_order \in BOOLEAN
  BY ReadyTyped DEF Ready, Collection, Typed
<1>2. /\ Touched(s, maybe_auto_rebalance(s, its, vl, pl), its, vl, pl)
      /\ Touched(maybe_auto_rebalance(s, its, vl, pl), t, its, vl, pl)
  BY <1>1, ReadStages
<1>3. Ready(t, its, vl) /\ GroupedIn(t)
  BY <1>2, TouchedKeepsGrouping
<1>4. s.has_order /\ t.churn = s.churn => AsLong(s, t)
  BY <1>1, PrepareKeeps
<1>5. DOMAIN t = KeyFields
  BY <1>3, ReadyTyped DEF Typed
<1> HIDE DEF t
<1>6. WorkKept(s, t)
  <2>1. ASSUME NEW l \in Nat, NEW c \in 0 .. l PROVE l >= c
    OBVIOUS
  <2> QED
    BY <1>4, <2>1 DEF AsLong, WorkKept
<1>7. ASSUME NEW bs
      PROVE  WorkKept(s, sort_buckets(t, bs, its, vl))
  <2> DEFINE u == sort_buckets(t, bs, its, vl)
  <2>1. u.churn = t.churn
    BY <1>5 DEF sort_buckets, KeyFields
  <2>2. AsLong(s, t) => /\ u.has_order = TRUE
                        /\ \A b \in DOMAIN s.sorted_len : u.sorted_len[b] >= staying(s, b)
    BY <1>3, SortKeeps
  <2> HIDE DEF u
  <2>3. WorkKept(s, u)
    BY <1>4, <2>1, <2>2 DEF WorkKept
  <2> QED
    BY <2>3 DEF u
<1> QED
  BY <1>6, <1>7 DEF t

\* A state that is left alone keeps everything.
LEMMA IdleKeeps ==
    ASSUME NEW s, NEW its, NEW vl, Ready(s, its, vl), GroupedIn(s)
    PROVE  WorkKept(s, s)
<1>1. s.has_order \in BOOLEAN
  BY ReadyTyped DEF Typed
<1>2. s.has_order => AsLong(s, s)
  BY <1>1, AsLongAsBefore
<1>3. ASSUME NEW l \in Nat, NEW c \in 0 .. l PROVE l >= c
  OBVIOUS
<1> QED
  BY <1>2, <1>3 DEF AsLong, WorkKept

\* What a call keeps of every sort key that is registered before and after it.
AllKept ==
    \A i \in DOMAIN states, j \in DOMAIN states' :
        states[i].name = states'[j].name => WorkKept(states[i], states'[j])

\* What is known of every state.
KnownStates ==
    /\ IsPlan(plan)
    /\ \A i \in DOMAIN states : /\ Ready(states[i], items, val) /\ GroupedIn(states[i])
                                /\ Sized(states[i])
    /\ \A i, j \in DOMAIN states : states[i].name = states[j].name => i = j

\* A call that changes no KeyState.
LEMMA IdleKept ==
    ASSUME KnownStates, UNCHANGED states
    PROVE  AllKept
  BY IdleKeeps DEF KnownStates, AllKept

\* A call that changes one KeyState and not its name.
LEMMA OneKept ==
    ASSUME KnownStates, NEW i \in DOMAIN states, NEW st, states' = [states EXCEPT ![i] = st],
           st.name = states[i].name, WorkKept(states[i], st)
    PROVE  AllKept
<1> SUFFICES ASSUME NEW a \in DOMAIN states, NEW j \in DOMAIN states',
                    states[a].name = states'[j].name
             PROVE  WorkKept(states[a], states'[j])
  BY DEF AllKept
<1>1. j \in DOMAIN states /\ states'[j].name = states[j].name
  OBVIOUS
<1>2. a = j
  BY <1>1 DEF KnownStates
<1>3. CASE j = i
  BY <1>2, <1>3
<1>4. CASE j # i
  <2>1. states'[j] = states[j]
    BY <1>1, <1>4
  <2> QED
    BY <1>1, <1>2, <2>1, IdleKeeps DEF KnownStates
<1> QED
  BY <1>3, <1>4

\* The reads.
LEMMA ReadKept ==
    ASSUME IInv, KnownStates, Read
    PROVE  AllKept
<1>1. \/ UNCHANGED states
      \/ active # npos /\ \E st \in {prepare(states[active], items, val, plan)} : \E bs :
            states' = [states EXCEPT ![active] = sort_buckets(st, bs, items, val)]
  BY DEF Read, at, range, first_page, position_if, for_each, sort_all
<1>2. ASSUME active # npos, NEW bs,
             states' = [states EXCEPT ![active] =
                 sort_buckets(prepare(states[active], items, val, plan), bs, items, val)]
      PROVE  AllKept
  <2> DEFINE s == states[active]
             t == prepare(s, items, val, plan)
             u == sort_buckets(t, bs, items, val)
  <2>1. active \in DOMAIN states /\ items \in Seq(Handle) /\ Consistent(s, items, val)
    BY <1>2 DEF IInv, Collection
  <2>2. Consistent(t, items, val) /\ t.name = s.name
    BY <2>1, PrepareConsistent
  <2>3. WorkKept(s, u)
    BY <2>1, ReadKeeps DEF KnownStates
  <2> HIDE DEF t
  <2>4. u.name = s.name
    BY <2>1, <2>2, SortBucketsConsistent
  <2>5. states' = [states EXCEPT ![active] = u]
    BY <1>2 DEF t
  <2> HIDE DEF u
  <2> QED
    BY <2>1, <2>3, <2>4, <2>5, OneKept
<1> QED
  BY <1>1, <1>2, IdleKept

\* add_sort_key, remove_sort_key, sort_by and unsort.
LEMMA SelectKept ==
    ASSUME IInv, KnownStates, Select
    PROVE  AllKept
<1>1. ASSUME NEW k \in Name, add_sort_key(k)
      PROVE  AllKept
  <2>1. CASE UNCHANGED states
    BY <2>1, IdleKept
  <2>2. CASE ~ UNCHANGED states
    <3> DEFINE st == new_state(k, [x \in DOMAIN items |-> key(k, val[items[x]])])
               r == relayout(st, items, val, plan)
               n == Len(states)
    <3>1. states' = Append(states, r) /\ find_state(k) = {}
      BY <1>1, <2>2 DEF add_sort_key
    <3>2. DOMAIN st = KeyFields /\ st.name = k
      BY DEF new_state, KeyFields
    <3> HIDE DEF st
    <3>3. r.name = k
      BY <3>2 DEF relayout, with_counts, with_buckets, with_layouts, KeyFields
    <3> HIDE DEF r
    <3>4. /\ n \in Nat /\ DOMAIN states = 1 .. n
          /\ DOMAIN states' = 1 .. n + 1
          /\ \A i \in 1 .. n : states'[i] = states[i]
          /\ states'[n + 1] = r
      BY <3>1 DEF IInv
    <3>5. \A i \in 1 .. n : states[i].name # k
      BY <3>1, <3>4 DEF find_state
    <3> HIDE DEF n
    <3>6. ASSUME NEW i \in 1 .. n, NEW j \in 1 .. n + 1, states[i].name = states'[j].name
          PROVE  WorkKept(states[i], states'[j])
      <4>1. j \in 1 .. n
        BY <3>3, <3>4, <3>5, <3>6
      <4>2. states'[j] = states[i]
        BY <3>4, <3>6, <4>1 DEF KnownStates
      <4> QED
        BY <3>4, <4>2, IdleKeeps DEF KnownStates
    <3> QED
      BY <3>4, <3>6 DEF AllKept
  <2> QED
    BY <2>1, <2>2
<1>2. ASSUME NEW k \in Name, remove_sort_key(k)
      PROVE  AllKept
  <2>1. CASE find_state(k) = {}
    <3>1. UNCHANGED states
      BY <1>2, <2>1 DEF remove_sort_key
    <3> QED
      BY <3>1, IdleKept
  <2>2. CASE find_state(k) # {}
    <3>1. PICK i \in find_state(k) : states' = RemoveAt(states, i)
      BY <1>2, <2>2 DEF remove_sort_key
    <3> DEFINE n == Len(states)
               from(j) == IF j < i THEN j ELSE j + 1
    <3>2. n \in Nat /\ DOMAIN states = 1 .. n /\ i \in 1 .. n
      BY DEF IInv, find_state
    <3>3. /\ DOMAIN states' = 1 .. n - 1
          /\ \A j \in 1 .. n - 1 : states'[j] = states[from(j)]
      BY <3>1, <3>2, RemoveAtEntries
    <3>4. \A j \in 1 .. n - 1 : from(j) \in 1 .. n
      BY <3>2
    <3> HIDE DEF n, from
    <3>5. ASSUME NEW a \in 1 .. n, NEW j \in 1 .. n - 1, states[a].name = states'[j].name
          PROVE  WorkKept(states[a], states'[j])
      <4>1. from(j) \in DOMAIN states /\ states'[j] = states[from(j)]
        BY <3>2, <3>3, <3>4
      <4>2. states'[j] = states[a]
        BY <3>2, <3>5, <4>1 DEF KnownStates
      <4> QED
        BY <3>2, <4>2, IdleKeeps DEF KnownStates
    <3> QED
      BY <3>2, <3>3, <3>5 DEF AllKept
  <2> QED
    BY <2>1, <2>2
<1>3. ASSUME NEW k \in Name, NEW dir \in Directions, sort_by(k, dir)
      PROVE  AllKept
  <2>1. CASE find_state(k) = {}
    <3>1. UNCHANGED states
      BY <1>3, <2>1 DEF sort_by
    <3> QED
      BY <3>1, IdleKept
  <2>2. CASE find_state(k) # {}
    <3>1. PICK i \in find_state(k) :
              states' = [states EXCEPT ![i] = prepare(states[i], items, val, plan)]
      BY <1>3, <2>2 DEF sort_by
    <3> DEFINE t == prepare(states[i], items, val, plan)
    <3>2. i \in DOMAIN states /\ items \in Seq(Handle) /\ Consistent(states[i], items, val)
      BY DEF find_state, IInv, Collection
    <3>3. t.name = states[i].name
      BY <3>2, PrepareConsistent
    <3>4. WorkKept(states[i], t)
      BY <3>2, ReadKeeps DEF KnownStates
    <3>5. states' = [states EXCEPT ![i] = t]
      BY <3>1
    <3> HIDE DEF t
    <3> QED
      BY <3>2, <3>3, <3>4, <3>5, OneKept
  <2> QED
    BY <2>1, <2>2
<1>4. CASE unsort
  BY <1>4, IdleKept DEF unsort
<1> QED
  BY <1>1, <1>2, <1>3, <1>4 DEF Select

\* The other calls say that they are others.
LEMMA OtherCalls ==
    ASSUME Tune \/ Change
    PROVE  result'.op \notin ReadCalls
<1> DEFINE Other == result'.op \notin ReadCalls
<1>1. ASSUME NEW k, NEW pl, rebalance(k) \/ rebalance_all \/ set_plan(pl)
      PROVE  Other
  BY <1>1 DEF rebalance, rebalance_all, set_plan, Call, Void, Thrown, ReadCalls
<1>2. ASSUME NEW h, NEW v, add(h, v)
      PROVE  Other
  BY <1>2 DEF add, Call, Void, Thrown, ReadCalls
<1>3. ASSUME NEW hs, NEW vs, add_all(hs, vs)
      PROVE  Other
  <2>1. result' = Thrown("add_all") \/ result' = Void("add_all")
    BY <1>3 DEF add_all
  <2> QED
    BY <2>1 DEF Call, Void, Thrown, ReadCalls
<1>4. ASSUME NEW kept, remove_if(kept)
      PROVE  Other
  BY <1>4 DEF remove_if, Call, ReadCalls
<1>5. ASSUME NEW matching, NEW change, update_if(matching, change)
      PROVE  Other
  BY <1>5 DEF update_if, Call, ReadCalls
<1>6. clear => Other
  <2>1. clear => result' = Void("clear")
    BY DEF clear
  <2> QED
    BY <2>1 DEF Call, Void, ReadCalls
<1> HIDE DEF Other
<1>7. Tune => Other
  BY <1>1 DEF Tune
<1>8. Change => Other
  <2>1. (\E h \in Fresh, v \in Value : Room(1) /\ add(h, v)) => Other
    BY <1>2
  <2>2. (\E m \in 0 .. MaxBulk : \E hs \in [1 .. m -> Fresh] :
            Room(m) /\ IsInjective(hs) /\ \E vs \in [ToSet(hs) -> Value] : add_all(hs, vs)) => Other
    BY <1>3, Zenon
  <2>3. (\E kept \in Selections(Len(items)) :
            Bounded(Len(items) - Len(kept)) /\ remove_if(kept)) => Other
    BY <1>4, Zenon
  <2>4. (\E matching \in {S \in SUBSET DOMAIN items : Cardinality(S) <= MaxBulk} :
            Bounded(Cardinality(matching)) /\ \E change \in [{items[x] : x \in matching} -> Value] :
                update_if(matching, change)) => Other
    BY <1>5, Zenon
  <2> QED
    BY <1>6, <2>1, <2>2, <2>3, <2>4, Zenon DEF Change
<1> QED
  BY <1>7, <1>8 DEF Other

\* Selecting, reading, and registering or removing a sort key keep every sorted
\* prefix of every sort key: regroup takes over what still stands of it, sort_bucket
\* only makes it longer, and the one thing that loses it, a rebalance that
\* maybe_auto_rebalance finds due, sets churn back from at least a page to 0.
THEOREM SortedWorkStays == Spec => SortedWorkKept
<1> DEFINE Claim == result'.op \in ReadCalls =>
              \A i \in DOMAIN states, j \in DOMAIN states' :
                ( /\ states[i].name = states'[j].name
                  /\ states[i].has_order /\ states'[j].churn = states[i].churn )
                => /\ states'[j].has_order
                   /\ \A b \in DOMAIN states[i].sorted_len :
                         states'[j].sorted_len[b] >=
                            Cardinality({p \in 1 .. states[i].sorted_len[b] :
                                grouped(states[i], b)[p] \notin states[i].moved})
<1>1. Init => EstimateSizes
  BY DEF Init, EstimateSizes
<1>2. IInv /\ IInv' /\ EstimateSizes /\ [Next]_vars => EstimateSizes'
  BY EstimateSizesStep
<1>3. ASSUME IInv, Books, Groupings, EstimateSizes, [Next]_vars
      PROVE  [Claim]_vars
  <2>1. KnownStates
    BY <1>3, BucketIndexAssumption
       DEF IInv, Books, BooksIn, Groupings, EstimateSizes, Ready, KnownStates
  <2>2. AllKept => Claim
    BY DEF AllKept, WorkKept, staying
  <2> HIDE DEF Claim
  <2>3. CASE UNCHANGED vars
    BY <2>3
  <2>4. CASE Read
    BY <1>3, <2>1, <2>2, <2>4, ReadKept
  <2>5. CASE Select
    BY <1>3, <2>1, <2>2, <2>5, SelectKept
  <2>6. CASE Tune \/ Change
    BY <2>6, OtherCalls DEF Claim
  <2> QED
    BY <1>3, <2>3, <2>4, <2>5, <2>6 DEF Next
<1>4. [][Claim]_vars <=> SortedWorkKept
  BY DEF SortedWorkKept
<1> HIDE DEF Claim
<1>5. Spec => [](IInv /\ Books /\ Groupings)
  BY GroupingsInvariance
<1> QED
  BY <1>1, <1>2, <1>3, <1>4, <1>5, PTL DEF Spec
=============================================================================
