--------------------------- MODULE StdAlgorithms ---------------------------
(***************************************************************************)
(* The algorithms of the C++ standard library the index relies on, as      *)
(* operators on sequences.  Each is the algorithm itself and not only its  *)
(* postcondition, because the index also calls them with comparators that  *)
(* are no order at all.  Positions are counts: p stands for the iterator   *)
(* with p elements before it.  A comparator is the set of the pairs <<x,   *)
(* y>> for which less(x, y) is true.                                       *)
(***************************************************************************)
EXTENDS Integers, Sequences, SequencesExt

\* The binary search all of std::lower_bound, std::upper_bound and the loops
\* of BucketLayout::bucket_of share: the first of n places that is above.  Every
\* round leaves at least one place fewer, so n rounds are enough.
first_above(n, above) ==
    LET round[i \in 0 .. n] ==
            IF i = 0 THEN [lo |-> 0, hi |-> n]
            ELSE LET b == round[i - 1]
                     mid == b.lo + (b.hi - b.lo) \div 2
                 IN  IF b.lo >= b.hi THEN b
                     ELSE IF mid + 1 \in above THEN [lo |-> b.lo, hi |-> mid]
                     ELSE [lo |-> mid + 1, hi |-> b.hi]
    IN  round[n].lo

lower_bound(s, x, less) == first_above(Len(s), {i \in DOMAIN s : <<s[i], x>> \notin less})
upper_bound(s, x, less) == first_above(Len(s), {i \in DOMAIN s : <<x, s[i]>> \in less})

\* What a loop over s that skips all but the elements of T leaves, in their order.
only(s, T) ==
    LET kept[i \in 0 .. Len(s)] ==
            IF i = 0 THEN << >>
            ELSE IF s[i] \in T THEN Append(kept[i - 1], s[i]) ELSE kept[i - 1]
    IN  kept[Len(s)]

\* s with x inserted from the back: to the very front when it is less than the
\* first element, otherwise past the elements it is less than.
inserted(s, x, less) ==
    LET stays == {i \in DOMAIN s : <<x, s[i]>> \notin less}
        gap == IF 1 \in stays THEN Max(stays) ELSE 0
    IN  SubSeq(s, 1, gap) \o <<x>> \o SubSeq(s, gap + 1, Len(s))

\* std::stable_sort.  Short ranges are insertion sorted, which for an order has
\* the one result a stable sort can have.
stable_sort(s, less) ==
    LET upto[i \in 0 .. Len(s)] ==
            IF i = 0 THEN << >> ELSE inserted(upto[i - 1], s[i], less)
    IN  upto[Len(s)]

is_sorted(s, less) == \A i \in 1 .. Len(s) - 1 : <<s[i + 1], s[i]>> \notin less

\* std::inplace_merge of the adjacent ranges s and t: the head of t goes first
\* only when it is less than the head of s.  taken[i]: how many of the first i
\* elements of the result come from s.
inplace_merge(s, t, less) ==
    LET taken[i \in 0 .. Len(s) + Len(t)] ==
            IF i = 0 THEN 0
            ELSE LET p == taken[i - 1]
                     q == i - 1 - p
                 IN  IF p < Len(s) /\ (q = Len(t) \/ <<t[q + 1], s[p + 1]>> \notin less)
                     THEN p + 1 ELSE p
    IN  [i \in 1 .. Len(s) + Len(t) |->
            IF taken[i] = taken[i - 1] THEN t[i - taken[i]] ELSE s[taken[i]]]
=============================================================================
