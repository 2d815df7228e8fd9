----------------------------- MODULE SlotSorter -----------------------------
(***************************************************************************)
(* How the Java index sorts one bucket in place: SlotSorter.java, the      *)
(* stable merge sort on int slots, and the part of BucketIndex.java that   *)
(* calls it.  The C++ index leaves this to std::stable_sort and            *)
(* std::inplace_merge, which StdAlgorithms describes; here the arrays are  *)
(* what counts: merge copies only the left half out of the way, into a     *)
(* buffer that the caller has made as small as it can be.                  *)
(*                                                                         *)
(* bucket is order[start[b] .. start[b + 1]), positions start at 1; from   *)
(* and to bound the half-open ranges of the code, counted from 0.          *)
(***************************************************************************)
EXTENDS Integers, Sequences, FiniteSets

CONSTANTS
    Slot,      \* the slots that can be in the bucket
    Outcomes,  \* what sort keys can say of two slots' elements: outcome[a][b]
    InsertionThreshold  \* INSERTION_THRESHOLD

ASSUME SlotSorterAssumption ==
    /\ Slot \subseteq Nat
    /\ Outcomes \subseteq [Slot -> [Slot -> {-1, 0, 1}]]
    /\ InsertionThreshold \in Nat \ {0}

VARIABLES
    outcome,  \* the key and the tie-breaker of the sort key
    bucket,   \* the slots of the bucket
    sorted,   \* sortedLen: the length of its sorted prefix
    spilled   \* has a merge needed more than the buffer it was given?

vars == <<outcome, bucket, sorted, spilled>>

larger(x, y) == IF x > y THEN x ELSE y

\* The comparator of the index: equal elements keep insertion order.
slot_compare(a, b) ==
    IF outcome[a][b] # 0 THEN outcome[a][b] ELSE IF a < b THEN -1 ELSE IF a > b THEN 1 ELSE 0

\* What a call works with: the array, the size of the buffer, and whether the
\* buffer was too small.
Work(a, room, over) == [a |-> a, room |-> room, over |-> over]
-----------------------------------------------------------------------------
(* SlotSorter                                                              *)

\* Where the value at i belongs among the places from from on: behind the last
\* one that is not larger.
gap(a, from, i) ==
    LET stops == {from} \cup {j \in from + 1 .. i - 1 : slot_compare(a[j], a[i]) <= 0}
    IN  CHOOSE j \in stops : \A k \in stops : k <= j

\* Broken: the value is not written back into the gap.
inserted_without_value(a, from, i) ==
    LET g == gap(a, from, i)
    IN  SubSeq(a, 1, g + 1) \o SubSeq(a, g + 1, i - 1) \o SubSeq(a, i + 1, Len(a))

\* Inserts the value at i before the larger ones to its left.
inserted(a, from, i) ==
    LET g == gap(a, from, i)
    IN  SubSeq(a, 1, g) \o <<a[i]>> \o SubSeq(a, g + 1, i - 1) \o SubSeq(a, i + 1, Len(a))

insertion_sort(w, from, to) ==
    LET after[n \in 0 .. to - from] ==
            IF n <= 1 THEN w.a ELSE inserted(after[n - 1], from, from + n)
    IN  [w EXCEPT !.a = after[to - from]]

\* Does the left element go out before the right one?
taken_left(tmp, a, i, j) == slot_compare(tmp[i], a[j]) <= 0

\* One round of the merge loops.  i counts what was taken of the buffer, j what was
\* passed on the right; the array is written at i + j - mid, which never catches
\* up with j.
merge_round(m, tmp, to) ==
    LET k == m.j - Len(tmp) + m.i
    IN  IF m.i = Len(tmp) THEN m
        ELSE IF m.j < to /\ ~ taken_left(tmp, m.a, m.i + 1, m.j + 1)
             THEN [a |-> [m.a EXCEPT ![k + 1] = m.a[m.j + 1]], i |-> m.i, j |-> m.j + 1]
             ELSE [a |-> [m.a EXCEPT ![k + 1] = tmp[m.i + 1]], i |-> m.i + 1, j |-> m.j]

merged(a, from, mid, to) ==
    LET tmp == SubSeq(a, from + 1, mid)
        after[n \in 0 .. to - from] ==
            IF n = 0 THEN [a |-> a, i |-> 0, j |-> mid] ELSE merge_round(after[n - 1], tmp, to)
    IN  after[to - from].a

merge(w, from, mid, to) ==
    IF from = mid \/ mid = to \/ slot_compare(w.a[mid], w.a[mid + 1]) <= 0 THEN w
    ELSE [w EXCEPT !.a = merged(w.a, from, mid, to),
                   !.over = w.over \/ mid - from > w.room]

middle(from, to) == (from + to) \div 2

Works == [a : Seq(Slot), room : Nat, over : BOOLEAN]

\* The calls of sort for at most n slots.
Calls(n) ==
    {c \in [w : Works, from : Nat, to : Nat] :
        c.from <= c.to /\ c.to <= Len(c.w.a) /\ c.to - c.from <= n}

Call(w, from, to) == [w |-> w, from |-> from, to |-> to]

sort(w, from, to) ==
    LET done[c \in Calls(to - from)] ==
            IF c.to - c.from <= InsertionThreshold THEN insertion_sort(c.w, c.from, c.to)
            ELSE LET mid  == middle(c.from, c.to)
                     left == done[Call(c.w, c.from, mid)]
                 IN  merge(done[Call(left, mid, c.to)], c.from, mid, c.to)
    IN  done[Call(w, from, to)]
-----------------------------------------------------------------------------
(* The bucket                                                              *)

Init == outcome \in Outcomes /\ bucket = << >> /\ sorted = 0 /\ spilled = FALSE

\* Slots added or re-placed since the last read are behind the sorted prefix.
place(x) ==
    /\ bucket' = Append(bucket, x)
    /\ UNCHANGED <<outcome, sorted, spilled>>

\* Broken: the prefix keeps its length when one of its slots leaves.
leave_keeping_prefix(p) ==
    /\ bucket' = SubSeq(bucket, 1, p - 1) \o SubSeq(bucket, p + 1, Len(bucket))
    /\ UNCHANGED <<outcome, sorted, spilled>>

\* regroup and compact take slots out; those of the prefix shorten it.
leave(p) ==
    /\ bucket' = SubSeq(bucket, 1, p - 1) \o SubSeq(bucket, p + 1, Len(bucket))
    /\ sorted' = IF p <= sorted THEN sorted - 1 ELSE sorted
    /\ UNCHANGED <<outcome, spilled>>

\* Broken: the buffer is made for the unsorted rest only.
buffer_for_rest(unsorted, prefix) == unsorted

\* The length of the buffer.
buffer(unsorted, prefix) == larger(unsorted, prefix)

\* Broken: the prefix is not merged with what was sorted behind it.
sort_bucket_without_merge ==
    LET to == Len(bucket)
        w  == sort(Work(bucket, buffer(to - sorted, sorted), FALSE), sorted, to)
    IN  IF sorted = to THEN UNCHANGED vars
        ELSE /\ bucket' = w.a /\ sorted' = to /\ spilled' = (spilled \/ w.over)
             /\ UNCHANGED outcome

sort_bucket ==
    LET to == Len(bucket)
        w  == sort(Work(bucket, buffer(to - sorted, sorted), FALSE), sorted, to)
        m  == merge(w, 0, sorted, to)
    IN  IF sorted = to THEN UNCHANGED vars
        ELSE /\ bucket' = m.a /\ sorted' = to /\ spilled' = (spilled \/ m.over)
             /\ UNCHANGED outcome

Placed == {bucket[p] : p \in DOMAIN bucket}

Next ==
    \/ \E x \in Slot \ Placed : place(x)
    \/ \E p \in DOMAIN bucket : leave(p)
    \/ sort_bucket

Spec == Init /\ [][Next]_vars
-----------------------------------------------------------------------------
(* Correctness                                                             *)

\* Type invariant: the prefix is a part of the bucket.
TypeOK ==
    /\ outcome \in Outcomes
    /\ bucket \in Seq(Slot) /\ sorted \in 0 .. Len(bucket) /\ spilled \in BOOLEAN

\* "Must be a total order": what the caller of SlotSorter owes.
IsOrder == \A a, b, c \in Slot :
    /\ slot_compare(a, b) < 0 <=> slot_compare(b, a) > 0
    /\ slot_compare(a, b) < 0 /\ slot_compare(b, c) < 0 => slot_compare(a, c) < 0

\* The sorted prefix is in the exact order of the comparator, ties in insertion
\* order, whatever order the slots came in and left the bucket.
PrefixExact ==
    IsOrder => \A p, q \in 1 .. sorted : p < q => slot_compare(bucket[p], bucket[q]) < 0

\* No slot is lost or doubled by the copying, also when the caller's comparator
\* is not an order.
NothingLost ==
    [][ sorted' # sorted /\ Len(bucket') = Len(bucket) =>
            {bucket'[p] : p \in DOMAIN bucket'} = Placed ]_vars

\* The buffer sort_bucket makes is large enough for every merge in it, those of
\* the recursive sort of the unsorted rest and the one with the prefix.
BufferSuffices == ~ spilled
=============================================================================
