---------------------------- MODULE BucketLayout ----------------------------
(***************************************************************************)
(* Where the bucket boundaries of one group of one sort key are            *)
(* (include/speedup/bucketization/bucket_layout.hpp): a sample of the      *)
(* elements is sorted, the plan's target sizes become positions in it, and *)
(* the sampled elements at those positions become the split points.        *)
(*                                                                         *)
(* A layout is [splits, expected].  A split point is [key, pos]: pos is    *)
(* the slot of the stored element, and no_element when a keyed split needs *)
(* none.  bucket_of takes the split points with their element resolved to  *)
(* the value it has now: [key, elem], elem \in Value \cup {NoValue}.       *)
(* Slots, groups and local bucket ids start at 1 (in the code at 0).       *)
(***************************************************************************)
EXTENDS SortKey, BucketPlan, StdAlgorithms

CONSTANTS
    NoValue,     \* a split point that stores no element
    Rng,         \* Rng[seed][j]: the j-th number SplitMix64 draws from that seed
    BucketLimit  \* BucketPlan::max_bucket_limit: bucket ids are 16-bit

\* A sort key has at most 256 groups, so each of them gets a bucket id.
ASSUME BucketLayoutAssumption ==
    /\ BucketLimit \in Nat /\ \A k \in Name : GroupCount[k] <= BucketLimit
    /\ NoValue \notin Value

\* SplitMix64 draws a number for every stride when up to n elements are sampled.
Draws(plan, n) ==
    plan.sample_size < n => \A j \in 1 .. plan.sample_size : Rng[plan.seed][j] \in Nat

no_element == 0

\* One drawn index from each of s equal strides; every index when n <= sample_size.
sample_indices(n, plan) ==
    LET s == min(n, plan.sample_size)
        lo(j) == ((j - 1) * n) \div s
        hi(j) == (j * n) \div s
    IN  [j \in 1 .. s |->
            IF s = n THEN j ELSE 1 + lo(j) + (Rng[plan.seed][j] % (hi(j) - lo(j)))]

\* Is d less than e, both differences of two size_t?  They wrap below 0.  With an
\* order, q lies in its run and none does; with cycles, q can be outside.
wrapped_less(d, e) ==
    \/ d >= 0 /\ (e < 0 \/ d < e)
    \/ d < 0 /\ e < 0 /\ d < e

\* Broken: the start of a run is taken again when it is the split before.
choose_split_positions_twice(desired, s, run_start, run_end) ==
    LET chosen[j \in 0 .. Len(desired)] ==
            IF j = 0 THEN << >>
            ELSE LET out == chosen[j - 1]
                     q  == desired[j]
                     hi == run_end[q]
                     best == IF /\ hi < s /\ (out = << >> \/ hi > Last(out))
                                /\ run_start[q] = 0 \/ wrapped_less(hi - q, q - run_start[q])
                             THEN hi ELSE run_start[q]
                 IN  IF best # 0 THEN Append(out, best) ELSE out
    IN  chosen[Len(desired)]

\* Moves each desired position q to the start or the end of its run of equal
\* elements, whichever is closer and keeps the positions increasing.
choose_split_positions(desired, s, run_start, run_end) ==
    LET chosen[j \in 0 .. Len(desired)] ==
            IF j = 0 THEN << >>
            ELSE LET out == chosen[j - 1]
                     q  == desired[j]
                     previous == IF out = << >> THEN 0 ELSE Last(out)
                     lo == IF run_start[q] > previous THEN run_start[q] ELSE 0
                     hi == run_end[q]
                     best == IF hi < s /\ hi > previous /\ (lo = 0 \/ wrapped_less(hi - q, q - lo))
                             THEN hi ELSE lo
                 IN  IF best # 0 THEN Append(out, best) ELSE out
    IN  chosen[Len(desired)]

\* The slots of the elements in group g, ascending.
members(k, vals, g) ==
    only([i \in 1 .. Len(vals) |-> i], {i \in DOMAIN vals : group(k, vals[i]) = g})

\* Broken: equal normalized keys count as equal elements.
sample_less_by_key(k, vals, ks, a, b) ==
    IF has_key(k) THEN ks[a] < ks[b] ELSE compare(k, vals[a], vals[b]) < 0

\* The order samples are sorted by; ks are the normalized keys of vals.
sample_less(k, vals, ks, a, b) ==
    IF has_key(k)
    THEN IF ks[a] # ks[b] THEN ks[a] < ks[b] ELSE tie_break(k, vals[a], vals[b]) < 0
    ELSE compare(k, vals[a], vals[b]) < 0

sample_order(k, vals, ks) ==
    {p \in (DOMAIN vals) \X (DOMAIN vals) : sample_less(k, vals, ks, p[1], p[2])}

desired_positions(targets, s, n) ==
    LET cumulative[j \in 0 .. Len(targets)] ==
            IF j = 0 THEN 0 ELSE cumulative[j - 1] + targets[j]
    IN  [j \in 1 .. Len(targets) - 1 |-> (cumulative[j] * s) \div n]

sorted_sample(k, vals, ks, plan, g) ==
    LET subset == members(k, vals, g)
        indices == sample_indices(Len(subset), plan)
    IN  stable_sort([j \in DOMAIN indices |-> subset[indices[j]]], sample_order(k, vals, ks))

\* Broken: a run of equal elements is taken to end where the position is.
split_positions_inside_runs(k, vals, ks, sorted, targets, n) ==
    LET less == sample_order(k, vals, ks)
        s == Len(sorted)
    IN  choose_split_positions(desired_positions(targets, s, n), s,
            [q \in 0 .. s - 1 |-> lower_bound(sorted, sorted[q + 1], less)],
            [q \in 0 .. s - 1 |-> q + 1])

split_positions(k, vals, ks, sorted, targets, n) ==
    LET less == sample_order(k, vals, ks)
        s == Len(sorted)
    IN  choose_split_positions(desired_positions(targets, s, n), s,
            [q \in 0 .. s - 1 |-> lower_bound(sorted, sorted[q + 1], less)],
            [q \in 0 .. s - 1 |-> upper_bound(sorted, sorted[q + 1], less)])

\* Broken: no entry for what lies behind the last split.
expected_sizes_without_last(positions, s, n) ==
    LET ends == <<0>> \o positions
    IN  [i \in 1 .. Len(positions) |-> ((ends[i + 1] - ends[i]) * n + s \div 2) \div s]

\* How many of n elements each bucket is expected to get: its share of the sample
\* of s elements, rounded.
expected_sizes(positions, s, n) ==
    LET ends == <<0>> \o positions \o <<s>>
    IN  [i \in 1 .. Len(positions) + 1 |-> ((ends[i + 1] - ends[i]) * n + s \div 2) \div s]

\* The split point between the sampled elements p and p + 1.  It stores the
\* element only when its normalized key does not tell the two apart.  A position
\* behind the sample, which only a comparator with cycles gives (MCSplitCyclic), has
\* no element p + 1: the code reads past the end, and what follows is not modelled.
split_point(k, ks, sorted, p) ==
    [key |-> IF has_key(k) THEN ks[sorted[p + 1]] ELSE 0,
     pos |-> IF ~ has_key(k) \/ ks[sorted[p]] = ks[sorted[p + 1]]
             THEN sorted[p + 1] ELSE no_element]

split_at(k, ks, sorted, positions, n) ==
    [splits |-> [i \in DOMAIN positions |-> split_point(k, ks, sorted, positions[i])],
     expected |-> expected_sizes(positions, Len(sorted), n)]

estimate_for(k, vals, ks, sorted, targets, n) ==
    IF Len(targets) <= 1 THEN [splits |-> << >>, expected |-> <<n>>]
    ELSE split_at(k, ks, sorted, split_positions(k, vals, ks, sorted, targets, n), n)

\* The layout of group g of the elements with values vals and keys ks.
estimate(k, vals, ks, plan, g) ==
    LET n == Len(members(k, vals, g))
    IN  estimate_for(k, vals, ks, sorted_sample(k, vals, ks, plan, g), target_sizes(plan, n), n)

\* The plan of every group: the groups share the bucket ids.
per_group(k, plan) ==
    IF GroupCount[k] = 1 THEN plan
    ELSE with_max_buckets(plan, min(plan.max_buckets, BucketLimit \div GroupCount[k]), BucketLimit)

\* One layout per group.
estimate_layouts(k, vals, ks, plan) ==
    [g \in 1 .. GroupCount[k] |-> estimate(k, vals, ks, per_group(k, plan), g)]

\* Broken: the tie-breaker compares the other way round.
below_swapped(k, point, v, vk) ==
    IF has_key(k)
    THEN IF vk = point.key /\ point.elem # NoValue
         THEN tie_break(k, point.elem, v) < 0
         ELSE vk < point.key
    ELSE compare(k, v, point.elem) < 0

\* Broken: the split element itself goes below the split.
below_or_equal(k, point, v, vk) ==
    IF has_key(k)
    THEN IF vk = point.key /\ point.elem # NoValue
         THEN tie_break(k, v, point.elem) <= 0
         ELSE vk <= point.key
    ELSE compare(k, v, point.elem) <= 0

\* Is an element with value v and key vk below the split point?
below(k, point, v, vk) ==
    IF has_key(k)
    THEN IF vk = point.key /\ point.elem # NoValue
         THEN tie_break(k, v, point.elem) < 0
         ELSE vk < point.key
    ELSE compare(k, v, point.elem) < 0

\* The bucket of an element under the resolved split points.
bucket_of(k, points, v, vk) ==
    1 + first_above(Len(points), {i \in DOMAIN points : below(k, points[i], v, vk)})
=============================================================================
