----------------------------- MODULE BucketPlan -----------------------------
(***************************************************************************)
(* The target bucket sizes of a plan                                       *)
(* (include/speedup/bucketization/bucket_plan.hpp).  A plan is a record    *)
(* with the fields kind, page_size, growth, max_buckets, symmetric, sizes, *)
(* sample_size, seed, rebalance_skew and auto_rebalance.  The two doubles, *)
(* growth and rebalance_skew, are pairs <<numerator, denominator>>.        *)
(***************************************************************************)
EXTENDS Integers, Sequences, SequencesExt

min(a, b) == IF a <= b THEN a ELSE b
max(a, b) == IF a >= b THEN a ELSE b

\* The sum of a sequence of sizes.
total(t) ==
    LET sum[i \in 0 .. Len(t)] == IF i = 0 THEN 0 ELSE sum[i - 1] + t[i]
    IN  sum[Len(t)]

\* What every factory and every with_... function makes sure of.
IsPlan(plan) ==
    /\ plan \in [kind : {"uniform", "sizes", "first_page", "geometric"},
                 page_size : Nat \ {0}, growth : Nat \X (Nat \ {0}), max_buckets : Nat \ {0},
                 symmetric : BOOLEAN, sizes : Seq(Nat \ {0}), sample_size : Nat \ {0},
                 seed : Nat, rebalance_skew : Nat \X (Nat \ {0}), auto_rebalance : BOOLEAN]
    /\ plan.growth[1] >= plan.growth[2]
    /\ plan.rebalance_skew[1] > plan.rebalance_skew[2]
    /\ plan.kind = "sizes" => plan.sizes # << >>

\* with_max_buckets: at least 1 is the caller's duty, at most limit is clamped.
with_max_buckets(plan, m, limit) == [plan EXCEPT !.max_buckets = min(m, limit)]

uniform_sizes(plan, n) ==
    LET count == min(plan.max_buckets, n)
    IN  [i \in 1 .. count |-> (n \div count) + (IF i <= n % count THEN 1 ELSE 0)]

\* The loop over sizes_ carries the buckets so far and what remains to place.
explicit_sizes(plan, n) ==
    LET placed[i \in 0 .. Len(plan.sizes)] ==
            IF i = 0 THEN [out |-> << >>, remaining |-> n]
            ELSE LET p == placed[i - 1]
                     take == min(plan.sizes[i], p.remaining)
                 IN  IF p.remaining = 0 \/ Len(p.out) + 1 = plan.max_buckets THEN p
                     ELSE [out |-> Append(p.out, take), remaining |-> p.remaining - take]
        all(end) == IF end.remaining > 0 THEN Append(end.out, end.remaining) ELSE end.out
    IN  all(placed[Len(plan.sizes)])

\* Broken: two pages are taken although they overlap.
first_page_sizes_overlapping(plan, n) ==
    LET page == min(plan.page_size, n)
    IN  IF plan.max_buckets = 1 \/ page = n THEN <<n>>
        ELSE IF plan.symmetric /\ plan.max_buckets >= 3
             THEN <<page, n - 2 * page, page>>
             ELSE <<page, n - page>>

first_page_sizes(plan, n) ==
    LET page == min(plan.page_size, n)
    IN  IF plan.max_buckets = 1 \/ page = n THEN <<n>>
        ELSE IF plan.symmetric /\ plan.max_buckets >= 3 /\ n > 2 * page
             THEN <<page, n - 2 * page, page>>
             ELSE <<page, n - page>>

\* Broken: the bucket at the back is one growth ahead of the one at the front.
geometric_step_lopsided(plan, n, l) ==
    LET take1 == min((l.num + l.den - 1) \div l.den, l.remaining)
        rem1  == l.remaining - take1
        both  == plan.symmetric /\ rem1 > 0 /\ l.budget - 1 > 1
        num   == min(l.num * plan.growth[1], n * l.den * plan.growth[2])
        den   == l.den * plan.growth[2]
        take2 == IF both THEN min((num + den - 1) \div den, rem1) ELSE 0
    IN  [front |-> Append(l.front, take1), back |-> IF both THEN <<take2>> \o l.back ELSE l.back,
         remaining |-> rem1 - take2, budget |-> l.budget - (IF both THEN 2 ELSE 1),
         num |-> num, den |-> den]

\* One iteration of geometric_sizes' loop.  size is the double of the code as
\* the fraction num/den; step is its ceiling.
geometric_step(plan, n, l) ==
    LET step  == (l.num + l.den - 1) \div l.den
        take1 == min(step, l.remaining)
        rem1  == l.remaining - take1
        both  == plan.symmetric /\ rem1 > 0 /\ l.budget - 1 > 1
        take2 == IF both THEN min(step, rem1) ELSE 0
        num   == l.num * plan.growth[1]
        den   == l.den * plan.growth[2]
        capped == num >= n * den
    IN  [front     |-> Append(l.front, take1),
         back      |-> IF both THEN <<take2>> \o l.back ELSE l.back,
         remaining |-> rem1 - take2,
         budget    |-> l.budget - (IF both THEN 2 ELSE 1),
         num       |-> IF capped THEN n ELSE num,
         den       |-> IF capped THEN 1 ELSE den]

\* Every iteration spends at least one unit of budget and places one element,
\* so min(n, max_buckets) iterations from l reach the end of the loop.
geometric_rest(plan, n, l) ==
    LET loop[i \in 0 .. min(n, plan.max_buckets)] ==
            IF i = 0 THEN l
            ELSE LET m == loop[i - 1]
                 IN  IF m.remaining > 0 /\ m.budget > 1 THEN geometric_step(plan, n, m) ELSE m
        all(end) == end.front \o (IF end.remaining > 0 THEN <<end.remaining>> ELSE << >>) \o end.back
    IN  all(loop[min(n, plan.max_buckets)])

geometric_start(plan, n) ==
    [front |-> << >>, back |-> << >>, remaining |-> n,
     budget |-> plan.max_buckets, num |-> plan.page_size, den |-> 1]

geometric_sizes(plan, n) == geometric_rest(plan, n, geometric_start(plan, n))

\* Target size of every bucket for n elements, in ascending key order.
target_sizes(plan, n) ==
    CASE n = 0                                  -> <<0>>
      [] n > 0 /\ plan.kind = "uniform"         -> uniform_sizes(plan, n)
      [] n > 0 /\ plan.kind = "sizes"           -> explicit_sizes(plan, n)
      [] n > 0 /\ plan.kind = "first_page"      -> first_page_sizes(plan, n)
      [] n > 0 /\ plan.kind = "geometric"       -> geometric_sizes(plan, n)
=============================================================================
