--------------------------- MODULE MCBucketIndex ---------------------------
(***************************************************************************)
(* Instances of BucketIndex.  A value has a rank; the sort keys are        *)
(*   "size"     keyed, exact, so that equal ranks tie,                     *)
(*   "name"     keyed by a prefix all values share, told apart by the      *)
(*              tie-breaker, so that split points store elements,          *)
(*   "natural"  comparator only,                                           *)
(*   "cyclic"   comparator only, 1 before 2 before 3 before 1,             *)
(*   "folders"  like "name", value 1 in a group before the others.         *)
(***************************************************************************)
EXTENDS BucketIndex, TLC

CONSTANT Ranks  \* the values are 1 .. Ranks

MCValue == 1 .. Ranks

sign(x) == IF x < 0 THEN -1 ELSE IF x > 0 THEN 1 ELSE 0

MCHasKey == [k \in Name |-> k \notin {"natural", "cyclic"}]

MCKeyOf == [k \in Name |-> [v \in MCValue |-> IF k = "size" THEN v \div 2 ELSE 7]]

MCCompareOf ==
    [k \in Name |-> [v \in MCValue |-> [w \in MCValue |->
        CASE k = "size"   -> 0
          [] k = "cyclic" -> ((v - w + 1) % 3) - 1
          [] OTHER        -> sign(v - w)]]]

MCGroupCount == [k \in Name |-> IF k = "folders" THEN 2 ELSE 1]

MCGroupOf ==
    [k \in Name |-> [v \in MCValue |-> IF k = "folders" /\ v > 1 THEN 2 ELSE 1]]

MCRng == << [j \in 1 .. 8 |-> j] >>

\* Pages of one element, each bucket twice as long as the one before; layouts
\* change only when told to.
manual == [kind |-> "geometric", page_size |-> 1, growth |-> <<2, 1>>, max_buckets |-> 64,
           symmetric |-> FALSE, sizes |-> << >>, sample_size |-> 2048, seed |-> 1,
           rebalance_skew |-> <<3, 2>>, auto_rebalance |-> FALSE]

ManualPlan == {manual}

\* The same with automatic rebalancing.
AutoPlan == {[manual EXCEPT !.auto_rebalance = TRUE]}

\* Everything in one bucket.
OneBucketPlan == {[manual EXCEPT !.max_buckets = 1]}

\* Two such plans to switch between: the second estimates two buckets from a
\* sample of two elements and shows two elements per page.
TwoAutoPlans ==
    AutoPlan \cup {[p EXCEPT !.kind = "uniform", !.max_buckets = 2,
                             !.sample_size = 2, !.page_size = 2] : p \in AutoPlan}

\* The calls recorded in result are checked on every step and are no part of
\* the state a step starts from.
NoResult == <<items, val, states, active, direction, plan>>

\* Elements have no order of their own.
Symmetric == Permutations(Handle)
=============================================================================
