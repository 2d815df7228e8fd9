-------------------------- MODULE EstimationProofs --------------------------
(***************************************************************************)
(* Proofs about LayoutEstimation, for every plan a caller can build, every *)
(* collection and every sort key that orders its values: how large the     *)
(* target sizes are, where the sample is split, and what bucket a value is *)
(* put into.  In every reachable state the sample, the positions and the   *)
(* layouts are those of the collection (Current), so that the facts of     *)
(* LayoutProofs about one layout hold of all of them.                      *)
(***************************************************************************)
EXTENDS LayoutEstimation, LayoutProofs

-----------------------------------------------------------------------------
(* Plans that callers build                                                *)

\* A geometric plan starts with a page size that was asked for.
Paged(p) == p.kind = "geometric" => p.page_size \in PageSizes

\* The limit of buckets is at least one, because a sort key has a group.
LEMMA LimitPositive ==
    ASSUME NEW name \in Name
    PROVE  BucketLimit \in Nat \ {0} /\ GroupCount[name] \in Nat \ {0} /\ GroupCount[name] <= BucketLimit
<1>1. GroupCount[name] \in Nat \ {0}
  BY SortKeyAssumption
<1>2. BucketLimit \in Nat /\ GroupCount[name] <= BucketLimit
  BY BucketLayoutAssumption
<1> QED
  BY <1>1, <1>2

\* The fields of a plan.
PlanFields ==
    [kind : {"uniform", "sizes", "first_page", "geometric"},
     page_size : Nat \ {0}, growth : Nat \X (Nat \ {0}), max_buckets : Nat \ {0},
     symmetric : BOOLEAN, sizes : Seq(Nat \ {0}), sample_size : Nat \ {0},
     seed : Nat, rebalance_skew : Nat \X (Nat \ {0}), auto_rebalance : BOOLEAN]

\* The smaller of two positive numbers is positive.
LEMMA LesserPositive ==
    ASSUME NEW x \in Nat \ {0}, NEW y \in Nat \ {0}
    PROVE  Builder!min(x, y) \in Nat \ {0}
  BY DEF Builder!min

\* What every factory starts from is a plan but for the kind.
LEMMA InitialPlan ==
    ASSUME NEW kind \in {"uniform", "sizes", "first_page", "geometric"}
    PROVE  /\ Builder!initial(kind) \in PlanFields
           /\ Builder!initial(kind).kind = kind
           /\ Builder!initial(kind).growth[1] >= Builder!initial(kind).growth[2]
           /\ Builder!initial(kind).rebalance_skew[1] > Builder!initial(kind).rebalance_skew[2]
  BY LayoutEstimationAssumption DEF Builder!initial, PlanFields

\* What the factories make are plans.
LEMMA FactoriesMakePlans ==
    ASSUME Builder!Init, NEW name \in Name
    PROVE  IsPlan(plan) /\ Paged(plan)
<1>1. BucketLimit \in Nat \ {0}
  BY LimitPositive
<1>2. CASE plan \in Builder!first_page
  <2>1. PICK page \in Builder!positive(PageSizes) :
            plan = [Builder!initial("first_page") EXCEPT !.page_size = page]
    BY <1>2 DEF Builder!first_page
  <2>2. page \in Nat \ {0}
    BY LayoutEstimationAssumption DEF Builder!positive
  <2> DEFINE from == Builder!initial("first_page")
  <2>3. /\ from \in PlanFields /\ from.kind = "first_page" /\ from.growth[1] >= from.growth[2]
        /\ from.rebalance_skew[1] > from.rebalance_skew[2]
    BY InitialPlan
  <2> HIDE DEF from
  <2>4. plan = [from EXCEPT !.page_size = page]
    BY <2>1 DEF from
  <2> QED
    BY <2>2, <2>3, <2>4 DEF PlanFields, IsPlan, Paged
<1>3. CASE plan \in Builder!geometric
  <2>1. PICK page \in Builder!positive(PageSizes), rate \in {q \in Growths : Builder!at_least(q, 1)} :
            plan = Builder!geometric_plan(page, rate)
    BY <1>3 DEF Builder!geometric
  <2>2. page \in Nat \ {0} /\ page \in PageSizes
    BY LayoutEstimationAssumption DEF Builder!positive
  <2>3. rate \in Nat \X (Nat \ {0}) /\ rate[1] >= rate[2]
    BY LayoutEstimationAssumption DEF Builder!at_least
  <2> DEFINE from == Builder!initial("geometric")
  <2>4. /\ from \in PlanFields /\ from.kind = "geometric" /\ from.growth[1] >= from.growth[2]
        /\ from.rebalance_skew[1] > from.rebalance_skew[2]
    BY InitialPlan
  <2> HIDE DEF from
  <2>5. plan = [from EXCEPT !.page_size = page, !.growth = rate]
    BY <2>1 DEF from, Builder!geometric_plan
  <2> QED
    BY <2>2, <2>3, <2>4, <2>5 DEF PlanFields, IsPlan, Paged
<1>4. CASE plan \in Builder!uniform
  <2>1. PICK m \in Builder!positive(BucketCounts) :
            plan = [Builder!initial("uniform") EXCEPT !.max_buckets = Builder!min(m, BucketLimit)]
    BY <1>4 DEF Builder!uniform
  <2>2. m \in Nat \ {0}
    BY LayoutEstimationAssumption DEF Builder!positive
  <2>3. Builder!min(m, BucketLimit) \in Nat \ {0}
    BY <1>1, <2>2, LesserPositive
  <2> DEFINE from == Builder!initial("uniform")
             limit == Builder!min(m, BucketLimit)
  <2>4. /\ from \in PlanFields /\ from.kind = "uniform" /\ from.growth[1] >= from.growth[2]
        /\ from.rebalance_skew[1] > from.rebalance_skew[2]
    BY InitialPlan
  <2> HIDE DEF from, limit
  <2>5. plan = [from EXCEPT !.max_buckets = limit] /\ limit \in Nat \ {0}
    BY <2>1, <2>3 DEF from, limit
  <2> QED
    BY <2>4, <2>5 DEF PlanFields, IsPlan, Paged
<1>5. CASE plan \in Builder!of_sizes
  <2>1. PICK t \in {u \in SizeLists : u # << >> /\ \A i \in DOMAIN u : u[i] > 0} :
            plan = [Builder!initial("sizes") EXCEPT !.page_size = t[1], !.sizes = t]
    BY <1>5 DEF Builder!of_sizes
  <2>2. t \in Seq(Nat) /\ t # << >> /\ \A i \in 1 .. Len(t) : t[i] > 0
    BY LayoutEstimationAssumption
  <2>3. t \in Seq(Nat \ {0}) /\ t[1] \in Nat \ {0}
    BY <2>2
  <2> DEFINE from == Builder!initial("sizes")
             page == t[1]
  <2>4. /\ from \in PlanFields /\ from.kind = "sizes" /\ from.growth[1] >= from.growth[2]
        /\ from.rebalance_skew[1] > from.rebalance_skew[2]
    BY InitialPlan
  <2> HIDE DEF from, page
  <2>5. plan = [from EXCEPT !.page_size = page, !.sizes = t]
        /\ page \in Nat \ {0} /\ t \in Seq(Nat \ {0}) /\ t # << >>
    BY <2>1, <2>2, <2>3 DEF from, page
  <2> QED
    BY <2>4, <2>5 DEF PlanFields, IsPlan, Paged
<1> QED
  BY <1>2, <1>3, <1>4, <1>5 DEF Builder!Init

\* A copy with one field changed is a plan again, or is refused.
LEMMA CopiesArePlans ==
    ASSUME IsPlan(plan), Paged(plan), Builder!Build, NEW name \in Name
    PROVE  IsPlan(plan') /\ Paged(plan')
<1>1. BucketLimit \in Nat \ {0}
  BY LimitPositive
<1>2. plan \in PlanFields /\ plan.max_buckets \in Nat \ {0}
  BY DEF IsPlan, PlanFields
<1>3. ASSUME NEW page \in PageSizes, Builder!with_page_size(page)
      PROVE  IsPlan(plan') /\ Paged(plan')
  <2>1. CASE page > 0
    <3>1. page \in Nat \ {0}
      BY <2>1, LayoutEstimationAssumption
    <3>2. plan' = [plan EXCEPT !.page_size = page]
      BY <1>3, <2>1 DEF Builder!with_page_size, Builder!copy
    <3> QED
      BY <1>2, <3>1, <3>2 DEF PlanFields, IsPlan, Paged
  <2>2. CASE ~ (page > 0)
    BY <1>3, <2>2 DEF Builder!with_page_size, Builder!copy
  <2> QED
    BY <2>1, <2>2
<1>4. ASSUME NEW m \in BucketCounts, Builder!with_max_buckets_of(m)
      PROVE  IsPlan(plan') /\ Paged(plan')
  <2>1. CASE m > 0
    <3>1. Builder!min(m, BucketLimit) \in Nat \ {0}
      BY <1>1, <2>1, LesserPositive, LayoutEstimationAssumption
    <3>2. plan' = [plan EXCEPT !.max_buckets = Builder!min(m, BucketLimit)]
      BY <1>4, <2>1 DEF Builder!with_max_buckets_of, Builder!copy, Builder!with_max_buckets
    <3> QED
      BY <1>2, <3>1, <3>2 DEF IsPlan, Paged
  <2>2. CASE ~ (m > 0)
    BY <1>4, <2>2 DEF Builder!with_max_buckets_of, Builder!copy
  <2> QED
    BY <2>1, <2>2
<1>5. ASSUME NEW x \in BOOLEAN, Builder!with_symmetric(x)
      PROVE  IsPlan(plan') /\ Paged(plan')
  BY <1>2, <1>5 DEF Builder!with_symmetric, Builder!copy, IsPlan, Paged
<1>6. ASSUME NEW x \in SampleSizes, Builder!with_sample_size(x)
      PROVE  IsPlan(plan') /\ Paged(plan')
  <2>1. CASE x > 0
    <3>1. Builder!min(x, max_sample_size) \in Nat \ {0}
      BY <2>1, LesserPositive, LayoutEstimationAssumption
    <3>2. plan' = [plan EXCEPT !.sample_size = Builder!min(x, max_sample_size)]
      BY <1>6, <2>1 DEF Builder!with_sample_size, Builder!copy
    <3> QED
      BY <1>2, <3>1, <3>2 DEF IsPlan, Paged
  <2>2. CASE ~ (x > 0)
    BY <1>6, <2>2 DEF Builder!with_sample_size, Builder!copy
  <2> QED
    BY <2>1, <2>2
<1>7. ASSUME NEW x \in Seeds, Builder!with_seed(x)
      PROVE  IsPlan(plan') /\ Paged(plan')
  BY <1>2, <1>7, LayoutEstimationAssumption DEF Builder!with_seed, Builder!copy, IsPlan, Paged
<1>8. ASSUME NEW q \in Skews, Builder!with_rebalance_skew(q)
      PROVE  IsPlan(plan') /\ Paged(plan')
  BY <1>2, <1>8, LayoutEstimationAssumption
     DEF Builder!with_rebalance_skew, Builder!copy, IsPlan, Paged
<1>9. ASSUME NEW x \in BOOLEAN, Builder!with_auto_rebalance(x)
      PROVE  IsPlan(plan') /\ Paged(plan')
  BY <1>2, <1>9 DEF Builder!with_auto_rebalance, Builder!copy, IsPlan, Paged
<1> QED
  BY <1>3, <1>4, <1>5, <1>6, <1>7, <1>8, <1>9 DEF Builder!Build

-----------------------------------------------------------------------------
(* What is known of every reachable state                                  *)

\* The layout of a group without elements.
NoSplits == [splits |-> << >>, expected |-> <<0>>]

\* The sample, the positions and the layouts are those of the collection.
Current ==
    /\ sorted = samples(vals)
    /\ positions = chosen(vals, sorted)
    /\ layouts = estimate_all(k, vals, plan)

EInv ==
    /\ k \in Name /\ IsPlan(plan) /\ Paged(plan)
    /\ vals \in Seq(Value) /\ Len(vals) <= MaxItems
    /\ vals = << >> => /\ sorted = [g \in Groups |-> << >>]
                       /\ positions = [g \in Groups |-> << >>]
                       /\ layouts = [g \in Groups |-> NoSplits]
    /\ vals # << >> => plan \in Plan /\ Current

\* A group without elements gets one empty bucket, whatever the plan is.
LEMMA EstimateOfNone ==
    ASSUME NEW name, NEW ks, NEW p, NEW g
    PROVE  estimate(name, << >>, ks, p, g) = NoSplits
<1> DEFINE s == [i \in 1 .. Len(<< >>) |-> i]
           T == {i \in DOMAIN << >> : group(name, << >>[i]) = g}
           o == members(name, << >>, g)
           n == Len(o)
<1>1. s \in Seq(Nat) /\ Len(s) = 0 /\ o = only(s, T)
  BY DEF members
<1> HIDE DEF s, T, o
<1>2. n = 0
  <2>1. only(s, T) \in Seq(Nat) /\ \E at : KeptPlaces(at, only(s, T), s, Len(s), T)
    BY <1>1, OnlyPlaces
  <2>2. PICK at : at \in [1 .. n -> 1 .. 0]
    BY <1>1, <2>1 DEF KeptPlaces
  <2>3. n \in Nat
    BY <1>1, <2>1
  <2> HIDE DEF n
  <2> QED
    BY <2>2, <2>3
<1>3. target_sizes(p, 0) = <<0>> /\ Len(<<0>>) <= 1
  BY DEF target_sizes
<1>4. \A ss : estimate_for(name, << >>, ks, ss, <<0>>, 0) = NoSplits
  BY <1>3 DEF estimate_for, NoSplits
<1> QED
  BY <1>2, <1>3, <1>4 DEF estimate, o

\* Before there are elements, every plan lays out the same.
LEMMA NoneLaidOut ==
    ASSUME NEW name, NEW p
    PROVE  estimate_all(name, << >>, p) = [g \in 1 .. GroupCount[name] |-> NoSplits]
  BY EstimateOfNone DEF estimate_all, estimate_layouts

LEMMA EstimationInitially ==
    ASSUME Init
    PROVE  EInv
<1>1. k \in Name /\ vals = << >> /\ Builder!Init
  BY DEF Init, Empty
<1>2. IsPlan(plan) /\ Paged(plan)
  BY <1>1, FactoriesMakePlans
<1>3. layouts = [g \in Groups |-> NoSplits]
  BY <1>1, NoneLaidOut DEF Init, Groups
<1>4. vals \in Seq(Value) /\ Len(vals) <= MaxItems
  BY <1>1, SplitPositionsAssumption
<1> QED
  BY <1>1, <1>2, <1>3, <1>4 DEF Init, Empty, EInv

LEMMA EstimationStep ==
    ASSUME EInv, [Build \/ Grow]_vars
    PROVE  EInv'
<1>1. CASE Build
  <2>1. vals = << >> /\ Builder!Build /\ UNCHANGED <<k, vals, sorted, positions, layouts>>
    BY <1>1 DEF Build
  <2>2. IsPlan(plan') /\ Paged(plan')
    BY <2>1, CopiesArePlans DEF EInv
  <2>3. Groups' = Groups
    BY <2>1 DEF Groups
  <2> QED
    BY <2>1, <2>2, <2>3 DEF EInv
<1>2. CASE Grow
  <2>1. /\ plan \in Plan /\ Len(vals) < MaxItems
        /\ sorted' = samples(vals') /\ positions' = chosen(vals', sorted')
        /\ layouts' = estimate_all(k, vals', plan)
        /\ k' = k /\ plan' = plan
    BY <1>2 DEF Grow, SplitGrow
  <2>2. PICK v \in Value : vals' = Append(vals, v)
    BY <1>2 DEF Grow, SplitGrow
  <2>3. vals' \in Seq(Value) /\ Len(vals') <= MaxItems /\ vals' # << >>
    BY <2>1, <2>2, SplitPositionsAssumption DEF EInv
  <2>4. Current'
    <3>1. samples(vals)' = samples(vals')
      BY <2>1 DEF samples, keys, Groups
    <3>2. chosen(vals, sorted)' = chosen(vals', sorted')
      BY <2>1 DEF chosen, keys, Groups
    <3>3. estimate_all(k, vals, plan)' = estimate_all(k, vals', plan)
      BY <2>1 DEF estimate_all, keys
    <3> QED
      BY <2>1, <3>1, <3>2, <3>3 DEF Current
  <2>5. IsPlan(plan') /\ Paged(plan')
    BY <2>1 DEF EInv
  <2> QED
    BY <2>1, <2>3, <2>4, <2>5 DEF EInv
<1>3. CASE UNCHANGED vars
  <2>1. UNCHANGED <<k, plan, vals, sorted, positions, layouts>>
    BY <1>3 DEF vars
  <2>2. Groups' = Groups /\ samples(vals)' = samples(vals) /\ chosen(vals, sorted)' = chosen(vals, sorted)
    BY <2>1 DEF Groups, samples, chosen, keys
  <2>3. estimate_all(k, vals, plan)' = estimate_all(k, vals, plan)
    BY <2>1 DEF estimate_all, keys
  <2> QED
    BY <2>1, <2>2, <2>3 DEF EInv, Current
<1> QED
  BY <1>1, <1>2, <1>3

LEMMA EstimationInvariance == Spec => []EInv
  BY EstimationInitially, EstimationStep, PTL DEF Spec
-----------------------------------------------------------------------------
(* What bucket a value is put into                                         *)

\* The collection, with its normalized keys, is what estimate expects.
LEMMA ValuesKeyed ==
    ASSUME EInv
    PROVE  Keyed(k, vals, keys(vals))
  BY DEF EInv, Keyed, keys

\* In every reachable state the layouts are those of the collection, an empty
\* one included.
LEMMA LayoutsCurrent ==
    ASSUME EInv, NEW g \in Groups
    PROVE  layouts[g] = estimate(k, vals, keys(vals), per_group(k, plan), g)
<1>1. CASE vals = << >>
  <2>1. layouts[g] = NoSplits
    BY <1>1 DEF EInv
  <2> QED
    BY <1>1, <2>1, EstimateOfNone
<1>2. CASE vals # << >>
  <2>1. layouts = estimate_all(k, vals, plan)
    BY <1>2 DEF EInv, Current
  <2> QED
    BY <2>1 DEF estimate_all, estimate_layouts, Groups
<1> QED
  BY <1>1, <1>2

\* The plan of every group is one, and draws what it samples.
LEMMA GroupPlans ==
    ASSUME EInv, NEW g \in Groups
    PROVE  /\ IsPlan(per_group(k, plan))
           /\ vals # << >> => Draws(per_group(k, plan), Len(members(k, vals, g)))
<1>1. k \in Name /\ IsPlan(plan)
  BY DEF EInv
<1>2. IsPlan(per_group(k, plan))
  BY <1>1, GroupPlan
<1>3. ASSUME vals # << >>
      PROVE  Draws(per_group(k, plan), Len(members(k, vals, g)))
  <2>1. MaxItems \in Nat /\ Draws(plan, MaxItems)
    BY <1>3, SplitPositionsAssumption DEF EInv
  <2>2. Len(vals) \in Nat /\ Len(vals) <= MaxItems
    BY DEF EInv
  <2> QED
    BY <1>1, <2>1, <2>2, GroupDraws
<1> QED
  BY <1>2, <1>3

\* The points of a group are its split points with the values of their elements.
LEMMA PointsResolved ==
    ASSUME EInv, NEW g \in Groups
    PROVE  Resolves(points(g), layouts[g].splits, vals)
<1> DEFINE made == estimate(k, vals, keys(vals), per_group(k, plan), g)
           splits == layouts[g].splits
<1>1. layouts[g] = made
  BY LayoutsCurrent
<1>2. IsPlan(per_group(k, plan)) /\ Len(vals) \in Nat
  BY GroupPlans DEF EInv
<1>3. LayoutShape(made)
  BY <1>2, EstimateShape
<1> HIDE DEF made
<1>4. IsSequence(splits)
  BY <1>1, <1>3 DEF LayoutShape
<1>5. points(g) = [i \in DOMAIN splits |->
          [key |-> splits[i].key,
           elem |-> IF splits[i].pos = no_element THEN NoValue ELSE vals[splits[i].pos]]]
  BY DEF points
<1> HIDE DEF splits
<1>6. IsSequence(points(g)) /\ Len(points(g)) = Len(splits) /\ DOMAIN points(g) = DOMAIN splits
  BY <1>4, <1>5 DEF IsSequence
<1>7. ASSUME NEW i \in 1 .. Len(points(g))
      PROVE  /\ points(g)[i].key = splits[i].key
             /\ splits[i].pos = no_element => points(g)[i].elem = NoValue
             /\ splits[i].pos \in 1 .. Len(vals) => points(g)[i].elem = vals[splits[i].pos]
  <2>1. i \in DOMAIN splits
    BY <1>6 DEF IsSequence
  <2> QED
    BY <1>2, <1>5, <2>1 DEF no_element
<1>8. Resolves(points(g), splits, vals)
  BY <1>6, <1>7 DEF Resolves
<1> QED
  BY <1>8 DEF splits

\* The split points of a group, resolved, divide its values in the exact order.
LEMMA PointsInOrder ==
    ASSUME EInv, k \in Ordering, NEW g \in Groups
    PROVE  SplitsOrdered(k, g, points(g))
<1> DEFINE q == per_group(k, plan)
           made == estimate(k, vals, keys(vals), q, g)
<1>1. layouts[g] = made
  BY LayoutsCurrent
<1>2. Resolves(points(g), made.splits, vals)
  BY <1>1, PointsResolved
<1>3. CASE vals = << >>
  <2>1. made.splits = << >>
    BY <1>3, EstimateOfNone DEF NoSplits
  <2> HIDE DEF made
  <2>2. IsSequence(points(g)) /\ Len(points(g)) = 0
    BY <1>2, <2>1 DEF Resolves
  <2> QED
    BY <2>2 DEF SplitsOrdered
<1>4. CASE vals # << >>
  <2>1. IsPlan(q) /\ Draws(q, Len(members(k, vals, g)))
    BY <1>4, GroupPlans
  <2>2. Keyed(k, vals, keys(vals))
    BY ValuesKeyed
  <2> QED
    BY <1>2, <2>1, <2>2, EstimateOrdered
<1> QED
  BY <1>3, <1>4

\* BucketLayout: when the sort keys order the values, bucket ids follow the exact
\* ascending order and values that compare equal share a bucket, for every value
\* there can be, whatever the plan, the sample and the collection.
THEOREM LayoutsFollowOrder ==
    ASSUME Name \subseteq Ordering
    PROVE  Spec => []BucketsFollowOrder
<1>1. ASSUME EInv
      PROVE  BucketsFollowOrder
  <2> SUFFICES ASSUME NEW g \in Groups,
                      NEW v \in Value, group(k, v) = g, NEW w \in Value, group(k, w) = g
               PROVE  /\ compare(k, v, w) < 0 => placed(g)[v] <= placed(g)[w]
                      /\ compare(k, v, w) = 0 => placed(g)[v] = placed(g)[w]
    BY DEF BucketsFollowOrder
  <2>1. k \in Ordering /\ k \in Name
    BY <1>1 DEF EInv
  <2>2. SplitsOrdered(k, g, points(g))
    BY <1>1, <2>1, PointsInOrder
  <2>3. v \in Members(k, g) /\ w \in Members(k, g)
    BY DEF Members
  <2> DEFINE b(x) == bucket_of(k, points(g), x, key(k, x))
  <2>4. placed(g)[v] = b(v) /\ placed(g)[w] = b(w)
    BY DEF placed
  <2>5. b(v) \in Nat /\ b(w) \in Nat
    <3>1. IsSequence(points(g))
      BY <2>2 DEF SplitsOrdered
    <3>2. Len(points(g)) \in Nat
      BY <3>1 DEF IsSequence
    <3>3. b(v) \in 1 .. Len(points(g)) + 1 /\ b(w) \in 1 .. Len(points(g)) + 1
      BY <3>1, BucketInLayout
    <3> HIDE DEF b
    <3> QED
      BY <3>2, <3>3
  <2>6. compare(k, v, w) <= 0 => b(v) <= b(w)
    BY <2>2, <2>3, BucketFollows
  <2>7. compare(k, w, v) <= 0 => b(w) <= b(v)
    BY <2>2, <2>3, BucketFollows
  <2>8. compare(k, v, w) = 0 - compare(k, w, v) /\ compare(k, v, w) \in {-1, 0, 1}
        /\ compare(k, w, v) \in {-1, 0, 1}
    BY <2>1, <2>3, GroupOrder
  <2> HIDE DEF b
  <2> QED
    BY <2>4, <2>5, <2>6, <2>7, <2>8
<1>2. EInv => BucketsFollowOrder
  BY <1>1
<1> QED
  BY EstimationInvariance, <1>2, PTL
-----------------------------------------------------------------------------
(* Where the sample is split                                               *)

\* The sample of a group, and where it is split.
LEMMA SampleAndPositions ==
    ASSUME EInv, vals # << >>, NEW g \in Groups
    PROVE  /\ sorted[g] = sorted_sample(k, vals, keys(vals), plan, g)
           /\ positions[g] =
                  LET n == Len(members(k, vals, g))
                      t == target_sizes(per_group(k, plan), n)
                  IN  IF Len(t) <= 1 THEN << >>
                      ELSE split_positions(k, vals, keys(vals), sorted[g], t, n)
<1>1. sorted = samples(vals) /\ positions = chosen(vals, sorted)
  BY DEF EInv, Current
<1>2. sorted[g] = sorted_sample(k, vals, keys(vals), plan, g)
  BY <1>1 DEF samples
<1> QED
  BY <1>1, <1>2 DEF chosen

\* The plan draws what it samples of a group.
LEMMA PlanDraws ==
    ASSUME EInv, vals # << >>, NEW g \in Groups
    PROVE  Draws(plan, Len(members(k, vals, g)))
<1> DEFINE n == Len(members(k, vals, g))
<1>1. IsPlan(plan) /\ MaxItems \in Nat /\ Draws(plan, MaxItems)
  BY SplitPositionsAssumption DEF EInv
<1>2. plan.sample_size \in Nat
  BY <1>1 DEF IsPlan
<1>3. Len(vals) \in Nat /\ Len(vals) <= MaxItems
  BY DEF EInv
<1>4. n \in Nat /\ n <= Len(vals)
  BY <1>3, FewMembers
<1> HIDE DEF n
<1>5. plan.sample_size < n => plan.sample_size < MaxItems
  BY <1>1, <1>2, <1>3, <1>4
<1>6. Draws(plan, n)
  BY <1>1, <1>5 DEF Draws
<1> QED
  BY <1>6 DEF n

\* choose_split_positions: when the sort keys order the values, the positions the
\* sample of a group is split at strictly increase and lie inside the sample, so
\* that estimate may read the sampled elements on both sides of every one of them.
THEOREM PositionsStayInside ==
    ASSUME Name \subseteq Ordering
    PROVE  Spec => []PositionsInsideSample
<1>1. ASSUME EInv, NEW g \in Groups
      PROVE  Increasing(positions[g], Len(sorted[g]) - 1)
  <2>1. CASE vals = << >>
    <3>1. positions[g] = << >>
      BY <1>1, <2>1 DEF EInv
    <3> QED
      BY <3>1 DEF Increasing
  <2>2. CASE vals # << >>
    <3> DEFINE n == Len(members(k, vals, g))
               t == target_sizes(per_group(k, plan), n)
    <3>1. /\ sorted[g] = sorted_sample(k, vals, keys(vals), plan, g)
          /\ positions[g] = IF Len(t) <= 1 THEN << >>
                            ELSE split_positions(k, vals, keys(vals), sorted[g], t, n)
      BY <1>1, <2>2, SampleAndPositions
    <3>2. CASE Len(t) <= 1
      <4>1. positions[g] = << >>
        BY <3>1, <3>2
      <4> QED
        BY <4>1 DEF Increasing
    <3>3. CASE ~ (Len(t) <= 1)
      <4>1. k \in Ordering /\ IsPlan(plan)
        BY <1>1 DEF EInv
      <4>2. Draws(plan, n) /\ Keyed(k, vals, keys(vals)) /\ IsPlan(per_group(k, plan))
        BY <1>1, <2>2, PlanDraws, ValuesKeyed, GroupPlans
      <4>3. SplitsInside(k, vals, keys(vals), sorted_sample(k, vals, keys(vals), plan, g), t, n)
        BY <3>3, <4>1, <4>2, SampleSplitsInside
      <4> HIDE DEF t, n
      <4>4. SplitsInside(k, vals, keys(vals), sorted[g], t, n)
        BY <3>1, <4>3
      <4> QED
        BY <3>1, <3>3, <4>4 DEF SplitsInside
    <3> QED
      BY <3>2, <3>3
  <2> QED
    BY <2>1, <2>2
<1>2. ASSUME EInv
      PROVE  PositionsInsideSample
  <2> SUFFICES ASSUME NEW g \in Groups
               PROVE  /\ \A i \in DOMAIN positions[g] : positions[g][i] \in 1 .. Len(sorted[g]) - 1
                      /\ \A i \in 2 .. Len(positions[g]) : positions[g][i - 1] < positions[g][i]
    BY DEF PositionsInsideSample
  <2> DEFINE c == positions[g]
             m == Len(sorted[g]) - 1
  <2>1. Increasing(c, m)
    BY <1>1, <1>2
  <2> HIDE DEF c, m
  <2>2. /\ \A i \in DOMAIN c : c[i] \in 1 .. m
        /\ \A i \in 2 .. Len(c) : c[i - 1] < c[i]
    <3>1. c \in Seq(1 .. m) /\ \A i, j \in 1 .. Len(c) : i < j => c[i] < c[j]
      BY <2>1 DEF Increasing
    <3>2. Len(c) \in Nat /\ \A i \in DOMAIN c : c[i] \in 1 .. m
      <4> DEFINE P == 1 .. m
      <4>1. c \in Seq(P)
        BY <3>1
      <4> HIDE DEF P
      <4>2. Len(c) \in Nat /\ \A i \in DOMAIN c : c[i] \in P
        BY <4>1
      <4> QED
        BY <4>2 DEF P
    <3>3. \A i \in 2 .. Len(c) : i - 1 \in 1 .. Len(c) /\ i \in 1 .. Len(c) /\ i - 1 < i
      BY <3>2
    <3> QED
      BY <3>1, <3>2, <3>3
  <2> QED
    BY <2>2 DEF c, m
<1>3. EInv => PositionsInsideSample
  BY <1>2
<1> QED
  BY EstimationInvariance, <1>3, PTL
-----------------------------------------------------------------------------
(* Splits and runs of equal elements                                       *)

\* B are the places of a sample of s between different runs; from and to give the
\* places before and behind the run of the element at q, which is q + 1 in the
\* sample.
RunBounds(from, to, B, s) ==
    /\ B \subseteq 1 .. s - 1
    /\ \A q \in 0 .. s - 1 :
          /\ from[q] \in {0} \cup B /\ from[q] <= q
          /\ to[q] \in {s} \cup B /\ q < to[q]
          /\ \A b \in B : b <= from[q] \/ b >= to[q]

\* When the run q is in begins or ends inside the sample, one of the two places is
\* among those of c.
Split(q, c, from, to, B) ==
    {from[q], to[q]} \cap B # {} => {from[q], to[q]} \cap ToSet(c) # {}

\* The run of a later element does not end before that of an earlier one.
LEMMA LaterRuns ==
    ASSUME NEW s \in Nat \ {0}, NEW B, NEW from, NEW to, RunBounds(from, to, B, s),
           NEW p \in 0 .. s - 1, NEW q \in 0 .. s - 1, p <= q
    PROVE  to[p] <= to[q]
<1> DEFINE x == to[p]
           y == to[q]
           z == from[p]
<1>1. /\ x \in {s} \cup B /\ p < x /\ y \in {s} \cup B /\ q < y
      /\ z \in {0} \cup B /\ z <= p
      /\ \A b \in B : b <= z \/ b >= x
  BY DEF RunBounds
<1>2. B \subseteq 1 .. s - 1
  BY DEF RunBounds
<1> HIDE DEF x, y, z
<1>3. x \in Int /\ y \in Int /\ z \in Int /\ x <= s
  BY <1>1, <1>2
<1>4. ~ (y < x)
  <2> SUFFICES ASSUME y < x
               PROVE  FALSE
    OBVIOUS
  <2>1. y \in B
    BY <1>1, <1>3
  <2>2. y <= z
    BY <1>1, <1>3, <2>1
  <2> QED
    BY <1>1, <1>3, <2>2
<1>5. x <= y
  BY <1>3, <1>4
<1> QED
  BY <1>5 DEF x, y

\* What is chosen for q splits its run from another one, unless that is done.
LEMMA ChoiceSplits ==
    ASSUME NEW s \in Nat \ {0}, NEW B, NEW from, NEW to, RunBounds(from, to, B, s),
           NEW q \in 0 .. s - 1, NEW p \in {0} \cup B, p <= to[q]
    PROVE  /\ Choice(p, q, s, from, to) # 0 =>
                 Choice(p, q, s, from, to) \in B \cap {from[q], to[q]}
           /\ Choice(p, q, s, from, to) = 0 =>
                 ({from[q], to[q]} \cap B # {} => p # 0 /\ p \in {from[q], to[q]})
<1> DEFINE x == from[q]
           y == to[q]
           lo == IF x > p THEN x ELSE 0
           c == Choice(p, q, s, from, to)
<1>1. /\ x \in {0} \cup B /\ x <= q /\ y \in {s} \cup B /\ q < y
      /\ \A b \in B : b <= x \/ b >= y
      /\ B \subseteq 1 .. s - 1 /\ p <= y
  BY DEF RunBounds
<1>2. c = IF y < s /\ y > p /\ (lo = 0 \/ wrapped_less(y - q, q - lo)) THEN y ELSE lo
  BY DEF Choice
<1> HIDE DEF c, x, y
<1>3. x \in Nat /\ y \in Nat /\ p \in Nat /\ p <= s - 1 /\ y <= s /\ p <= y /\ x <= s - 1
  <2>1. \A b \in B : b \in Nat /\ b <= s - 1
    BY <1>1
  <2>2. x \in Nat /\ x <= s - 1 /\ p \in Nat /\ p <= s - 1
    BY <1>1, <2>1
  <2>3. y \in Nat /\ y <= s
    BY <1>1, <2>1
  <2> QED
    BY <1>1, <2>2, <2>3
<1>4. ASSUME c # 0
      PROVE  c \in B \cap {x, y}
  BY <1>1, <1>2, <1>3, <1>4
<1>5. ASSUME c = 0, {x, y} \cap B # {}
      PROVE  p # 0 /\ p \in {x, y}
  <2>1. x <= p /\ ~ (y < s /\ y > p)
    BY <1>1, <1>2, <1>3, <1>5
  <2>2. CASE y = s
    <3>1. x \in B /\ x >= 1
      BY <1>1, <1>5, <2>2
    <3>2. p \in B
      BY <1>3, <2>1, <3>1
    <3>3. p <= x
      BY <1>1, <1>3, <2>2, <3>2
    <3> QED
      BY <1>3, <2>1, <3>1, <3>3
  <2>3. CASE y # s
    <3>1. y = p
      BY <1>3, <2>1, <2>3
    <3> QED
      BY <1>1, <1>3, <3>1
  <2> QED
    BY <2>2, <2>3
<1> QED
  BY <1>4, <1>5 DEF c, x, y

\* choose_split_positions chooses places between different runs only, and next to
\* the run of every desired position, if there is one.
LEMMA ChosenBetweenRuns ==
    ASSUME NEW s \in Nat \ {0}, NEW B, NEW from, NEW to, RunBounds(from, to, B, s),
           NEW desired, IsSequence(desired),
           \A j \in 1 .. Len(desired) : desired[j] \in 0 .. s - 1,
           \A i, j \in 1 .. Len(desired) : i < j => desired[i] <= desired[j]
    PROVE  /\ ToSet(choose_split_positions(desired, s, from, to)) \subseteq B
           /\ \A j \in 1 .. Len(desired) :
                 Split(desired[j], choose_split_positions(desired, s, from, to), from, to, B)
<1> DEFINE m == Len(desired)
           q(j) == desired[j]
<1>1. m \in Nat
  BY DEF IsSequence
<1>2. PICK f : /\ ChosenRounds(f, desired, s, from, to)
               /\ choose_split_positions(desired, s, from, to) = f[m]
  BY ChoosingRounds
<1> DEFINE Done(j, out) ==
               /\ out \in Seq(B)
               /\ out # << >> => j # 0 /\ Last(out) <= to[q(j)]
               /\ \A i \in 1 .. j : Split(q(i), out, from, to, B)
           S == {j \in 0 .. m : Done(j, f[j])}
<1>3. 0 \in S
  <2>1. f[0] = << >>
    BY <1>2 DEF ChosenRounds
  <2>2. << >> \in Seq(B) /\ 1 .. 0 = {}
    OBVIOUS
  <2>3. Done(0, f[0])
    BY <2>1, <2>2
  <2> QED
    BY <1>1, <2>3
<1>4. ASSUME NEW j \in 1 .. m, j - 1 \in S
      PROVE  j \in S
  <2> DEFINE out == f[j - 1]
             p == Prior(out)
             c == Choice(p, q(j), s, from, to)
             r == Append(out, c)
  <2>1. f[j] = IF c # 0 THEN r ELSE out
    BY <1>2 DEF ChosenRounds, Chosen
  <2>2. Done(j - 1, out)
    BY <1>4
  <2>3. q(j) \in 0 .. s - 1
    OBVIOUS
  <2> HIDE DEF q
  <2>4. B \subseteq 1 .. s - 1 /\ to[q(j)] \in Nat /\ from[q(j)] <= to[q(j)]
    <3> DEFINE x == from[q(j)]
               y == to[q(j)]
    <3>1. /\ B \subseteq 1 .. s - 1
          /\ x \in {0} \cup B /\ x <= q(j) /\ y \in {s} \cup B /\ q(j) < y
      BY <2>3 DEF RunBounds
    <3> HIDE DEF x, y
    <3>2. x \in Nat /\ y \in Nat /\ q(j) \in Nat
      BY <2>3, <3>1
    <3> QED
      BY <3>1, <3>2 DEF x, y
  <2>5. p \in {0} \cup B /\ p <= to[q(j)] /\ (p # 0 => p \in ToSet(out))
    <3>1. CASE out = << >>
      BY <2>4, <3>1 DEF Prior
    <3>2. CASE out # << >>
      <4>1. out \in Seq(B) /\ j - 1 # 0 /\ Last(out) <= to[q(j - 1)]
        BY <2>2, <3>2
      <4> HIDE DEF out
      <4>2. p = Last(out) /\ Last(out) = out[Len(out)] /\ Len(out) \in DOMAIN out
        BY <3>2, <4>1 DEF Prior, Last
      <4>3. p \in B /\ p \in ToSet(out)
        BY <4>1, <4>2 DEF ToSet
      <4>4. j - 1 \in 1 .. m /\ j - 1 < j
        BY <1>1, <4>1
      <4>5. q(j - 1) \in 0 .. s - 1 /\ q(j - 1) <= q(j)
        BY <4>4 DEF q
      <4>6. to[q(j - 1)] <= to[q(j)]
        BY <2>3, <4>5, LaterRuns
      <4>7. to[q(j - 1)] \in {s} \cup B
        BY <4>5 DEF RunBounds
      <4> HIDE DEF p
      <4> DEFINE y == to[q(j - 1)]
                 z == to[q(j)]
      <4>8. p \in Int /\ y \in Int /\ z \in Int /\ p <= y /\ y <= z
        <5>1. p <= y /\ y <= z
          BY <4>1, <4>2, <4>6
        <5>2. z \in Int
          BY <2>4
        <5> HIDE DEF y, z
        <5>3. y \in {s} \cup B
          BY <4>7 DEF y
        <5>4. \A b \in B : b \in Int
          BY <2>4
        <5> QED
          BY <4>3, <5>1, <5>2, <5>3, <5>4
      <4> HIDE DEF y, z
      <4>9. p <= z
        BY <4>8
      <4> QED
        BY <4>3, <4>9 DEF z
    <3> QED
      BY <3>1, <3>2
  <2> HIDE DEF p
  <2>6. /\ c # 0 => c \in B \cap {from[q(j)], to[q(j)]}
        /\ c = 0 => ({from[q(j)], to[q(j)]} \cap B # {} => p # 0 /\ p \in {from[q(j)], to[q(j)]})
    BY <2>3, <2>5, ChoiceSplits
  <2> HIDE DEF c
  <2>7. CASE c # 0
    <3>1. c \in B /\ c \in {from[q(j)], to[q(j)]} /\ c <= to[q(j)]
      BY <2>4, <2>6, <2>7
    <3>2. out \in Seq(B)
      BY <2>2
    <3> HIDE DEF out
    <3>3. r \in Seq(B) /\ r # << >> /\ Last(r) = c /\ ToSet(out) \subseteq ToSet(r) /\ c \in ToSet(r)
      <4>1. r \in Seq(B) /\ Len(r) = Len(out) + 1 /\ r[Len(out) + 1] = c
            /\ \A i \in 1 .. Len(out) : r[i] = out[i]
        BY <3>1, <3>2
      <4>2. Len(out) \in Nat /\ DOMAIN out = 1 .. Len(out)
        BY <3>2
      <4> HIDE DEF r
      <4>3. DOMAIN r = 1 .. Len(out) + 1
        BY <4>1, <4>2
      <4> QED
        BY <4>1, <4>2, <4>3 DEF Last, ToSet
    <3> HIDE DEF r
    <3>4. ASSUME NEW i \in 1 .. j
          PROVE  Split(q(i), r, from, to, B)
      <4>1. CASE i = j
        <5>1. c \in {from[q(i)], to[q(i)]} \cap ToSet(r)
          BY <3>1, <3>3, <4>1
        <5> QED
          BY <5>1 DEF Split
      <4>2. CASE i # j
        <5>1. i \in 1 .. j - 1
          BY <1>1, <4>2
        <5>2. Split(q(i), out, from, to, B)
          BY <2>2, <5>1
        <5> QED
          BY <3>3, <5>2 DEF Split
      <4> QED
        BY <4>1, <4>2
    <3>5. Done(j, r)
      BY <1>1, <3>1, <3>3, <3>4
    <3> QED
      BY <1>1, <2>1, <2>7, <3>5
  <2>8. CASE c = 0
    <3>1. Split(q(j), out, from, to, B)
      BY <2>5, <2>6, <2>8 DEF Split
    <3>2. out # << >> => Last(out) <= to[q(j)]
      BY <2>5 DEF Prior, p
    <3> HIDE DEF out
    <3>3. ASSUME NEW i \in 1 .. j
          PROVE  Split(q(i), out, from, to, B)
      <4>1. CASE i = j
        BY <3>1, <4>1
      <4>2. CASE i # j
        <5>1. i \in 1 .. j - 1
          BY <1>1, <4>2
        <5> QED
          BY <2>2, <5>1
      <4> QED
        BY <4>1, <4>2
    <3>4. Done(j, out)
      BY <1>1, <2>2, <3>2, <3>3
    <3> QED
      BY <1>1, <2>1, <2>8, <3>4
  <2> QED
    BY <2>7, <2>8
<1>5. Done(m, f[m])
  <2> HIDE DEF S
  <2>1. 0 .. m \subseteq S
    BY <1>1, <1>3, <1>4, SetInduction
  <2>2. m \in S
    BY <1>1, <2>1
  <2> QED
    BY <2>2 DEF S
<1>6. ToSet(f[m]) \subseteq B
  <2>1. f[m] \in Seq(B)
    BY <1>5
  <2> QED
    BY <2>1 DEF ToSet
<1> QED
  BY <1>2, <1>5, <1>6

\* The starts and the ends of the runs of a sorted sample t, and the places
\* between them.
Starts(t, less) == [q \in 0 .. Len(t) - 1 |-> lower_bound(t, t[q + 1], less)]

Ends(t, less) == [q \in 0 .. Len(t) - 1 |-> upper_bound(t, t[q + 1], less)]

Between(t, less) == {b \in 1 .. Len(t) - 1 : <<t[b], t[b + 1]>> \in less}

\* The binary searches find the start and the end of a run.
LEMMA RunFound ==
    ASSUME NEW less, NEW U, Weak(less, U), NEW t \in Seq(U), NotInverted(t, less),
           NEW q \in 0 .. Len(t) - 1
    PROVE  /\ Starts(t, less)[q] \in 0 .. q /\ Ends(t, less)[q] \in q + 1 .. Len(t)
           /\ \A i \in 1 .. Len(t) : <<t[i], t[q + 1]>> \notin less <=> i > Starts(t, less)[q]
           /\ \A i \in 1 .. Len(t) : <<t[q + 1], t[i]>> \in less <=> i > Ends(t, less)[q]
<1> DEFINE n == Len(t)
           r == q + 1
           x == t[r]
           lower == {i \in DOMAIN t : <<t[i], x>> \notin less}
           upper == {i \in DOMAIN t : <<x, t[i]>> \in less}
           from == first_above(n, lower)
           to == first_above(n, upper)
<1>1. n \in Nat /\ DOMAIN t = 1 .. n /\ r \in 1 .. n /\ r = q + 1 /\ \A i \in 1 .. n : t[i] \in U
  OBVIOUS
<1>2. Starts(t, less)[q] = from /\ Ends(t, less)[q] = to
  BY DEF Starts, Ends, lower_bound, upper_bound
<1> HIDE DEF n, r
<1>3. x \in U /\ r \in lower /\ r \notin upper
  BY <1>1 DEF Weak
<1>4. /\ \A i, j, l \in U : <<i, j>> \notin less /\ <<j, l>> \notin less => <<i, l>> \notin less
      /\ \A i, j \in 1 .. n : i < j => <<t[j], t[i]>> \notin less
  BY DEF Weak, NotInverted, n
<1> HIDE DEF x
<1>5. ASSUME NEW i \in 1 .. n, NEW j \in 1 .. n, i <= j
      PROVE  /\ i \in lower => j \in lower
             /\ i \in upper => j \in upper
  <2>1. CASE i = j
    BY <2>1
  <2>2. CASE i < j
    <3>1. <<t[j], t[i]>> \notin less /\ t[i] \in U /\ t[j] \in U
      BY <1>1, <1>4, <2>2
    <3>2. <<t[i], x>> \notin less => <<t[j], x>> \notin less
      BY <1>3, <1>4, <3>1
    <3>3. <<x, t[j]>> \notin less => <<x, t[i]>> \notin less
      BY <1>3, <1>4, <3>1
    <3> QED
      BY <1>1, <3>2, <3>3
  <2>3. i \in Nat /\ j \in Nat
    BY <1>1
  <2> QED
    BY <1>5, <2>1, <2>2, <2>3
<1>6. \A i \in 1 .. n : (i \in lower <=> <<t[i], x>> \notin less) /\ (i \in upper <=> <<x, t[i]>> \in less)
  BY <1>1
<1> HIDE DEF lower, upper
<1>7. from \in 0 .. n /\ \A i \in 1 .. n : i \in lower <=> i > from
  BY <1>1, <1>5, AboveBoundary, AboveRange
<1>8. to \in 0 .. n /\ \A i \in 1 .. n : i \in upper <=> i > to
  BY <1>1, <1>5, AboveBoundary, AboveRange
<1> HIDE DEF from, to
<1>9. from \in 0 .. q /\ to \in r .. n
  <2>1. r > from /\ ~ (r > to)
    BY <1>1, <1>3, <1>7, <1>8
  <2>2. q \in Nat /\ r = q + 1
    BY <1>1 DEF n
  <2> QED
    BY <1>1, <1>7, <1>8, <2>1, <2>2
<1> QED
  BY <1>2, <1>6, <1>7, <1>8, <1>9 DEF n, r, x

\* They are the places next to the run that lie between different runs.
LEMMA RunsBounded ==
    ASSUME NEW less, NEW U, Weak(less, U), NEW t \in Seq(U), NotInverted(t, less)
    PROVE  RunBounds(Starts(t, less), Ends(t, less), Between(t, less), Len(t))
<1> DEFINE n == Len(t)
           B == Between(t, less)
           from == Starts(t, less)
           to == Ends(t, less)
<1>1. n \in Nat /\ \A i \in 1 .. n : t[i] \in U
  OBVIOUS
<1>2. \A b : b \in B <=> b \in 1 .. n - 1 /\ <<t[b], t[b + 1]>> \in less
  BY DEF Between
<1>3. /\ \A i, j, l \in U : <<i, j>> \notin less /\ <<j, l>> \notin less => <<i, l>> \notin less
      /\ \A i, j \in U : ~ (<<i, j>> \in less /\ <<j, i>> \in less)
  BY DEF Weak
<1>4. ASSUME NEW q \in 0 .. n - 1
      PROVE  /\ from[q] \in 0 .. q /\ to[q] \in q + 1 .. n
             /\ \A i \in 1 .. n : <<t[i], t[q + 1]>> \notin less <=> i > from[q]
             /\ \A i \in 1 .. n : <<t[q + 1], t[i]>> \in less <=> i > to[q]
  BY RunFound
<1> HIDE DEF n, B, from, to
<1>5. ASSUME NEW q \in 0 .. n - 1
      PROVE  /\ from[q] \in {0} \cup B /\ from[q] <= q
             /\ to[q] \in {n} \cup B /\ q < to[q]
             /\ \A b \in B : b <= from[q] \/ b >= to[q]
  <2> DEFINE f == from[q]
             h == to[q]
             x == t[q + 1]
  <2>1. /\ f \in 0 .. q /\ h \in q + 1 .. n /\ q \in Nat /\ q < n
        /\ \A i \in 1 .. n : <<t[i], x>> \notin less <=> i > f
        /\ \A i \in 1 .. n : <<x, t[i]>> \in less <=> i > h
    BY <1>1, <1>4
  <2>2. x \in U
    BY <1>1
  <2> HIDE DEF f, h, x
  <2>3. f <= q /\ q < h
    BY <2>1
  <2>4. ASSUME f # 0
        PROVE  f \in B
    <3>1. f \in 1 .. n - 1 /\ f \in 1 .. n /\ f + 1 \in 1 .. n /\ ~ (f > f) /\ f + 1 > f
      BY <1>1, <2>1, <2>4
    <3>2. <<t[f], x>> \in less /\ <<t[f + 1], x>> \notin less
      BY <2>1, <3>1
    <3>3. <<t[f], t[f + 1]>> \in less
      BY <1>1, <1>3, <2>2, <3>1, <3>2
    <3> QED
      BY <1>2, <3>1, <3>3
  <2>5. ASSUME h # n
        PROVE  h \in B
    <3>1. h \in 1 .. n - 1 /\ h \in 1 .. n /\ h + 1 \in 1 .. n /\ ~ (h > h) /\ h + 1 > h
      BY <1>1, <2>1, <2>5
    <3>2. <<x, t[h]>> \notin less /\ <<x, t[h + 1]>> \in less
      BY <2>1, <3>1
    <3>3. <<t[h], t[h + 1]>> \in less
      BY <1>1, <1>3, <2>2, <3>1, <3>2
    <3> QED
      BY <1>2, <3>1, <3>3
  <2>6. ASSUME NEW b \in B, b > f, b < h
        PROVE  FALSE
    <3>1. b \in 1 .. n - 1 /\ b \in 1 .. n /\ b + 1 \in 1 .. n /\ <<t[b], t[b + 1]>> \in less
      BY <1>1, <1>2, <2>6
    <3>2. ~ (b + 1 > h)
      BY <2>1, <2>6, <3>1
    <3>3. <<t[b], x>> \notin less /\ <<x, t[b + 1]>> \notin less
      BY <2>1, <2>6, <3>1, <3>2
    <3> QED
      BY <1>1, <1>3, <2>2, <3>1, <3>3
  <2>7. \A b \in B : b <= f \/ b >= h
    <3>1. \A b \in B : b \in Nat
      <4>1. B \subseteq 1 .. n - 1
        BY <1>2
      <4> QED
        BY <1>1, <4>1
    <3>2. f \in Nat /\ h \in Nat
      BY <2>1
    <3> QED
      BY <2>6, <3>1, <3>2
  <2> QED
    BY <2>3, <2>4, <2>5, <2>7 DEF f, h
<1>6. B \subseteq 1 .. n - 1
  BY <1>2
<1> QED
  BY <1>5, <1>6 DEF RunBounds, n, B, from, to

\* A sorted sample t and positions c in it: every position has unequal neighbours,
\* and every run a desired position falls into is split from a neighbour, if it has
\* one, at its start or its end.
SplitByRuns(t, less, c, desired) ==
    /\ \A p \in ToSet(c) : <<t[p], t[p + 1]>> \in less
    /\ \A q \in ToSet(desired) :
          LET run == {i \in DOMAIN t : <<t[i], t[q + 1]>> \notin less /\ <<t[q + 1], t[i]>> \notin less}
              edges == {Min(run) - 1, Max(run)} \cap 1 .. Len(t) - 1
          IN  edges # {} => edges \cap ToSet(c) # {}

\* The start and the end of a run are its least and its greatest place.
LEMMA RunEdges ==
    ASSUME NEW less, NEW U, Weak(less, U), NEW t \in Seq(U), NotInverted(t, less),
           NEW q \in 0 .. Len(t) - 1
    PROVE  LET run == {i \in DOMAIN t : <<t[i], t[q + 1]>> \notin less /\ <<t[q + 1], t[i]>> \notin less}
           IN  Min(run) - 1 = Starts(t, less)[q] /\ Max(run) = Ends(t, less)[q]
<1> DEFINE run == {i \in DOMAIN t : <<t[i], t[q + 1]>> \notin less /\ <<t[q + 1], t[i]>> \notin less}
           f == Starts(t, less)[q]
           h == Ends(t, less)[q]
           n == Len(t)
<1>1. n \in Nat /\ DOMAIN t = 1 .. n /\ q \in Nat
  OBVIOUS
<1>2. /\ f \in 0 .. q /\ h \in q + 1 .. n
      /\ \A i \in 1 .. n : <<t[i], t[q + 1]>> \notin less <=> i > f
      /\ \A i \in 1 .. n : <<t[q + 1], t[i]>> \in less <=> i > h
  BY RunFound
<1>3. \A i : i \in run <=> i \in 1 .. n /\ i > f /\ ~ (i > h)
  BY <1>1, <1>2
<1> HIDE DEF run, f, h, n
<1>4. f \in Nat /\ h \in Nat /\ f + 1 <= h /\ h <= n
  BY <1>1, <1>2
<1>5. f + 1 \in run /\ h \in run /\ \A i \in run : i \in Nat /\ f + 1 <= i /\ i <= h
  BY <1>1, <1>3, <1>4
<1>6. Min(run) = f + 1
  <2>1. \E x \in run : \A y \in run : x <= y
    BY <1>5
  <2> DEFINE x == Min(run)
  <2>2. x \in run /\ \A y \in run : x <= y
    BY <2>1 DEF Min
  <2> HIDE DEF x
  <2>3. x \in Nat /\ x <= h /\ f + 1 <= x /\ x <= f + 1
    BY <1>5, <2>2
  <2>4. x = f + 1
    BY <1>4, <2>3
  <2> QED
    BY <2>4 DEF x
<1>7. Max(run) = h
  <2>1. \E x \in run : \A y \in run : x >= y
    BY <1>5
  <2> DEFINE x == Max(run)
  <2>2. x \in run /\ \A y \in run : x >= y
    BY <2>1 DEF Max
  <2> HIDE DEF x
  <2>3. x \in Nat /\ x <= h /\ f + 1 <= x /\ x >= h
    BY <1>5, <2>2
  <2>4. x = h
    BY <1>4, <2>3
  <2> QED
    BY <2>4 DEF x
<1>8. Min(run) - 1 = f
  BY <1>4, <1>6
<1> QED
  BY <1>7, <1>8 DEF run, f, h

\* split_positions splits a sorted sample like that.
LEMMA SplitPositionsByRuns ==
    ASSUME NEW name, NEW vs, NEW ks, NEW U, Weak(sample_order(name, vs, ks), U),
           NEW t \in Seq(U), NotInverted(t, sample_order(name, vs, ks)), Len(t) # 0,
           NEW targets, NEW m, NEW n \in Nat \ {0}, Partition(targets, m, n)
    PROVE  SplitByRuns(t, sample_order(name, vs, ks),
                       split_positions(name, vs, ks, t, targets, n),
                       desired_positions(targets, Len(t), n))
<1> DEFINE less == sample_order(name, vs, ks)
           s == Len(t)
           desired == desired_positions(targets, s, n)
           B == Between(t, less)
           from == Starts(t, less)
           to == Ends(t, less)
           c == split_positions(name, vs, ks, t, targets, n)
<1>1. s \in Nat \ {0}
  OBVIOUS
<1>2. c = choose_split_positions(desired, s, from, to)
  BY DEF split_positions, Starts, Ends
<1>3. RunBounds(from, to, B, s)
  BY RunsBounded
<1>4. /\ IsSequence(desired) /\ \A j \in 1 .. Len(desired) : desired[j] \in 0 .. s - 1
      /\ \A i, j \in 1 .. Len(desired) : i < j => desired[i] <= desired[j]
  <2> HIDE DEF s
  <2> QED
    BY <1>1, DesiredInside
<1> HIDE DEF c, desired, from, to, B, less
<1>5. ToSet(c) \subseteq B /\ \A j \in 1 .. Len(desired) : Split(desired[j], c, from, to, B)
  <2> HIDE DEF s
  <2> QED
    BY <1>1, <1>2, <1>3, <1>4, ChosenBetweenRuns
<1>6. \A p \in ToSet(c) : <<t[p], t[p + 1]>> \in less
  BY <1>5 DEF B, Between
<1>7. ASSUME NEW q \in ToSet(desired)
      PROVE  LET run == {i \in DOMAIN t : <<t[i], t[q + 1]>> \notin less /\ <<t[q + 1], t[i]>> \notin less}
                 edges == {Min(run) - 1, Max(run)} \cap 1 .. s - 1
             IN  edges # {} => edges \cap ToSet(c) # {}
  <2> DEFINE run == {i \in DOMAIN t : <<t[i], t[q + 1]>> \notin less /\ <<t[q + 1], t[i]>> \notin less}
             edges == {Min(run) - 1, Max(run)} \cap 1 .. s - 1
  <2>1. PICK j \in 1 .. Len(desired) : q = desired[j]
    BY <1>4 DEF ToSet, IsSequence
  <2>2. q \in 0 .. s - 1 /\ Split(q, c, from, to, B)
    BY <1>4, <1>5, <2>1
  <2>3. Min(run) - 1 = from[q] /\ Max(run) = to[q]
    BY <2>2, RunEdges DEF less, from, to
  <2> HIDE DEF run
  <2>4. /\ from[q] \in {0} \cup B /\ to[q] \in {s} \cup B /\ B \subseteq 1 .. s - 1
    BY <1>3, <2>2 DEF RunBounds
  <2>5. edges = {from[q], to[q]} \cap B
    <3> HIDE DEF s
    <3>1. 0 \notin 1 .. s - 1 /\ s \notin 1 .. s - 1
      BY <1>1
    <3> QED
      BY <2>3, <2>4, <3>1
  <2> HIDE DEF edges
  <2>6. edges # {} => edges \cap ToSet(c) # {}
    BY <1>5, <2>2, <2>5 DEF Split
  <2> QED
    BY <2>6 DEF edges, run
<1>8. SplitByRuns(t, less, c, desired)
  BY <1>6, <1>7 DEF SplitByRuns, s
<1> QED
  BY <1>8 DEF less, c, desired, s

\* choose_split_positions: when the sort keys order the values, no split falls
\* inside a run of equal elements, and wherever the run a desired position falls
\* into has a start or an end inside the sample, there is a split at one of the two.
THEOREM SplitsStayBetweenRuns ==
    ASSUME Name \subseteq Ordering
    PROVE  Spec => []SplitsBetweenRuns
<1>1. ASSUME EInv, NEW g \in Groups, Len(members(k, vals, g)) > 0
      PROVE  /\ sorted[g] \in Seq(DOMAIN vals)
             /\ SplitByRuns(sorted[g], sample_order(k, vals, keys(vals)), positions[g],
                    desired_positions(target_sizes(per_group(k, plan), Len(members(k, vals, g))),
                        Len(sorted[g]), Len(members(k, vals, g))))
             /\ \A q \in ToSet(desired_positions(target_sizes(per_group(k, plan), Len(members(k, vals, g))),
                                                Len(sorted[g]), Len(members(k, vals, g)))) :
                   q + 1 \in DOMAIN sorted[g]
  <2> DEFINE n == Len(members(k, vals, g))
             q == per_group(k, plan)
             t == target_sizes(q, n)
             ks == keys(vals)
             U == GroupOfSlots(k, vals, g)
             s == sorted[g]
             desired == desired_positions(t, Len(s), n)
  <2>1. n \in Nat \ {0} /\ vals # << >> /\ DOMAIN vals = 1 .. Len(vals)
    <3>1. Len(vals) \in Nat /\ DOMAIN vals = 1 .. Len(vals)
      BY <1>1 DEF EInv
    <3>2. n \in Nat /\ n <= Len(vals)
      BY <3>1, FewMembers
    <3>3. vals = << >> => Len(vals) = 0
      OBVIOUS
    <3>4. n > 0
      BY <1>1
    <3> HIDE DEF n
    <3> QED
      BY <3>1, <3>2, <3>3, <3>4
  <2>2. k \in Ordering /\ IsPlan(plan)
    BY <1>1 DEF EInv
  <2>3. Draws(plan, n) /\ Keyed(k, vals, ks) /\ IsPlan(q)
    BY <1>1, <2>1, PlanDraws, ValuesKeyed, GroupPlans
  <2>4. /\ s = sorted_sample(k, vals, ks, plan, g)
        /\ positions[g] = IF Len(t) <= 1 THEN << >> ELSE split_positions(k, vals, ks, s, t, n)
    BY <1>1, <2>1, SampleAndPositions
  <2>5. /\ SampleOf(s, k, vals, g) /\ NotInverted(s, sample_order(k, vals, ks))
        /\ Len(s) = min(n, plan.sample_size)
    BY <2>2, <2>3, <2>4, SortedSample
  <2>6. s \in Seq(U)
    BY <2>5 DEF SampleOf
  <2>7. Len(s) # 0
    <3>1. plan.sample_size \in Nat \ {0}
      BY <2>2 DEF IsPlan
    <3> HIDE DEF n, s
    <3> QED
      BY <2>1, <2>5, <3>1 DEF min
  <2>8. Weak(sample_order(k, vals, ks), U)
    BY <2>2, <2>3, SampleOrderWeak
  <2>9. Partition(t, q.max_buckets, n)
    <3> HIDE DEF n, q
    <3> QED
      BY <2>1, <2>3, TargetsArePartition
  <2> HIDE DEF n, q, t, ks, s
  <2>10. s \in Seq(DOMAIN vals)
    <3>1. U \subseteq DOMAIN vals
      BY <2>1 DEF GroupOfSlots
    <3> HIDE DEF U
    <3> QED
      BY <2>6, <3>1
  <2>11. SplitByRuns(s, sample_order(k, vals, ks), split_positions(k, vals, ks, s, t, n), desired)
    <3> HIDE DEF U
    <3> QED
      BY <2>1, <2>5, <2>6, <2>7, <2>8, <2>9, SplitPositionsByRuns
  <2>12. SplitByRuns(s, sample_order(k, vals, ks), positions[g], desired)
    <3>1. CASE Len(t) <= 1
      <4>1. positions[g] = << >>
        BY <2>4, <3>1
      <4>2. Len(t) \in Nat \ {0}
        BY <2>9 DEF Partition
      <4>3. DOMAIN desired = {}
        BY <3>1, <4>2 DEF desired_positions
      <4> HIDE DEF desired
      <4> QED
        BY <4>1, <4>3 DEF SplitByRuns, ToSet
    <3>2. CASE ~ (Len(t) <= 1)
      BY <2>4, <2>11, <3>2
    <3> QED
      BY <3>1, <3>2
  <2>13. \A i \in ToSet(desired) : i + 1 \in DOMAIN s
    <3> DEFINE c == Len(s)
    <3>1. c \in Nat \ {0} /\ DOMAIN s = 1 .. c
      BY <2>6, <2>7
    <3> HIDE DEF c
    <3>2. IsSequence(desired) /\ \A j \in 1 .. Len(desired) : desired[j] \in 0 .. c - 1
      BY <2>1, <2>9, <3>1, DesiredInside DEF c
    <3> HIDE DEF desired
    <3>3. \A i \in ToSet(desired) : i \in 0 .. c - 1
      BY <3>2 DEF IsSequence, ToSet
    <3> QED
      BY <3>1, <3>3
  <2> QED
    BY <2>10, <2>12, <2>13 DEF n, q, t, ks, s
<1>2. ASSUME EInv
      PROVE  SplitsBetweenRuns
  <2> SUFFICES ASSUME NEW g \in Groups
               PROVE  LET s == sorted[g]
                          n == Len(members(k, vals, g))
                          less(i, j) == sample_less(k, vals, keys(vals), s[i], s[j])
                          cuts == ToSet(positions[g])
                          run(q) == {i \in DOMAIN s : ~ less(i, q + 1) /\ ~ less(q + 1, i)}
                          edges(q) == {Min(run(q)) - 1, Max(run(q))} \cap 1 .. Len(s) - 1
                      IN  /\ \A p \in cuts : less(p, p + 1)
                          /\ n > 0 => \A q \in ToSet(desired_positions(target_sizes(per_group(k, plan), n), Len(s), n)) :
                                edges(q) # {} => edges(q) \cap cuts # {}
    BY DEF SplitsBetweenRuns
  <2> DEFINE s == sorted[g]
             n == Len(members(k, vals, g))
             less(i, j) == sample_less(k, vals, keys(vals), s[i], s[j])
             cuts == ToSet(positions[g])
             run(q) == {i \in DOMAIN s : ~ less(i, q + 1) /\ ~ less(q + 1, i)}
             edges(q) == {Min(run(q)) - 1, Max(run(q))} \cap 1 .. Len(s) - 1
             desired == desired_positions(target_sizes(per_group(k, plan), n), Len(s), n)
             order == sample_order(k, vals, keys(vals))
  <2>1. \A i, j : <<s[i], s[j]>> \in order => less(i, j)
    BY DEF sample_order
  <2>2. CASE n > 0
    <3>1. /\ s \in Seq(DOMAIN vals) /\ SplitByRuns(s, order, positions[g], desired)
          /\ \A q \in ToSet(desired) : q + 1 \in DOMAIN s
      BY <1>1, <1>2, <2>2
    <3>2. \A i, j \in DOMAIN s : less(i, j) <=> <<s[i], s[j]>> \in order
      <4>1. \A i \in DOMAIN s : s[i] \in DOMAIN vals
        <5> HIDE DEF s
        <5> QED
          BY <3>1
      <4> QED
        BY <4>1 DEF sample_order
    <3> HIDE DEF s, n, less, cuts, desired, order
    <3>3. \A p \in cuts : less(p, p + 1)
      BY <2>1, <3>1 DEF SplitByRuns, cuts
    <3>4. ASSUME NEW q \in ToSet(desired)
          PROVE  edges(q) # {} => edges(q) \cap cuts # {}
      <4> DEFINE other == {i \in DOMAIN s : <<s[i], s[q + 1]>> \notin order /\ <<s[q + 1], s[i]>> \notin order}
                 places == {Min(other) - 1, Max(other)} \cap 1 .. Len(s) - 1
      <4>1. places # {} => places \cap ToSet(positions[g]) # {}
        BY <3>1 DEF SplitByRuns
      <4>2. run(q) = other
        BY <3>1, <3>2
      <4>3. edges(q) = places
        <5> HIDE DEF run, other
        <5> QED
          BY <4>2
      <4> HIDE DEF places, edges
      <4> QED
        BY <4>1, <4>3 DEF cuts
    <3>5. \A q \in ToSet(desired) : edges(q) # {} => edges(q) \cap cuts # {}
      BY <3>4
    <3> QED
      BY <3>3, <3>5 DEF s, n, less, cuts, desired
  <2>3. CASE ~ (n > 0)
    <3>1. positions[g] = << >>
      <4>1. CASE vals = << >>
        BY <1>2, <4>1 DEF EInv
      <4>2. CASE vals # << >>
        <5>1. Len(vals) \in Nat
          BY <1>2 DEF EInv
        <5>2. n \in Nat
          BY <5>1, FewMembers
        <5> HIDE DEF n
        <5>3. n = 0
          BY <2>3, <5>2
        <5>4. target_sizes(per_group(k, plan), n) = <<0>> /\ Len(<<0>>) <= 1
          BY <5>3 DEF target_sizes
        <5>5. positions[g] = IF Len(target_sizes(per_group(k, plan), n)) <= 1 THEN << >>
                             ELSE split_positions(k, vals, keys(vals), sorted[g],
                                      target_sizes(per_group(k, plan), n), n)
          BY <1>2, <4>2, SampleAndPositions DEF n
        <5> QED
          BY <5>4, <5>5
      <4> QED
        BY <4>1, <4>2
    <3>2. cuts = {}
      BY <3>1 DEF ToSet
    <3> HIDE DEF cuts, less, edges
    <3> QED
      BY <2>3, <3>2 DEF cuts
  <2> QED
    BY <2>2, <2>3
<1>3. EInv => SplitsBetweenRuns
  BY <1>2
<1> QED
  BY EstimationInvariance, <1>3, PTL
-----------------------------------------------------------------------------
(* The layouts of all groups together                                      *)

\* A split point of a layout stores an element of the collection or none.
LEMMA PointsStored ==
    ASSUME EInv, k \in Ordering, NEW g \in Groups, NEW i \in DOMAIN layouts[g].splits
    PROVE  layouts[g].splits[i].pos \in {no_element} \cup DOMAIN vals
<1> DEFINE q == per_group(k, plan)
           ks == keys(vals)
           n == Len(members(k, vals, g))
           t == target_sizes(q, n)
           s == sorted_sample(k, vals, ks, q, g)
           c == split_positions(k, vals, ks, s, t, n)
<1>1. layouts[g] = estimate(k, vals, ks, q, g)
  BY LayoutsCurrent
<1>2. CASE vals = << >>
  <2>1. layouts[g].splits = << >>
    BY <1>1, <1>2, EstimateOfNone DEF NoSplits
  <2> QED
    BY <2>1
<1>3. CASE vals # << >>
  <2>1. layouts[g].splits = IF Len(t) <= 1 THEN << >>
                            ELSE [j \in DOMAIN c |-> split_point(k, ks, s, c[j])]
    BY <1>1 DEF estimate, estimate_for, split_at
  <2>2. ~ (Len(t) <= 1)
    BY <2>1
  <2>3. IsPlan(q) /\ Draws(q, n) /\ Keyed(k, vals, ks)
    BY <1>3, GroupPlans, ValuesKeyed
  <2>4. SplitsInside(k, vals, ks, s, t, n)
    BY <2>2, <2>3, SampleSplitsInside
  <2>5. SampleOf(s, k, vals, g)
    BY <2>3, SortedSample
  <2> HIDE DEF t, n, s, q, ks
  <2>6. Increasing(c, Len(s) - 1)
    BY <2>4 DEF SplitsInside
  <2> HIDE DEF c
  <2>7. i \in DOMAIN c /\ layouts[g].splits[i] = split_point(k, ks, s, c[i])
    BY <2>1, <2>2
  <2>8. c[i] \in 1 .. Len(s) - 1
    BY <2>6, <2>7 DEF Increasing
  <2>9. s \in Seq(GroupOfSlots(k, vals, g)) /\ DOMAIN vals = 1 .. Len(vals)
    BY <2>5 DEF SampleOf, EInv
  <2>10. s[c[i] + 1] \in DOMAIN vals
    BY <2>8, <2>9 DEF GroupOfSlots
  <2> QED
    BY <2>7, <2>10 DEF split_point
<1> QED
  BY <1>2, <1>3

\* The bucket ids of all groups together stay below the limit.
LEMMA IdsFit ==
    ASSUME EInv
    PROVE  total([g \in Groups |-> Len(layouts[g].expected)]) <= BucketLimit
<1> DEFINE c == GroupCount[k]
           share == BucketLimit \div c
           m == IF vals = << >> THEN 1 ELSE IF c = 1 THEN BucketLimit ELSE share
           t == [g \in 1 .. c |-> Len(layouts[g].expected)]
<1>1. c \in Nat \ {0} /\ BucketLimit \in Nat \ {0} /\ c <= BucketLimit
  BY LimitPositive DEF EInv
<1>2. share \in Nat /\ c * share <= BucketLimit
  <2> HIDE DEF c
  <2> QED
    BY <1>1, Quotient
<1>3. m \in Nat /\ m * c <= BucketLimit
  <2> HIDE DEF share, c
  <2>1. c * share = share * c
    BY <1>1, <1>2
  <2> QED
    BY <1>1, <1>2, <2>1
<1>4. ASSUME NEW g \in Groups
      PROVE  Len(layouts[g].expected) \in Nat /\ Len(layouts[g].expected) <= m
  <2> DEFINE q == per_group(k, plan)
             made == estimate(k, vals, keys(vals), q, g)
             size == Len(made.expected)
             most == q.max_buckets
  <2>1. Len(layouts[g].expected) = size
    BY LayoutsCurrent
  <2>2. IsPlan(q) /\ Len(vals) \in Nat
    BY GroupPlans DEF EInv
  <2>3. LayoutShape(made) /\ size <= most
    BY <2>2, EstimateShape
  <2>4. size \in Nat
    BY <2>3 DEF LayoutShape, IsSequence
  <2>5. CASE vals = << >>
    <3>1. size = 1
      BY <2>5, EstimateOfNone DEF NoSplits
    <3> HIDE DEF size
    <3> QED
      BY <2>5, <2>1, <3>1
  <2>6. CASE vals # << >>
    <3>1. plan.max_buckets <= BucketLimit /\ plan.max_buckets \in Nat \ {0}
      BY <2>6, SplitPositionsAssumption DEF EInv, IsPlan
    <3>2. most \in Nat \ {0}
      BY <2>2 DEF IsPlan
    <3>3. CASE c = 1
      <4>1. most = plan.max_buckets
        BY <3>3 DEF per_group
      <4> HIDE DEF size, most
      <4> QED
        BY <1>1, <2>1, <2>3, <2>4, <2>6, <3>1, <3>2, <3>3, <4>1
    <3>4. CASE c # 1
      <4>1. plan \in PlanFields
        BY DEF EInv, IsPlan, PlanFields
      <4>2. most = min(min(plan.max_buckets, share), BucketLimit)
        BY <3>4, <4>1 DEF per_group, with_max_buckets, PlanFields
      <4> HIDE DEF size, most, share
      <4>3. most <= share
        BY <1>1, <1>2, <3>1, <4>2 DEF min
      <4>4. size <= share
        BY <1>2, <2>3, <2>4, <3>2, <4>3
      <4> QED
        BY <2>1, <2>4, <2>6, <3>4, <4>4
    <3> QED
      BY <3>3, <3>4
  <2> QED
    BY <2>5, <2>6
<1> HIDE DEF m
<1>5. t \in Seq(Nat) /\ Len(t) = c /\ \A i \in 1 .. Len(t) : t[i] <= m
  <2>1. \A i \in 1 .. c : t[i] \in Nat /\ t[i] <= m
    BY <1>4 DEF Groups
  <2> HIDE DEF c
  <2>2. Len(t) = c
    BY <1>1
  <2>3. t \in [1 .. c -> Nat]
    BY <2>1
  <2> HIDE DEF t
  <2> QED
    BY <1>1, <2>1, <2>2, <2>3
<1> HIDE DEF t, c
<1>6. total(t) \in Nat /\ total(t) <= m * c
  BY <1>3, <1>5, TotalAtMost
<1>7. total(t) <= BucketLimit
  BY <1>1, <1>3, <1>6
<1> QED
  BY <1>7 DEF t, c, Groups

\* What callers build is a plan, and BucketLayout::estimate keeps its word for
\* every plan: one bucket more than split points, split points that store an
\* element of the collection or none, and, over all groups, no more buckets than
\* there are bucket ids.
THEOREM LayoutTypes ==
    ASSUME Name \subseteq Ordering
    PROVE  Spec => []TypeOK
<1>1. ASSUME EInv
      PROVE  TypeOK
  <2>1. k \in Name /\ k \in Ordering /\ IsPlan(plan) /\ (vals # << >> => plan \in Plan)
    BY <1>1 DEF EInv
  <2>2. vals \in UNION {[1 .. m -> Value] : m \in 0 .. MaxItems}
    <3>1. vals \in Seq(Value) /\ Len(vals) <= MaxItems /\ MaxItems \in Nat
      BY <1>1, SplitPositionsAssumption DEF EInv
    <3>2. vals \in [1 .. Len(vals) -> Value] /\ Len(vals) \in 0 .. MaxItems
      BY <3>1
    <3> QED
      BY <3>2
  <2>3. ASSUME NEW g \in Groups
        PROVE  Len(layouts[g].expected) = Len(layouts[g].splits) + 1
    <3>1. IsPlan(per_group(k, plan)) /\ Len(vals) \in Nat
      BY <1>1, GroupPlans DEF EInv
    <3>2. LayoutShape(estimate(k, vals, keys(vals), per_group(k, plan), g))
      BY <3>1, EstimateShape
    <3>3. layouts[g] = estimate(k, vals, keys(vals), per_group(k, plan), g)
      BY <1>1, LayoutsCurrent
    <3> QED
      BY <3>2, <3>3 DEF LayoutShape
  <2>4. \A g \in Groups : \A i \in DOMAIN layouts[g].splits :
            layouts[g].splits[i].pos \in {no_element} \cup DOMAIN vals
    BY <1>1, <2>1, PointsStored
  <2>5. total([g \in Groups |-> Len(layouts[g].expected)]) <= BucketLimit
    BY <1>1, IdsFit
  <2> QED
    BY <2>1, <2>2, <2>3, <2>4, <2>5 DEF TypeOK
<1>2. EInv => TypeOK
  BY <1>1
<1> QED
  BY EstimationInvariance, <1>2, PTL
-----------------------------------------------------------------------------
(* The target sizes                                                        *)

\* PlanBuilding computes the target sizes the layouts use.
LEMMA SameTargets ==
    ASSUME NEW p, NEW n
    PROVE  Builder!target_sizes(p, n) = target_sizes(p, n)
<1>1. Builder!uniform_sizes(p, n) = uniform_sizes(p, n)
  BY DEF Builder!uniform_sizes, uniform_sizes, Builder!min, min
<1>2. Builder!explicit_sizes(p, n) = explicit_sizes(p, n)
  BY DEF Builder!explicit_sizes, explicit_sizes, Builder!min, min
<1>3. Builder!first_page_sizes(p, n) = first_page_sizes(p, n)
  BY DEF Builder!first_page_sizes, first_page_sizes, Builder!min, min
<1>4. Builder!geometric_sizes(p, n) = geometric_sizes(p, n)
  BY DEF Builder!geometric_sizes, geometric_sizes, Builder!geometric_rest, geometric_rest,
         Builder!geometric_start, geometric_start, Builder!geometric_step, geometric_step,
         Builder!min, min
<1> QED
  BY <1>1, <1>2, <1>3, <1>4 DEF Builder!target_sizes, target_sizes

\* ... and adds them up alike.
LEMMA SameTotal ==
    ASSUME NEW t
    PROVE  Builder!total(t) = total(t)
  BY DEF Builder!total, total

\* No page size becomes 2^64 when it is made a double.
PagesAreSizes == \A p \in PageSizes : Builder!double(p) < Word

\* Then what a caller builds has one possible list of target sizes.
LEMMA OnePossibleSize ==
    ASSUME EInv, PagesAreSizes, NEW n, NEW t \in Builder!possible_sizes(n)
    PROVE  t = target_sizes(plan, n)
<1> DEFINE page == plan.page_size
           d == Builder!double(page)
<1>1. plan.kind = "geometric" => page \in PageSizes
  BY DEF EInv, Paged
<1>2. page \in Nat
  BY DEF EInv, IsPlan
<1>3. d \in Int
  <2>1. Word \in Nat \ {0} /\ Ulp \in Nat \ {0}
    BY LayoutEstimationAssumption
  <2>2. page \div Ulp \in Int /\ page % Ulp \in Int
    BY <1>2, <2>1
  <2> HIDE DEF page
  <2> DEFINE b == page \div Ulp
             r == page % Ulp
  <2> HIDE DEF b, r
  <2>3. b \in Int /\ r \in Int
    BY <2>2 DEF b, r
  <2>4. b * Ulp \in Int /\ (b + 1) * Ulp \in Int
    BY <2>1, <2>3
  <2>5. d = page \/ d = b * Ulp \/ d = (b + 1) * Ulp
    BY DEF Builder!double, b, r
  <2> QED
    BY <1>2, <2>4, <2>5
<1>4. plan.kind = "geometric" => d < Word
  BY <1>1 DEF PagesAreSizes
<1> HIDE DEF d
<1>5. ~ (plan.kind = "geometric" /\ d >= Word)
  BY <1>3, <1>4, LayoutEstimationAssumption
<1>6. t = Builder!target_sizes(plan, n)
  BY <1>5 DEF Builder!possible_sizes, d
<1> QED
  BY <1>6, SameTargets

\* BucketPlan::target_sizes: the targets of every group are positive, add up to
\* its elements and respect its limit of buckets, and so do those of every plan a
\* caller can build, for collections far larger, as long as the double of no page
\* size is 2^64, which size_t does not hold (MCHugePages shows what happens then).
THEOREM TargetsStayPartition ==
    ASSUME PagesAreSizes
    PROVE  Spec => []TargetsPartition
<1>1. ASSUME NEW p, IsPlan(p), NEW n \in Nat, NEW t, t = target_sizes(p, n)
      PROVE  /\ Len(t) \in 1 .. p.max_buckets
             /\ n > 0 => \A i \in DOMAIN t : t[i] > 0
             /\ total(t) = n
  <2>1. Partition(t, p.max_buckets, n)
    BY <1>1, TargetsArePartition
  <2>2. t \in Seq(Nat)
    BY <2>1 DEF Partition
  <2>3. DOMAIN t = 1 .. Len(t)
    BY <2>2
  <2> QED
    BY <2>1, <2>3 DEF Partition
<1>2. ASSUME EInv
      PROVE  TargetsPartition
  <2>1. ASSUME NEW g \in Groups
        PROVE  LET t == target_sizes(per_group(k, plan), Size(g))
               IN  /\ Len(t) \in 1 .. per_group(k, plan).max_buckets
                   /\ Size(g) > 0 => \A i \in DOMAIN t : t[i] > 0
                   /\ total(t) = Size(g)
    <3>1. IsPlan(per_group(k, plan)) /\ Len(vals) \in Nat
      BY <1>2, GroupPlans DEF EInv
    <3>2. Size(g) \in Nat
      BY <3>1, FewMembers DEF Size
    <3> QED
      BY <1>1, <3>1, <3>2
  <2>2. ASSUME NEW n \in 0 .. MaxElements, NEW t \in Builder!possible_sizes(n)
        PROVE  /\ Len(t) \in 1 .. plan.max_buckets
               /\ n > 0 => \A i \in DOMAIN t : t[i] > 0
               /\ Builder!total(t) = n
    <3>1. t = target_sizes(plan, n)
      BY <1>2, <2>2, OnePossibleSize
    <3>2. IsPlan(plan) /\ n \in Nat
      BY <1>2, LayoutEstimationAssumption DEF EInv
    <3> QED
      BY <1>1, <3>1, <3>2, SameTotal
  <2>3. Builder!BuiltPlansPartition
    BY <2>2 DEF Builder!BuiltPlansPartition
  <2> QED
    BY <2>1, <2>3 DEF TargetsPartition
<1>3. EInv => TargetsPartition
  BY <1>2
<1> QED
  BY EstimationInvariance, <1>3, PTL
-----------------------------------------------------------------------------
(* The first page of either direction                                      *)

\* What the loop of geometric_sizes has placed at the two ends.
EndsPlaced(l, page, n, both) ==
    /\ Len(l.front) >= 1 /\ l.front[1] = min(page, n)
    /\ both /\ n >= 2 * page => Len(l.back) >= 1 /\ l.back[Len(l.back)] = page

\* The first round places a page at the front, and one at the back of a symmetric
\* plan when the two do not meet.
LEMMA FirstRound ==
    ASSUME NEW p, p.page_size \in Nat \ {0}, p.max_buckets \in Nat, p.max_buckets >= 3,
           NEW n \in Nat \ {0}
    PROVE  /\ geometric_start(p, n).remaining > 0 /\ geometric_start(p, n).budget > 1
           /\ EndsPlaced(geometric_step(p, n, geometric_start(p, n)), p.page_size, n, p.symmetric)
<1> DEFINE l == geometric_start(p, n)
           page == p.page_size
           m == p.max_buckets
           step == (page + 1 - 1) \div 1
           take1 == min(step, n)
           rem1 == n - take1
           both == p.symmetric /\ rem1 > 0 /\ m - 1 > 1
           take2 == IF both THEN min(step, rem1) ELSE 0
           r == geometric_step(p, n, l)
<1>1. /\ l.front = << >> /\ l.back = << >> /\ l.remaining = n /\ l.budget = m
      /\ l.num = page /\ l.den = 1
  BY DEF geometric_start
<1> HIDE DEF l, m
<1>2. r.front = Append(<< >>, take1) /\ r.back = IF both THEN <<take2>> \o << >> ELSE << >>
  BY <1>1 DEF geometric_step
<1> HIDE DEF r, page
<1>3. page \in Nat \ {0} /\ m \in Nat /\ m >= 3
  BY DEF page, m
<1>4. step = page
  BY <1>3
<1> HIDE DEF step
<1>5. take1 = min(page, n) /\ take1 \in Nat
  BY <1>3, <1>4 DEF min
<1>6. ASSUME p.symmetric, n >= 2 * page
      PROVE  both /\ take2 = page
  <2>1. take1 = page /\ rem1 = n - page /\ rem1 >= page
    BY <1>3, <1>5, <1>6 DEF min
  <2> HIDE DEF take1, rem1
  <2>2. both
    BY <1>3, <1>6, <2>1
  <2> HIDE DEF both
  <2> QED
    BY <1>3, <1>4, <2>1, <2>2 DEF min
<1> HIDE DEF take1, take2, both
<1>7. Len(r.front) = 1 /\ r.front[1] = take1
  BY <1>2
<1>8. ASSUME p.symmetric, n >= 2 * page
      PROVE  Len(r.back) = 1 /\ r.back[1] = page
  <2>1. r.back = <<page>> \o << >>
    BY <1>2, <1>6, <1>8
  <2> QED
    BY <2>1
<1>9. EndsPlaced(r, page, n, p.symmetric)
  BY <1>5, <1>7, <1>8 DEF EndsPlaced
<1> QED
  BY <1>1, <1>3, <1>9 DEF l, r, page, m

\* Later rounds place buckets between them.
LEMMA LaterRounds ==
    ASSUME NEW p, NEW m, NEW n, NEW l \in Growing(m, n), NEW page, NEW both, EndsPlaced(l, page, n, both)
    PROVE  EndsPlaced(geometric_step(p, n, l), page, n, both)
<1> DEFINE r == geometric_step(p, n, l)
           front == l.front
           back == l.back
<1>1. front \in Seq(Nat) /\ back \in Seq(Nat)
  BY DEF Growing, Sizes
<1>2. \E x : r.front = Append(front, x)
  BY DEF geometric_step
<1>3. r.back = back \/ \E x : r.back = <<x>> \o back
  BY DEF geometric_step
<1>4. /\ Len(front) >= 1 /\ front[1] = min(page, n)
      /\ both /\ n >= 2 * page => Len(back) >= 1 /\ back[Len(back)] = page
  BY DEF EndsPlaced
<1> HIDE DEF r, front, back
<1>5. Len(r.front) >= 1 /\ r.front[1] = front[1]
  <2>1. PICK x : r.front = Append(front, x)
    BY <1>2
  <2>2. Len(Append(front, x)) = Len(front) + 1 /\ Append(front, x)[1] = front[1]
    BY <1>1, <1>4
  <2> QED
    BY <1>1, <1>4, <2>1, <2>2
<1>6. ASSUME Len(back) >= 1
      PROVE  Len(r.back) >= 1 /\ r.back[Len(r.back)] = back[Len(back)]
  <2>1. ASSUME NEW x, r.back = <<x>> \o back
        PROVE  Len(r.back) >= 1 /\ r.back[Len(r.back)] = back[Len(back)]
    <3> DEFINE e == <<x>>
               X == Nat \cup {x}
               c == e \o back
    <3>1. Len(e) = 1 /\ e \in Seq(X)
      OBVIOUS
    <3>2. back \in Seq(X)
      BY <1>1
    <3>3. r.back = c
      BY <2>1
    <3> HIDE DEF e, X
    <3>4. Behind(c, e, back, X)
      BY <3>1, <3>2, Concatenation
    <3> HIDE DEF c
    <3>5. Len(c) = 1 + Len(back) /\ \A i \in 1 .. Len(back) : c[1 + i] = back[i]
      BY <3>1, <3>4 DEF Behind
    <3>6. Len(back) \in Nat
      BY <1>1
    <3> QED
      BY <1>6, <3>5, <3>3, <3>6
  <2> QED
    BY <1>3, <1>6, <2>1
<1>7. EndsPlaced(r, page, n, both)
  BY <1>4, <1>5, <1>6 DEF EndsPlaced
<1> QED
  BY <1>7 DEF r

\* The first and the last size of a list with such ends.
EndsAre(t, page, n, both) ==
    /\ t[1] = min(page, n)
    /\ both /\ n >= 2 * page => Last(t) = page

\* What the loop has not placed goes between the two ends.
LEMMA EndsKept ==
    ASSUME NEW m, NEW n, NEW l \in Growing(m, n), NEW page, NEW both, EndsPlaced(l, page, n, both)
    PROVE  EndsAre(AllBuckets(l), page, n, both)
<1> DEFINE front == l.front
           back == l.back
           mid == IF l.remaining > 0 THEN <<l.remaining>> ELSE << >>
           fm == front \o mid
           t == fm \o back
<1>1. front \in Seq(Nat) /\ back \in Seq(Nat) /\ mid \in Seq(Nat)
  <2>1. front \in Seq(Nat) /\ back \in Seq(Nat) /\ l.remaining \in Nat
    BY DEF Growing, Sizes
  <2> QED
    BY <2>1
<1>2. /\ Len(front) >= 1 /\ front[1] = min(page, n)
      /\ both /\ n >= 2 * page => Len(back) >= 1 /\ back[Len(back)] = page
  BY DEF EndsPlaced
<1>3. AllBuckets(l) = t
  BY DEF AllBuckets
<1> HIDE DEF front, back, mid
<1>4. Behind(fm, front, mid, Nat)
  BY <1>1, Concatenation
<1> HIDE DEF fm
<1>5. fm \in Seq(Nat) /\ Len(fm) >= 1 /\ fm[1] = front[1]
  <2>1. Len(fm) = Len(front) + Len(mid) /\ fm \in Seq(Nat) /\ \A i \in 1 .. Len(front) : fm[i] = front[i]
    BY <1>4 DEF Behind
  <2>2. Len(front) \in Nat /\ Len(mid) \in Nat
    BY <1>1
  <2> QED
    BY <1>2, <2>1, <2>2
<1>6. Behind(t, fm, back, Nat)
  BY <1>1, <1>5, Concatenation
<1> HIDE DEF t
<1>7. /\ Len(t) = Len(fm) + Len(back)
      /\ \A i \in 1 .. Len(fm) : t[i] = fm[i]
      /\ \A i \in 1 .. Len(back) : t[Len(fm) + i] = back[i]
  BY <1>6 DEF Behind
<1>8. Len(fm) \in Nat /\ Len(back) \in Nat
  BY <1>1, <1>5
<1>9. t[1] = min(page, n)
  BY <1>2, <1>5, <1>7, <1>8
<1>10. ASSUME both, n >= 2 * page
       PROVE  Last(t) = page
  <2>1. Len(back) \in 1 .. Len(back) /\ back[Len(back)] = page
    BY <1>2, <1>8, <1>10
  <2>2. t[Len(t)] = page
    BY <1>7, <2>1
  <2> QED
    BY <2>2 DEF Last
<1>11. EndsAre(t, page, n, both)
  BY <1>9, <1>10 DEF EndsAre
<1> QED
  BY <1>3, <1>11

\* So the ends of geometric sizes are one page long, however they grow.
LEMMA GeometricEnds ==
    ASSUME NEW p, IsPlan(p), p.max_buckets >= 3, NEW n \in Nat \ {0}
    PROVE  EndsAre(geometric_sizes(p, n), p.page_size, n, p.symmetric)
<1> DEFINE m == p.max_buckets
           c == min(n, m)
           page == p.page_size
           both == p.symmetric
<1>1. /\ m \in Nat \ {0} /\ page \in Nat \ {0}
      /\ p.growth[1] \in Nat \ {0} /\ p.growth[2] \in Nat \ {0}
  BY DEF IsPlan
<1>2. c \in Nat \ {0}
  BY <1>1 DEF min
<1>3. PICK f : GrowingRounds(f, p, n) /\ geometric_sizes(p, n) = AllBuckets(f[c])
  BY <1>1, GeometricRounds
<1>4. /\ f[0] = geometric_start(p, n)
      /\ \A i \in 0 .. c : f[i] \in Growing(m, n)
      /\ \A i \in 1 .. c :
            f[i] = IF f[i - 1].remaining > 0 /\ f[i - 1].budget > 1
                   THEN geometric_step(p, n, f[i - 1]) ELSE f[i - 1]
  BY <1>3 DEF GrowingRounds
<1> HIDE DEF c
<1> DEFINE S == {i \in 0 .. c : i # 0 => EndsPlaced(f[i], page, n, both)}
<1>5. 0 \in S
  BY <1>2
<1>6. ASSUME NEW i \in 1 .. c, i - 1 \in S
      PROVE  i \in S
  <2> DEFINE l == f[i - 1]
  <2>1. f[i] = IF l.remaining > 0 /\ l.budget > 1 THEN geometric_step(p, n, l) ELSE l
    BY <1>4
  <2>2. CASE i = 1
    <3>1. l = geometric_start(p, n)
      BY <1>4, <2>2
    <3> HIDE DEF l
    <3>2. l.remaining > 0 /\ l.budget > 1 /\ EndsPlaced(geometric_step(p, n, l), page, n, both)
      BY <1>1, <3>1, FirstRound
    <3> QED
      BY <1>2, <2>1, <3>2
  <2>3. CASE i # 1
    <3>1. i - 1 # 0 /\ i - 1 \in 0 .. c
      BY <1>2, <2>3
    <3>2. EndsPlaced(l, page, n, both) /\ l \in Growing(m, n)
      BY <1>4, <1>6, <3>1
    <3> HIDE DEF l
    <3>3. EndsPlaced(geometric_step(p, n, l), page, n, both)
      BY <3>2, LaterRounds
    <3> QED
      BY <1>2, <2>1, <3>2, <3>3
  <2> QED
    BY <2>2, <2>3
<1>7. c \in S
  <2> HIDE DEF S
  <2>1. 0 .. c \subseteq S
    BY <1>2, <1>5, <1>6, SetInduction
  <2> QED
    BY <1>2, <2>1
<1>8. EndsPlaced(f[c], page, n, both) /\ f[c] \in Growing(m, n)
  BY <1>2, <1>4, <1>7
<1>9. EndsAre(AllBuckets(f[c]), page, n, both)
  BY <1>8, EndsKept
<1> QED
  BY <1>3, <1>9

\* So are those of a first page.
LEMMA FirstPageEnds ==
    ASSUME NEW p, IsPlan(p), p.max_buckets >= 3, NEW n \in Nat \ {0}
    PROVE  EndsAre(first_page_sizes(p, n), p.page_size, n, p.symmetric)
<1> DEFINE size == p.page_size
           page == min(size, n)
           m == p.max_buckets
           both == p.symmetric
           t == first_page_sizes(p, n)
<1>1. size \in Nat \ {0} /\ m \in Nat /\ m >= 3
  BY DEF IsPlan
<1>2. page \in Nat /\ page <= n /\ (page = n \/ page = size) /\ (n >= 2 * size => page = size /\ page # n)
  BY <1>1 DEF min
<1>3. t = IF m = 1 \/ page = n THEN <<n>>
          ELSE IF both /\ m >= 3 /\ n > 2 * page THEN <<page, n - 2 * page, page>>
          ELSE <<page, n - page>>
  BY DEF first_page_sizes
<1> HIDE DEF t, m, size
<1>4. t[1] = page
  <2> HIDE DEF page
  <2> QED
    BY <1>1, <1>2, <1>3
<1>5. ASSUME both, n >= 2 * size
      PROVE  Last(t) = size
  <2>1. page = size /\ page # n /\ m # 1
    BY <1>1, <1>2, <1>5
  <2> HIDE DEF page
  <2>2. CASE n > 2 * page
    <3>1. t = <<page, n - 2 * page, page>>
      BY <1>1, <1>3, <1>5, <2>1, <2>2
    <3> QED
      BY <2>1, <3>1 DEF Last
  <2>3. CASE ~ (n > 2 * page)
    <3>1. t = <<page, n - page>>
      BY <1>3, <2>1, <2>3
    <3>2. n - page = page
      BY <1>1, <1>5, <2>1, <2>3
    <3> QED
      BY <2>1, <3>1, <3>2 DEF Last
  <2> QED
    BY <2>2, <2>3
<1>6. EndsAre(t, size, n, both)
  BY <1>4, <1>5 DEF EndsAre
<1> QED
  BY <1>6 DEF t, size

\* bucket_plan.hpp: geometric buckets start one page long, and a symmetric plan
\* ends with a page, too, when the collection has room for two; the same holds of
\* a first page.  It holds for every such plan of three or more buckets a caller
\* can build, however it grows, and for any number of elements.
THEOREM EndsStayOnePage ==
    ASSUME PagesAreSizes
    PROVE  Spec => []EndsOnePageLong
<1>1. ASSUME EInv, plan.kind \in {"geometric", "first_page"}, plan.max_buckets >= 3,
             NEW n \in 1 .. MaxElements, NEW t \in Builder!possible_sizes(n)
      PROVE  /\ t[1] = Builder!min(plan.page_size, n)
             /\ plan.symmetric /\ n >= 2 * plan.page_size => Builder!Last(t) = plan.page_size
  <2>1. t = target_sizes(plan, n) /\ IsPlan(plan) /\ n \in Nat \ {0}
    BY <1>1, OnePossibleSize, LayoutEstimationAssumption DEF EInv
  <2>2. t = first_page_sizes(plan, n) \/ t = geometric_sizes(plan, n)
    BY <1>1, <2>1 DEF target_sizes
  <2>3. EndsAre(t, plan.page_size, n, plan.symmetric)
    BY <1>1, <2>1, <2>2, FirstPageEnds, GeometricEnds
  <2>4. Builder!Last(t) = Last(t)
    BY DEF Builder!Last, Last
  <2> QED
    BY <2>3, <2>4 DEF EndsAre, Builder!min, min
<1>2. EInv => EndsOnePageLong
  BY <1>1 DEF EndsOnePageLong, Builder!EndsOnePageLong
<1> QED
  BY EstimationInvariance, <1>2, PTL
-----------------------------------------------------------------------------
(* What is in a bucket                                                     *)

\* The positions c with the two ends of a sample of s elements around them.
Bounds(c, s) == <<0>> \o c \o <<s>>

\* Every bucket of the sample has elements.
LEMMA BoundsAscend ==
    ASSUME NEW s \in Nat \ {0}, NEW c, Increasing(c, s - 1)
    PROVE  /\ Len(c) \in Nat /\ Bounds(c, s)[1] = 0 /\ Bounds(c, s)[Len(c) + 2] = s
           /\ \A i \in 1 .. Len(c) : c[i] \in 1 .. s - 1 /\ Bounds(c, s)[i + 1] = c[i]
           /\ \A i \in 1 .. Len(c) + 1 :
                 /\ Bounds(c, s)[i] \in 0 .. s - 1 /\ Bounds(c, s)[i + 1] \in 1 .. s
                 /\ Bounds(c, s)[i] < Bounds(c, s)[i + 1]
<1> DEFINE m == Len(c)
           e == Bounds(c, s)
<1>1. m \in Nat /\ \A i \in 1 .. m : c[i] \in 1 .. s - 1
  <2> DEFINE P == 1 .. s - 1
  <2>1. c \in Seq(P)
    BY DEF Increasing
  <2> HIDE DEF P
  <2>2. Len(c) \in Nat /\ \A i \in 1 .. Len(c) : c[i] \in P
    BY <2>1
  <2> QED
    BY <2>2 DEF P
<1>2. /\ e[1] = 0 /\ e[m + 2] = s
      /\ \A i \in 1 .. m : e[i + 1] = c[i]
  <2>1. c \in Seq(Nat)
    <3> DEFINE P == 1 .. s - 1
    <3>1. c \in Seq(P) /\ P \subseteq Nat
      BY DEF Increasing
    <3> HIDE DEF P
    <3>2. c \in [1 .. Len(c) -> P] /\ Len(c) \in Nat
      BY <3>1
    <3>3. c \in [1 .. Len(c) -> Nat]
      BY <3>1, <3>2
    <3> QED
      BY <3>2, <3>3
  <2> QED
    BY <2>1 DEF Bounds
<1>3. \A i, j \in 1 .. m : i < j => c[i] < c[j]
  BY DEF Increasing
<1> HIDE DEF m, e
<1>4. ASSUME NEW i \in 1 .. m + 1
      PROVE  e[i] \in 0 .. s - 1 /\ e[i + 1] \in 1 .. s /\ e[i] < e[i + 1]
  <2>1. CASE i = 1 /\ m = 0
    BY <1>2, <2>1
  <2>2. CASE i = 1 /\ m # 0
    <3>1. 1 \in 1 .. m
      BY <1>1, <2>2
    <3> QED
      BY <1>1, <1>2, <2>2, <3>1
  <2>3. CASE i # 1 /\ i = m + 1
    <3>1. m \in 1 .. m /\ i = m + 1 /\ i + 1 = m + 2
      BY <1>1, <2>3
    <3>2. e[i] = c[m] /\ e[i + 1] = s /\ c[m] \in 1 .. s - 1
      BY <1>1, <1>2, <3>1
    <3> QED
      BY <3>2
  <2>4. CASE i # 1 /\ i # m + 1
    <3> DEFINE h == i - 1
    <3>1. h \in 1 .. m /\ i \in 1 .. m /\ h < i /\ i = h + 1
      BY <1>1, <2>4
    <3>2. e[i] = c[h] /\ e[i + 1] = c[i] /\ c[h] < c[i] /\ c[h] \in 1 .. s - 1 /\ c[i] \in 1 .. s - 1
      BY <1>1, <1>2, <1>3, <3>1
    <3> QED
      BY <3>2
  <2> QED
    BY <2>1, <2>2, <2>3, <2>4
<1> QED
  BY <1>1, <1>2, <1>4 DEF m, e

\* A split point between unequal elements has one of them below it only.
LEMMA CutDivides ==
    ASSUME NEW name \in Ordering, NEW g, NEW point, NEW d, NEW e, CutsAt(name, g, point, d, e),
           compare(name, d, e) < 0
    PROVE  under(name, point, d) /\ ~ under(name, point, e)
<1>1. d \in Members(name, g) /\ e \in Members(name, g)
  BY DEF CutsAt
<1>2. compare(name, e, e) = 0 - compare(name, e, e) /\ compare(name, e, e) \in {-1, 0, 1}
      /\ key(name, d) \in Nat /\ key(name, e) \in Nat
  BY <1>1, GroupOrder
<1>3. ~ (compare(name, e, e) < 0) /\ ~ (key(name, e) < key(name, e))
  BY <1>2
<1> QED
  BY <1>1, <1>3 DEF CutsAt

\* The split points at the positions c of the sample t.
SplitPoints(name, ks, t, c) == [i \in DOMAIN c |-> split_point(name, ks, t, c[i])]

\* Positions between unequal elements split the sample t as bucket_of does.
LEMMA SampleBuckets ==
    ASSUME NEW name \in Ordering, NEW vs, NEW ks, Keyed(name, vs, ks), NEW g, NEW t,
           SampleOf(t, name, vs, g), Len(t) # 0, NEW c, Increasing(c, Len(t) - 1),
           \A p \in ToSet(c) : compare(name, vs[t[p]], vs[t[p + 1]]) < 0,
           NEW ps, Resolves(ps, SplitPoints(name, ks, t, c), vs),
           NEW b \in 1 .. Len(c) + 1, NEW j \in 1 .. Len(t)
    PROVE  bucket_of(name, ps, vs[t[j]], key(name, vs[t[j]])) = b <=>
               Bounds(c, Len(t))[b] < j /\ j <= Bounds(c, Len(t))[b + 1]
<1> DEFINE s == Len(t)
           m == Len(c)
           e == Bounds(c, s)
           v(i) == vs[t[i]]
           x == v(j)
           r == bucket_of(name, ps, x, key(name, x))
           splits == [i \in DOMAIN c |-> split_point(name, ks, t, c[i])]
<1>1. s \in Nat \ {0} /\ t \in Seq(GroupOfSlots(name, vs, g))
      /\ \A p, q \in 1 .. s : p < q => compare(name, v(p), v(q)) <= 0
  BY DEF SampleOf
<1>2. name \in Name
  BY DEF Ordering
<1>3. SplitsOrdered(name, g, ps)
  <2>1. Resolves(ps, [i \in DOMAIN c |-> split_point(name, ks, t, c[i])], vs)
    BY DEF SplitPoints
  <2> QED
    BY <2>1, CutsOrdered
<1>4. /\ m \in Nat /\ e[1] = 0 /\ e[m + 2] = s
      /\ \A i \in 1 .. m : c[i] \in 1 .. s - 1 /\ e[i + 1] = c[i]
  <2> HIDE DEF s
  <2> QED
    BY <1>1, BoundsAscend DEF s
<1>5. DOMAIN c = 1 .. m
  BY DEF Increasing
<1>6. Len(ps) = m
  <2>1. Len(splits) = m
    BY <1>4, <1>5
  <2> QED
    BY <2>1 DEF Resolves, SplitPoints
<1>7. \A i \in 1 .. s : v(i) \in Members(name, g)
  <2> SUFFICES ASSUME NEW i \in 1 .. s
               PROVE  v(i) \in Members(name, g)
    OBVIOUS
  <2>1. t[i] \in GroupOfSlots(name, vs, g)
    BY <1>1
  <2> QED
    BY <2>1 DEF GroupOfSlots, Keyed, Members
<1>8. ASSUME NEW i \in 1 .. m
      PROVE  under(name, ps[i], x) <=> j <= c[i]
  <2> DEFINE p == c[i]
             q == c[i] + 1
             point == ps[i]
  <2>1. p \in 1 .. s - 1 /\ p \in 1 .. s /\ q \in 1 .. s /\ p + 1 = q
    BY <1>1, <1>4
  <2>2. splits[i] = split_point(name, ks, t, p)
    BY <1>5
  <2>3. /\ point.key = splits[i].key
        /\ splits[i].pos = no_element => point.elem = NoValue
        /\ splits[i].pos \in 1 .. Len(vs) => point.elem = vs[splits[i].pos]
    BY <1>6 DEF Resolves, SplitPoints
  <2>4. compare(name, vs[t[p]], vs[t[p + 1]]) < 0
    <3>1. p \in ToSet(c)
      BY <1>5 DEF ToSet
    <3> QED
      BY <3>1
  <2> HIDE DEF splits, point, p, x
  <2>5. CutsAt(name, g, point, vs[t[p]], vs[t[p + 1]])
    BY <1>2, <2>1, <2>2, <2>3, PointCuts DEF s
  <2>6. under(name, point, vs[t[p]]) /\ ~ under(name, point, vs[t[p + 1]])
    BY <2>4, <2>5, CutDivides
  <2>7. under(name, point, v(p)) /\ ~ under(name, point, v(q))
    BY <2>1, <2>6
  <2>8. x \in Members(name, g) /\ v(p) \in Members(name, g) /\ v(q) \in Members(name, g)
    BY <1>7, <2>1 DEF x
  <2>9. \A y, z \in Members(name, g) :
            compare(name, z, y) <= 0 /\ under(name, point, y) => under(name, point, z)
    BY <1>3, <1>6 DEF SplitsOrdered, point
  <2>10. j < p => compare(name, x, v(p)) <= 0
    BY <1>1, <2>1 DEF x
  <2>11. q < j => compare(name, v(q), x) <= 0
    BY <1>1, <2>1 DEF x
  <2>12. (j = p => x = v(p)) /\ (j = q => x = v(q))
    BY DEF x
  <2> HIDE DEF q, v
  <2>13. CASE j <= p
    <3>1. j < p \/ j = p
      BY <2>1, <2>13
    <3> QED
      BY <2>7, <2>8, <2>9, <2>10, <2>12, <2>13, <3>1 DEF p, point
  <2>14. CASE ~ (j <= p)
    <3>1. q < j \/ j = q
      BY <1>1, <2>1, <2>14
    <3> QED
      BY <2>7, <2>8, <2>9, <2>11, <2>12, <2>14, <3>1 DEF p, point
  <2> QED
    BY <2>13, <2>14
<1>9. r \in 1 .. m + 1 /\ \A i \in 1 .. m : under(name, ps[i], x) <=> i >= r
  BY <1>3, <1>6, <1>7, BucketBoundary
<1>10. /\ b \in 1 .. m + 1 /\ j \in 1 .. s
       /\ \A i \in 1 .. m : i >= r <=> j <= e[i + 1]
  BY <1>4, <1>8, <1>9
<1> HIDE DEF r, e, m, s, x
<1>11. ASSUME NEW i \in 1 .. m
       PROVE  e[i + 1] \in Nat
  <2>1. e[i + 1] = c[i] /\ c[i] \in 1 .. s - 1
    BY <1>4
  <2> QED
    BY <1>1, <2>1
<1>12. j <= e[b + 1] <=> b >= r
  <2>1. CASE b = m + 1
    <3>1. e[b + 1] = s
      BY <1>4, <2>1
    <3> QED
      BY <1>1, <1>4, <1>9, <1>10, <2>1, <3>1
  <2>2. CASE b # m + 1
    <3>1. b \in 1 .. m
      BY <1>4, <2>2 DEF m
    <3> QED
      BY <1>10, <3>1
  <2> QED
    BY <2>1, <2>2
<1>13. e[b] < j <=> ~ (b - 1 >= r)
  <2>1. CASE b = 1
    BY <1>1, <1>4, <1>9, <1>10, <2>1
  <2>2. CASE b # 1
    <3> DEFINE i == b - 1
    <3>1. i \in 1 .. m /\ b = i + 1
      BY <1>4, <1>10, <2>2
    <3>2. i >= r <=> j <= e[i + 1]
      BY <1>10, <3>1
    <3>3. e[i + 1] \in Nat
      BY <1>11, <3>1
    <3> HIDE DEF i
    <3>4. i >= r <=> ~ (e[b] < j)
      BY <3>1, <3>2, <3>3
    <3> QED
      BY <3>4 DEF i
  <2> QED
    BY <2>1, <2>2
<1>14. r = b <=> e[b] < j /\ j <= e[b + 1]
  <2>1. r = b <=> b >= r /\ ~ (b - 1 >= r)
    BY <1>4, <1>9, <1>10
  <2> QED
    BY <1>12, <1>13, <2>1
<1> QED
  BY <1>14 DEF r, e, m, s, x, v

\* The sample of a group, the sizes asked for, and where the sample is split.
Sample(g) == sorted_sample(k, vals, keys(vals), per_group(k, plan), g)

Targets(g) == target_sizes(per_group(k, plan), Size(g))

Cuts(g) ==
    IF Len(Targets(g)) <= 1 THEN << >>
    ELSE split_positions(k, vals, keys(vals), Sample(g), Targets(g), Size(g))

\* x whole shares of n, rounded, are x.
LEMMA WholeShares ==
    ASSUME NEW x \in Nat, NEW n \in Nat \ {0}
    PROVE  (x * n + n \div 2) \div n = x
<1> DEFINE h == n \div 2
           y == x * n
           a == y + h
           q == a \div n
<1>1. h \in Nat /\ h < n
  OBVIOUS
<1>2. y \in Nat /\ y = n * x
  OBVIOUS
<1> HIDE DEF h, y
<1>3. a \in Nat
  BY <1>1, <1>2
<1>4. q \in Nat /\ n * q <= a /\ a < n * q + n
  <2> HIDE DEF a
  <2> QED
    BY <1>3, Quotient
<1> HIDE DEF q
<1>5. ~ (q >= x + 1)
  <2> SUFFICES ASSUME q >= x + 1
               PROVE  FALSE
    OBVIOUS
  <2>1. n * q >= n * (x + 1) /\ n * (x + 1) = n * x + n
    BY <1>4
  <2> QED
    BY <1>1, <1>2, <1>4, <2>1
<1>6. ~ (q + 1 <= x)
  <2> SUFFICES ASSUME q + 1 <= x
               PROVE  FALSE
    OBVIOUS
  <2>1. n * (q + 1) <= n * x /\ n * (q + 1) = n * q + n
    BY <1>4
  <2> QED
    BY <1>1, <1>2, <1>4, <2>1
<1>7. q = x
  BY <1>4, <1>5, <1>6
<1> QED
  BY <1>7 DEF q, y, h

\* How a group with elements is laid out.
LEMMA GroupSplit ==
    ASSUME EInv, k \in Ordering, NEW g \in Groups, Size(g) > 0
    PROVE  /\ Size(g) \in Nat \ {0} /\ Len(Sample(g)) \in Nat \ {0}
           /\ Len(Sample(g)) = min(Size(g), plan.sample_size)
           /\ SampleOf(Sample(g), k, vals, g)
           /\ NotInverted(Sample(g), sample_order(k, vals, keys(vals)))
           /\ Weak(sample_order(k, vals, keys(vals)), GroupOfSlots(k, vals, g))
           /\ Partition(Targets(g), per_group(k, plan).max_buckets, Size(g))
           /\ Increasing(Cuts(g), Len(Sample(g)) - 1)
           /\ \A p \in ToSet(Cuts(g)) :
                 compare(k, vals[Sample(g)[p]], vals[Sample(g)[p + 1]]) < 0
           /\ Resolves(points(g), SplitPoints(k, keys(vals), Sample(g), Cuts(g)), vals)
           /\ layouts[g].expected = expected_sizes(Cuts(g), Len(Sample(g)), Size(g))
<1> DEFINE n == Size(g)
           q == per_group(k, plan)
           t == Targets(g)
           ks == keys(vals)
           less == sample_order(k, vals, ks)
           U == GroupOfSlots(k, vals, g)
           s == Sample(g)
           c == Cuts(g)
           splits == SplitPoints(k, ks, s, c)
<1>1. Len(vals) \in Nat /\ n \in Nat \ {0} /\ vals # << >> /\ k \in Name /\ IsPlan(plan)
  <2>1. Len(vals) \in Nat /\ k \in Name /\ IsPlan(plan)
    BY DEF EInv
  <2>2. n \in Nat /\ n <= Len(vals)
    BY <2>1, FewMembers DEF Size
  <2>3. vals = << >> => Len(vals) = 0
    OBVIOUS
  <2>4. n > 0
    OBVIOUS
  <2> HIDE DEF n
  <2> QED
    BY <2>1, <2>2, <2>3, <2>4
<1>2. IsPlan(q) /\ Draws(q, n) /\ Keyed(k, vals, ks)
  BY <1>1, GroupPlans, ValuesKeyed DEF Size
<1>3. q.sample_size = plan.sample_size /\ plan.sample_size \in Nat \ {0}
  BY <1>1 DEF per_group, with_max_buckets, IsPlan
<1>4. /\ SampleOf(s, k, vals, g) /\ NotInverted(s, less)
      /\ Len(s) = min(n, q.sample_size)
  BY <1>2, SortedSample DEF Sample, Size
<1>5. Weak(less, U)
  BY <1>2, SampleOrderWeak
<1>6. Partition(t, q.max_buckets, n)
  <2> HIDE DEF n, q
  <2> QED
    BY <1>1, <1>2, TargetsArePartition DEF Targets, n, q
<1>7. layouts[g] = estimate_for(k, vals, ks, s, t, n)
  BY LayoutsCurrent DEF estimate, Sample, Targets, Size
<1> HIDE DEF n, q, t, ks, s
<1>8. Len(s) \in Nat \ {0}
  BY <1>1, <1>3, <1>4 DEF min
<1>9. c = IF Len(t) <= 1 THEN << >> ELSE split_positions(k, vals, ks, s, t, n)
  BY DEF Cuts, ks, s, t, n
<1>10. Increasing(c, Len(s) - 1) /\ \A p \in ToSet(c) : <<s[p], s[p + 1]>> \in less
  <2>1. CASE Len(t) <= 1
    <3>1. c = << >>
      BY <1>9, <2>1
    <3> HIDE DEF c
    <3> QED
      BY <3>1 DEF Increasing, ToSet
  <2>2. CASE ~ (Len(t) <= 1)
    <3>1. c = split_positions(k, vals, ks, s, t, n)
      BY <1>9, <2>2
    <3>2. s \in Seq(U) /\ Len(s) # 0
      BY <1>4, <1>8 DEF SampleOf
    <3> HIDE DEF U, c
    <3>3. Increasing(split_positions(k, vals, ks, s, t, n), Len(s) - 1)
      BY <1>1, <1>4, <1>5, <1>6, <3>2, SplitPositionsIncrease
    <3>4. SplitByRuns(s, less, split_positions(k, vals, ks, s, t, n), desired_positions(t, Len(s), n))
      BY <1>1, <1>4, <1>5, <1>6, <3>2, SplitPositionsByRuns
    <3> QED
      BY <3>1, <3>3, <3>4 DEF SplitByRuns
  <2> QED
    BY <2>1, <2>2
<1> HIDE DEF c
<1>11. \A p \in ToSet(c) : compare(k, vals[s[p]], vals[s[p + 1]]) < 0
  <2> SUFFICES ASSUME NEW p \in ToSet(c)
               PROVE  compare(k, vals[s[p]], vals[s[p + 1]]) < 0
    OBVIOUS
  <2> DEFINE P == 1 .. Len(s) - 1
  <2>1. p \in P
    <3>1. c \in Seq(P)
      BY <1>10 DEF Increasing
    <3> HIDE DEF P
    <3> QED
      BY <3>1 DEF ToSet
  <2>2. p \in 1 .. Len(s) /\ p + 1 \in 1 .. Len(s)
    BY <1>8, <2>1
  <2>3. s[p] \in U /\ s[p + 1] \in U
    <3>1. s \in Seq(U)
      BY <1>4 DEF SampleOf
    <3> HIDE DEF U
    <3> QED
      BY <2>2, <3>1
  <2>4. <<s[p], s[p + 1]>> \in less
    BY <1>10
  <2> QED
    BY <1>1, <1>2, <2>3, <2>4, SampleOrder
<1>12. layouts[g].splits = splits /\ layouts[g].expected = expected_sizes(c, Len(s), n)
  <2>1. CASE Len(t) <= 1
    <3>1. layouts[g].splits = << >> /\ layouts[g].expected = <<n>>
      BY <1>7, <2>1 DEF estimate_for
    <3>2. c = << >>
      BY <1>9, <2>1
    <3>3. splits = << >>
      BY <3>2 DEF SplitPoints
    <3>4. expected_sizes(c, Len(s), n) = <<n>>
      <4> DEFINE m == Len(s)
      <4>1. m \in Nat \ {0}
        BY <1>8
      <4> HIDE DEF m
      <4>2. expected_sizes(<< >>, m, n) = <<(m * n + m \div 2) \div m>>
        <5> DEFINE ends == <<0>> \o << >> \o <<m>>
                   f == [i \in 1 .. 1 |-> ((ends[i + 1] - ends[i]) * n + m \div 2) \div m]
        <5>1. ends[1] = 0 /\ ends[2] = m
          <6> DEFINE none == << >>
          <6>1. Increasing(none, m - 1) /\ Len(none) = 0
            BY DEF Increasing
          <6>2. Bounds(none, m)[1] = 0 /\ Bounds(none, m)[Len(none) + 2] = m
            <7> HIDE DEF none
            <7> QED
              BY <4>1, <6>1, BoundsAscend
          <6>3. ends = Bounds(none, m) /\ Len(none) + 2 = 2
            BY <6>1 DEF Bounds
          <6> HIDE DEF ends, none
          <6> QED
            BY <6>2, <6>3
        <5>2. expected_sizes(<< >>, m, n) = f
          BY DEF expected_sizes
        <5>3. f[1] = (m * n + m \div 2) \div m
          <6> HIDE DEF ends
          <6>1. ends[2] - ends[1] = m
            BY <4>1, <5>1
          <6> QED
            BY <6>1
        <5> HIDE DEF ends
        <5>4. f = <<f[1]>>
          OBVIOUS
        <5> HIDE DEF f
        <5> QED
          BY <5>2, <5>3, <5>4
      <4>3. (n * m + m \div 2) \div m = n
        BY <1>1, <4>1, WholeShares
      <4>4. m * n = n * m
        BY <1>1, <4>1
      <4> QED
        BY <3>2, <4>2, <4>3, <4>4 DEF m
    <3> QED
      BY <3>1, <3>3, <3>4
  <2>2. CASE ~ (Len(t) <= 1)
    BY <1>7, <1>9, <2>2 DEF estimate_for, split_at, SplitPoints
  <2> QED
    BY <2>1, <2>2
<1>13. Resolves(points(g), splits, vals)
  BY <1>12, PointsResolved
<1>14. Len(s) = min(n, plan.sample_size)
  BY <1>3, <1>4
<1> QED
  BY <1>1, <1>4, <1>5, <1>6, <1>8, <1>10, <1>11, <1>12, <1>13, <1>14 DEF n, q, t, ks, s, c

\* A sample as large as the group has every element of it once.
LEMMA SampleWhole ==
    ASSUME EInv, k \in Ordering, NEW g \in Groups, Size(g) > 0, plan.sample_size >= Size(g)
    PROVE  /\ Len(Sample(g)) = Size(g)
           /\ \A p, q \in 1 .. Size(g) : Sample(g)[p] = Sample(g)[q] => p = q
           /\ \A i \in GroupOfSlots(k, vals, g) : \E p \in 1 .. Size(g) : Sample(g)[p] = i
<1> DEFINE n == Size(g)
           m == Len(vals)
           q == per_group(k, plan)
           subset == members(k, vals, g)
           indices == sample_indices(n, q)
           x == [j \in DOMAIN indices |-> subset[indices[j]]]
           less == sample_order(k, vals, keys(vals))
           U == GroupOfSlots(k, vals, g)
           ids == [i \in 1 .. m |-> i]
           T == {i \in DOMAIN vals : group(k, vals[i]) = g}
           s == Sample(g)
<1>1. m \in Nat /\ DOMAIN vals = 1 .. m /\ IsPlan(plan)
  BY DEF EInv
<1>2. /\ n \in Nat \ {0} /\ Len(s) = min(n, plan.sample_size)
      /\ SampleOf(s, k, vals, g)
  BY GroupSplit
<1>3. q.sample_size = plan.sample_size /\ plan.sample_size \in Nat \ {0} /\ plan.sample_size >= n
  BY <1>1 DEF per_group, with_max_buckets, IsPlan
<1>4. Len(subset) = n /\ T = U /\ subset = only(ids, T) /\ s = stable_sort(x, less)
  BY <1>1 DEF members, GroupOfSlots, Size, Sample, sorted_sample
<1>5. ids \in Seq(1 .. m) /\ Len(ids) = m /\ ToSet(ids) = 1 .. m /\ \A i \in 1 .. m : ids[i] = i
  BY <1>1 DEF ToSet
<1> HIDE DEF n, q, s, ids, T, U
<1>6. Len(s) = n /\ min(n, q.sample_size) = n
  BY <1>2, <1>3 DEF min
<1>7. indices = [j \in 1 .. n |-> j]
  BY <1>6 DEF sample_indices
<1> HIDE DEF subset
<1>8. /\ subset \in Seq(1 .. m) /\ ToSet(subset) = ToSet(ids) \cap T
      /\ n = Cardinality({i \in 1 .. m : ids[i] \in T})
  <2> DEFINE X == 1 .. m
  <2>1. ids \in Seq(X)
    BY <1>5
  <2> HIDE DEF X
  <2>2. only(ids, T) \in Seq(X)
    BY <2>1, OnlyPlaces
  <2>3. /\ ToSet(only(ids, T)) = ToSet(ids) \cap T
        /\ Len(only(ids, T)) = Cardinality({i \in 1 .. Len(ids) : ids[i] \in T})
    BY <2>1, OnlyElements
  <2> QED
    BY <1>4, <1>5, <2>2, <2>3 DEF X
<1>9. ToSet(subset) = U /\ Cardinality(U) = n
  <2>1. U \subseteq 1 .. m
    BY DEF U, GroupOfSlots
  <2>2. {i \in 1 .. m : ids[i] \in T} = U
    BY <1>4, <1>5, <2>1
  <2>3. Cardinality(U) = n
    BY <1>8, <2>2
  <2>4. ToSet(subset) = U
    BY <1>4, <1>5, <1>8, <2>1
  <2> QED
    BY <2>3, <2>4
<1>10. x = subset
  <2>1. DOMAIN subset = 1 .. n /\ subset = [j \in 1 .. n |-> subset[j]]
    <3>1. subset \in [1 .. Len(subset) -> 1 .. m]
      BY <1>8
    <3> QED
      BY <1>4, <3>1
  <2>2. x = [j \in 1 .. n |-> subset[j]]
    BY <1>7
  <2> QED
    BY <2>1, <2>2
<1> HIDE DEF x
<1>11. ToSet(s) = U
  BY <1>4, <1>8, <1>9, <1>10, SortRearranges DEF Rearranges
<1>12. s \in [1 .. n -> U]
  <2>1. s \in Seq(U)
    BY <1>2 DEF SampleOf, U
  <2> QED
    BY <1>6, <2>1
<1>13. \A i \in U : \E p \in 1 .. n : s[p] = i
  BY <1>11, <1>12 DEF ToSet
<1>14. s \in Surjection(1 .. n, U)
  BY <1>12, <1>13 DEF Surjection
<1>15. IsFiniteSet(1 .. n) /\ Cardinality(1 .. n) = Cardinality(U)
  BY <1>2, <1>9, CountUpTo
<1>16. s \in Injection(1 .. n, U)
  <2> DEFINE P == 1 .. n
  <2> HIDE DEF P
  <2>1. s \in Surjection(P, U) /\ IsFiniteSet(P) /\ Cardinality(P) = Cardinality(U)
    BY <1>14, <1>15 DEF P
  <2>2. s \in Injection(P, U)
    BY <2>1, FS_SurjSameCardinalityImpliesInj
  <2> QED
    BY <2>2 DEF P
<1>17. \A a, b \in 1 .. n : s[a] = s[b] => a = b
  BY <1>12, <1>16 DEF Injection, IsInjective
<1> QED
  BY <1>6, <1>13, <1>17 DEF n, s, U

\* A bucket has an element, and as many as expected when all of them were sampled.
LEMMA BucketFilled ==
    ASSUME EInv, k \in Ordering, NEW g \in Groups, Size(g) > 0,
           NEW b \in DOMAIN layouts[g].expected
    PROVE  /\ Bucket(g, placed(g), b) # {}
           /\ plan.sample_size >= Size(g) =>
                 layouts[g].expected[b] = Cardinality(Bucket(g, placed(g), b))
<1> DEFINE n == Size(g)
           t == Sample(g)
           s == Len(t)
           c == Cuts(g)
           e == Bounds(c, s)
           U == GroupOfSlots(k, vals, g)
           K == Bucket(g, placed(g), b)
           x == e[b + 1] - e[b]
           in(i) == bucket_of(k, points(g), vals[i], key(k, vals[i]))
<1>1. /\ n \in Nat \ {0} /\ s \in Nat \ {0} /\ SampleOf(t, k, vals, g)
      /\ Increasing(c, s - 1)
      /\ \A p \in ToSet(c) : compare(k, vals[t[p]], vals[t[p + 1]]) < 0
      /\ Resolves(points(g), SplitPoints(k, keys(vals), t, c), vals)
      /\ layouts[g].expected = expected_sizes(c, s, n)
  BY GroupSplit
<1>2. Keyed(k, vals, keys(vals)) /\ DOMAIN vals = 1 .. Len(vals) /\ vals \in Seq(Value)
  BY ValuesKeyed DEF EInv
<1>3. K = {i \in U : in(i) = b}
  <2>1. \A i \in DOMAIN vals : placed(g)[vals[i]] = in(i)
    BY <1>2 DEF placed
  <2>2. U = {i \in DOMAIN vals : group(k, vals[i]) = g}
    BY <1>2 DEF GroupOfSlots
  <2> HIDE DEF in
  <2> QED
    BY <2>1, <2>2 DEF Bucket
<1> HIDE DEF n, t, c, U, K
<1>4. Len(c) \in Nat /\ \A i \in 1 .. Len(c) + 1 : e[i] \in 0 .. s - 1 /\ e[i + 1] \in 1 .. s /\ e[i] < e[i + 1]
  <2> HIDE DEF s
  <2> QED
    BY <1>1, BoundsAscend
<1>5. /\ b \in 1 .. Len(c) + 1
      /\ layouts[g].expected[b] = (x * n + s \div 2) \div s
  BY <1>1 DEF expected_sizes, Bounds
<1>6. \A j \in 1 .. s : in(t[j]) = b <=> e[b] < j /\ j <= e[b + 1]
  <2> SUFFICES ASSUME NEW j \in 1 .. s
               PROVE  in(t[j]) = b <=> e[b] < j /\ j <= e[b + 1]
    OBVIOUS
  <2>1. Len(t) # 0 /\ b \in 1 .. Len(c) + 1 /\ j \in 1 .. Len(t)
    BY <1>1, <1>5
  <2>2. /\ SampleOf(t, k, vals, g) /\ Increasing(c, Len(t) - 1)
        /\ \A p \in ToSet(c) : compare(k, vals[t[p]], vals[t[p + 1]]) < 0
        /\ Resolves(points(g), SplitPoints(k, keys(vals), t, c), vals)
    BY <1>1
  <2> DEFINE ks == keys(vals)
             ps == points(g)
  <2>3. k \in Ordering /\ Keyed(k, vals, ks) /\ Resolves(ps, SplitPoints(k, ks, t, c), vals)
    BY <1>2, <2>2
  <2> HIDE DEF s, e, in, ks, ps
  <2>4. bucket_of(k, ps, vals[t[j]], key(k, vals[t[j]])) = b <=>
            Bounds(c, Len(t))[b] < j /\ j <= Bounds(c, Len(t))[b + 1]
    BY <2>1, <2>2, <2>3, SampleBuckets
  <2> QED
    BY <2>4 DEF s, e, in, ps
<1>7. \A j \in 1 .. s : t[j] \in U
  BY <1>1 DEF SampleOf, U
<1> HIDE DEF e, s, in, x
<1>8. /\ e[b] \in Nat /\ e[b + 1] \in Nat /\ e[b] < e[b + 1] /\ e[b + 1] <= s
      /\ x = e[b + 1] - e[b] /\ x \in Nat
  BY <1>1, <1>4, <1>5 DEF x
<1>9. \A j \in e[b] + 1 .. e[b + 1] : t[j] \in K
  <2> SUFFICES ASSUME NEW j \in e[b] + 1 .. e[b + 1]
               PROVE  t[j] \in K
    OBVIOUS
  <2>1. j \in 1 .. s /\ e[b] < j /\ j <= e[b + 1]
    BY <1>1, <1>8
  <2> QED
    BY <1>3, <1>6, <1>7, <2>1
<1>10. K # {}
  <2>1. e[b] + 1 \in e[b] + 1 .. e[b + 1]
    BY <1>8
  <2> QED
    BY <1>9, <2>1
<1>11. ASSUME plan.sample_size >= n
       PROVE  layouts[g].expected[b] = Cardinality(K)
  <2>1. /\ s = n
        /\ \A p, q \in 1 .. n : t[p] = t[q] => p = q
        /\ \A i \in U : \E p \in 1 .. n : t[p] = i
    BY <1>11, SampleWhole DEF n, s, t, U
  <2>2. layouts[g].expected[b] = x
    BY <1>1, <1>5, <1>8, <2>1, WholeShares
  <2> DEFINE f == [p \in 1 .. x |-> t[e[b] + p]]
  <2>3. ASSUME NEW p \in 1 .. x
        PROVE  e[b] + p \in e[b] + 1 .. e[b + 1] /\ e[b] + p \in 1 .. n
    <3> DEFINE lo == e[b]
               hi == e[b + 1]
    <3>1. lo \in Nat /\ hi \in Nat /\ hi <= n /\ x = hi - lo /\ n \in Nat
      BY <1>1, <1>8, <2>1
    <3> HIDE DEF lo, hi
    <3>2. lo + p \in lo + 1 .. hi /\ lo + p \in 1 .. n
      BY <3>1
    <3> QED
      BY <3>2 DEF lo, hi
  <2>4. f \in [1 .. x -> K]
    BY <1>9, <2>3
  <2>5. \A p, q \in 1 .. x : f[p] = f[q] => p = q
    <3> SUFFICES ASSUME NEW p \in 1 .. x, NEW q \in 1 .. x, f[p] = f[q]
                 PROVE  p = q
      OBVIOUS
    <3>1. t[e[b] + p] = t[e[b] + q]
      OBVIOUS
    <3>2. e[b] + p = e[b] + q
      BY <2>1, <2>3, <3>1
    <3> QED
      BY <1>8, <3>2
  <2>6. \A i \in K : \E p \in 1 .. x : f[p] = i
    <3> SUFFICES ASSUME NEW i \in K
                 PROVE  \E p \in 1 .. x : f[p] = i
      OBVIOUS
    <3>1. i \in U /\ in(i) = b
      BY <1>3
    <3>2. PICK j \in 1 .. n : t[j] = i
      BY <2>1, <3>1
    <3>3. e[b] < j /\ j <= e[b + 1]
      BY <1>6, <2>1, <3>1, <3>2
    <3> DEFINE p == j - e[b]
    <3>4. p \in 1 .. x /\ e[b] + p = j
      BY <1>1, <1>8, <3>3
    <3>5. f[p] = i
      BY <3>2, <3>4
    <3> QED
      BY <3>4, <3>5
  <2> HIDE DEF f
  <2>7. Cardinality(K) = x
    BY <1>8, <2>4, <2>5, <2>6, CountByList
  <2> QED
    BY <2>2, <2>7
<1> QED
  BY <1>10, <1>11 DEF n, K

\* BucketLayout: when the sort keys order the values, no bucket is empty the moment
\* a layout is estimated, whatever the plan and the sample; and when the sample is the
\* whole group, expected_sizes is the exact number of elements in each bucket.
THEOREM ExpectedStaysExact ==
    ASSUME Name \subseteq Ordering
    PROVE  Spec => []ExpectedMatchesData
<1>1. ASSUME EInv
      PROVE  ExpectedMatchesData
  <2>1. k \in Ordering
    BY <1>1 DEF EInv
  <2> QED
    BY <1>1, <2>1, BucketFilled DEF ExpectedMatchesData
<1>2. EInv => ExpectedMatchesData
  BY <1>1
<1> QED
  BY EstimationInvariance, <1>2, PTL

\* Where nothing ties, every desired position is taken.
LEMMA DesiredTaken ==
    ASSUME NEW desired, IsSequence(desired), NEW s \in Nat \ {0}, NEW from, NEW to,
           \A j \in 1 .. Len(desired) : desired[j] \in 1 .. s - 1,
           \A i, j \in 1 .. Len(desired) : i < j => desired[i] < desired[j],
           \A q \in 1 .. s - 1 : from[q] = q /\ to[q] = q + 1
    PROVE  /\ Len(choose_split_positions(desired, s, from, to)) = Len(desired)
           /\ \A j \in 1 .. Len(desired) :
                 choose_split_positions(desired, s, from, to)[j] = desired[j]
<1> DEFINE m == Len(desired)
           P == 1 .. s - 1
<1>1. m \in Nat
  BY DEF IsSequence
<1>2. PICK f : /\ ChosenRounds(f, desired, s, from, to)
               /\ choose_split_positions(desired, s, from, to) = f[m]
  BY ChoosingRounds
<1> DEFINE S == {i \in 0 .. m : /\ f[i] \in Seq(P) /\ Len(f[i]) = i
                                /\ \A j \in 1 .. i : f[i][j] = desired[j]}
<1>3. 0 \in S
  <2>1. f[0] = << >>
    BY <1>2 DEF ChosenRounds
  <2>2. f[0] \in Seq(P) /\ Len(f[0]) = 0
    BY <2>1
  <2> HIDE DEF P, m
  <2>3. 0 \in 0 .. m /\ 1 .. 0 = {}
    BY <1>1
  <2> QED
    BY <2>2, <2>3
<1>4. ASSUME NEW i \in 1 .. m, i - 1 \in S
      PROVE  i \in S
  <2> DEFINE out == f[i - 1]
             q == desired[i]
             p == Prior(out)
  <2>1. out \in Seq(P) /\ Len(out) = i - 1 /\ \A j \in 1 .. i - 1 : out[j] = desired[j]
    BY <1>4
  <2>2. f[i] = Chosen(out, q, s, from, to)
    BY <1>2 DEF ChosenRounds
  <2>3. q \in 1 .. s - 1
    OBVIOUS
  <2> HIDE DEF S, out
  <2>4. p \in Nat /\ p < q
    <3>1. CASE out = << >>
      BY <2>3, <3>1 DEF Prior
    <3>2. CASE out # << >>
      <4>1. i - 1 \in 1 .. i - 1 /\ i - 1 \in 1 .. m /\ i - 1 < i
        <5>1. Len(out) # 0
          BY <2>1, <3>2
        <5> HIDE DEF m, P
        <5> QED
          BY <1>1, <2>1, <5>1
      <4>2. p = out[i - 1]
        BY <2>1, <3>2 DEF Prior, Last
      <4>3. p = desired[i - 1]
        BY <2>1, <4>1, <4>2
      <4> QED
        BY <2>3, <4>1, <4>3
    <3> QED
      BY <3>1, <3>2
  <2>5. from[q] = q /\ to[q] = q + 1
    BY <2>3
  <2> HIDE DEF p, q, P, m
  <2>6. Choice(p, q, s, from, to) = q
    BY <2>3, <2>4, <2>5 DEF Choice, wrapped_less
  <2>7. f[i] = Append(out, q)
    BY <2>2, <2>3, <2>6 DEF Chosen, p
  <2>8. f[i] \in Seq(P) /\ Len(f[i]) = i /\ f[i][i] = q /\ \A j \in 1 .. i - 1 : f[i][j] = out[j]
    <3>1. q \in P
      BY <2>3 DEF P
    <3>2. Len(out) = i - 1 /\ i \in Nat
      BY <1>1, <2>1
    <3> QED
      BY <2>1, <2>7, <3>1, <3>2
  <2>9. \A j \in 1 .. i : f[i][j] = desired[j]
    <3>1. \A j \in 1 .. i : j = i \/ j \in 1 .. i - 1
      BY <1>1
    <3> QED
      BY <2>1, <2>8, <3>1 DEF q
  <2>10. i \in 0 .. m
    BY <1>1
  <2> QED
    BY <2>8, <2>9, <2>10 DEF S
<1> HIDE DEF S, P, m
<1>5. m \in S
  <2>1. 0 .. m \subseteq S
    BY <1>1, <1>3, <1>4, SetInduction
  <2> QED
    BY <1>1, <2>1
<1> QED
  BY <1>2, <1>5 DEF S, m

\* No element of the collection ties with another.
Untied == \A i, j \in DOMAIN vals : i # j => compare(k, vals[i], vals[j]) # 0

\* Then the sample of a whole group is in strict order.
LEMMA UntiedSample ==
    ASSUME EInv, k \in Ordering, NEW g \in Groups, Size(g) > 0, plan.sample_size >= Size(g), Untied
    PROVE  \A i, j \in 1 .. Size(g) :
               <<Sample(g)[i], Sample(g)[j]>> \in sample_order(k, vals, keys(vals)) <=> i < j
<1> DEFINE n == Size(g)
           s == Sample(g)
           U == GroupOfSlots(k, vals, g)
           C(i, j) == compare(k, vals[s[i]], vals[s[j]])
           less == sample_order(k, vals, keys(vals))
<1>1. n \in Nat \ {0} /\ SampleOf(s, k, vals, g)
  BY GroupSplit
<1>2. Len(s) = n /\ \A p, q \in 1 .. n : s[p] = s[q] => p = q
  BY SampleWhole
<1>3. Keyed(k, vals, keys(vals)) /\ k \in Name /\ DOMAIN vals = 1 .. Len(vals)
  BY ValuesKeyed DEF EInv
<1> HIDE DEF n, s
<1>4. \A i \in 1 .. n : s[i] \in U /\ s[i] \in DOMAIN vals /\ vals[s[i]] \in Members(k, g)
  <2>1. \A i \in 1 .. n : s[i] \in U
    BY <1>1, <1>2 DEF SampleOf
  <2> QED
    BY <1>3, <2>1 DEF GroupOfSlots, Keyed, Members
<1>5. ASSUME NEW i \in 1 .. n, NEW j \in 1 .. n
      PROVE  <<s[i], s[j]>> \in less <=> i < j
  <2>1. <<s[i], s[j]>> \in less <=> C(i, j) < 0
    BY <1>3, <1>4, SampleOrder
  <2>2. C(i, j) = 0 - C(j, i) /\ C(i, j) \in {-1, 0, 1} /\ C(j, i) \in {-1, 0, 1}
    BY <1>4, GroupOrder
  <2>3. (i < j => C(i, j) <= 0) /\ (j < i => C(j, i) <= 0)
    BY <1>1, <1>2 DEF SampleOf
  <2>4. i # j => C(i, j) # 0
    BY <1>2, <1>4 DEF Untied
  <2>5. i = j => C(i, j) = C(j, i)
    OBVIOUS
  <2> HIDE DEF C
  <2>6. CASE i < j
    BY <2>1, <2>2, <2>3, <2>4, <2>6
  <2>7. CASE j < i
    BY <2>1, <2>2, <2>3, <2>4, <2>7
  <2>8. CASE i = j
    BY <2>1, <2>2, <2>5, <2>8
  <2> QED
    BY <2>6, <2>7, <2>8
<1> QED
  BY <1>5 DEF n, s

\* It is split at the sums of the targets.
LEMMA UntiedCuts ==
    ASSUME EInv, k \in Ordering, NEW g \in Groups, Size(g) > 0, plan.sample_size >= Size(g), Untied,
           NEW f, Sums(f, Targets(g), Size(g)),
           desired_positions(Targets(g), Size(g), Size(g)) =
               [j \in 1 .. Len(Targets(g)) - 1 |-> (f[j] * Size(g)) \div Size(g)]
    PROVE  /\ Len(Cuts(g)) = Len(Targets(g)) - 1
           /\ \A j \in 1 .. Len(Targets(g)) - 1 : Cuts(g)[j] = f[j]
<1> DEFINE n == Size(g)
           t == Targets(g)
           s == Sample(g)
           c == Cuts(g)
           l == Len(t)
           m == l - 1
           less == sample_order(k, vals, keys(vals))
           U == GroupOfSlots(k, vals, g)
           desired == desired_positions(t, n, n)
           from == Starts(s, less)
           to == Ends(s, less)
<1>1. /\ n \in Nat \ {0} /\ SampleOf(s, k, vals, g) /\ NotInverted(s, less) /\ Weak(less, U)
      /\ Partition(t, per_group(k, plan).max_buckets, n)
  BY GroupSplit
<1>2. Len(s) = n
  BY SampleWhole
<1>3. \A i, j \in 1 .. n : <<s[i], s[j]>> \in less <=> i < j
  BY UntiedSample
<1>4. c = IF Len(t) <= 1 THEN << >>
          ELSE choose_split_positions(desired, n, from, to)
  BY <1>2 DEF Cuts, split_positions, Starts, Ends
<1>5. l \in Nat \ {0}
  BY <1>1 DEF Partition
<1>6. s \in Seq(U)
  BY <1>1 DEF SampleOf
<1>7. Sums(f, t, n) /\ desired = [j \in 1 .. m |-> (f[j] * n) \div n]
  OBVIOUS
<1> HIDE DEF n, t, s, c, less, U, desired
<1>8. ASSUME NEW q \in 1 .. n - 1
      PROVE  from[q] = q /\ to[q] = q + 1
  <2> DEFINE a == from[q]
             b == to[q]
  <2>1. q \in 0 .. Len(s) - 1 /\ q \in 1 .. n /\ q + 1 \in 1 .. n
    BY <1>1, <1>2
  <2>2. /\ a \in 0 .. q /\ b \in q + 1 .. n
        /\ \A i \in 1 .. n : <<s[i], s[q + 1]>> \notin less <=> i > a
        /\ \A i \in 1 .. n : <<s[q + 1], s[i]>> \in less <=> i > b
    BY <1>1, <1>2, <1>6, <2>1, RunFound
  <2> HIDE DEF a, b
  <2>3. ~ (q > a)
    <3>1. q < q + 1
      BY <2>1
    <3>2. <<s[q], s[q + 1]>> \in less
      BY <1>3, <2>1, <3>1
    <3> QED
      BY <2>1, <2>2, <3>2
  <2>4. ~ (b > q + 1)
    <3> SUFFICES ASSUME b > q + 1
                 PROVE  FALSE
      OBVIOUS
    <3>1. b \in 1 .. n
      BY <1>1, <2>1, <2>2
    <3>2. <<s[q + 1], s[b]>> \in less
      BY <1>3, <2>1, <3>1
    <3>3. b > b
      BY <2>2, <3>1, <3>2
    <3> QED
      BY <1>1, <3>1, <3>3
  <2>5. a = q /\ b = q + 1
    BY <1>1, <2>1, <2>2, <2>3, <2>4
  <2> QED
    BY <2>5 DEF a, b
<1> HIDE DEF from, to, l
<1>9. ASSUME NEW j \in 1 .. m
      PROVE  desired[j] = f[j] /\ f[j] \in 1 .. n - 1
  <2>1. j \in 0 .. l /\ 0 \in 0 .. l /\ l \in 0 .. l /\ 0 < j /\ j < l
    BY <1>5
  <2>2. f[0] = 0 /\ f[l] = n /\ f[j] \in Nat /\ f[0] < f[j] /\ f[j] < f[l]
    BY <1>7, <2>1 DEF Sums, l
  <2>3. desired[j] = (f[j] * n) \div n
    BY <1>7
  <2> DEFINE x == f[j]
             y == x * n
             r == y \div n
  <2>4. x \in Nat /\ x \in 1 .. n - 1
    BY <1>1, <2>2
  <2> HIDE DEF x
  <2>5. y \in Nat /\ y = n * x
    BY <1>1, <2>4
  <2> HIDE DEF y
  <2>6. r \in Nat /\ n * r <= y /\ y < n * r + n
    BY <1>1, <2>5, Quotient
  <2> HIDE DEF r
  <2>7. ~ (r >= x + 1)
    <3> SUFFICES ASSUME r >= x + 1
                 PROVE  FALSE
      OBVIOUS
    <3>1. n * r >= n * (x + 1) /\ n * (x + 1) = n * x + n
      BY <1>1, <2>4, <2>6
    <3> QED
      BY <1>1, <2>4, <2>5, <2>6, <3>1
  <2>8. ~ (r + 1 <= x)
    <3> SUFFICES ASSUME r + 1 <= x
                 PROVE  FALSE
      OBVIOUS
    <3>1. n * (r + 1) <= n * x /\ n * (r + 1) = n * r + n
      BY <1>1, <2>4, <2>6
    <3> QED
      BY <1>1, <2>4, <2>5, <2>6, <3>1
  <2>9. r = x
    BY <2>4, <2>6, <2>7, <2>8
  <2> QED
    BY <2>3, <2>4, <2>9 DEF x, y, r
<1>10. CASE Len(t) <= 1
  <2>1. c = << >>
    BY <1>4, <1>10
  <2>2. l = 1
    <3>1. l <= 1
      BY <1>10 DEF l
    <3> QED
      BY <1>5, <3>1
  <2>3. m = 0
    BY <2>2
  <2>4. Len(c) = m /\ \A j \in 1 .. m : c[j] = f[j]
    BY <2>1, <2>3
  <2> QED
    BY <2>4 DEF c, l, m, t
<1>11. CASE ~ (Len(t) <= 1)
  <2>1. c = choose_split_positions(desired, n, from, to)
    BY <1>4, <1>11
  <2>2. m \in Nat
    BY <1>5
  <2>3. IsSequence(desired) /\ Len(desired) = m
    <3> HIDE DEF m
    <3> QED
      BY <1>7, <2>2 DEF IsSequence
  <2>4. \A j \in 1 .. m : desired[j] \in 1 .. n - 1
    BY <1>9
  <2>5. \A i, j \in 1 .. m : i < j => desired[i] < desired[j]
    <3> SUFFICES ASSUME NEW i \in 1 .. m, NEW j \in 1 .. m, i < j
                 PROVE  desired[i] < desired[j]
      OBVIOUS
    <3>1. i \in 0 .. l /\ j \in 0 .. l
      BY <1>5
    <3>2. f[i] < f[j]
      BY <1>7, <3>1 DEF Sums, l
    <3> QED
      BY <1>9, <3>2
  <2> HIDE DEF m
  <2>6. /\ \A j \in 1 .. Len(desired) : desired[j] \in 1 .. n - 1
        /\ \A i, j \in 1 .. Len(desired) : i < j => desired[i] < desired[j]
    BY <2>3, <2>4, <2>5
  <2> DEFINE r == choose_split_positions(desired, n, from, to)
  <2>7. Len(r) = Len(desired) /\ \A j \in 1 .. Len(desired) : r[j] = desired[j]
    <3>1. \A q \in 1 .. n - 1 : from[q] = q /\ to[q] = q + 1
      BY <1>8
    <3>2. IsSequence(desired) /\ n \in Nat \ {0}
      BY <1>1, <2>3
    <3> QED
      BY <2>6, <3>1, <3>2, DesiredTaken
  <2> HIDE DEF r
  <2>8. Len(c) = m /\ \A j \in 1 .. m : c[j] = f[j]
    BY <1>9, <2>1, <2>3, <2>7 DEF r
  <2> QED
    BY <2>8 DEF c, l, m, t
<1> QED
  BY <1>10, <1>11

\* So every bucket is as large as its target.
LEMMA TargetsMet ==
    ASSUME EInv, k \in Ordering, NEW g \in Groups, Size(g) > 0, plan.sample_size >= Size(g), Untied
    PROVE  layouts[g].expected = Targets(g)
<1> DEFINE n == Size(g)
           t == Targets(g)
           c == Cuts(g)
           l == Len(t)
           e == Bounds(c, n)
           share(i) == ((e[i + 1] - e[i]) * n + n \div 2) \div n
<1>1. /\ n \in Nat \ {0} /\ Increasing(c, Len(Sample(g)) - 1)
      /\ Partition(t, per_group(k, plan).max_buckets, n)
      /\ layouts[g].expected = expected_sizes(c, Len(Sample(g)), n)
  BY GroupSplit
<1>2. Len(Sample(g)) = n
  BY SampleWhole
<1> HIDE DEF n, t
<1>3. PICK f : Sums(f, t, n) /\ desired_positions(t, n, n) = [j \in 1 .. l - 1 |-> (f[j] * n) \div n]
  <2> DEFINE m == per_group(k, plan).max_buckets
  <2>1. n \in Nat \ {0} /\ Partition(t, m, n)
    BY <1>1
  <2> HIDE DEF m
  <2> QED
    BY <2>1, DesiredSums
<1>4. Len(c) = l - 1 /\ \A j \in 1 .. l - 1 : c[j] = f[j]
  <2>1. /\ Sums(f, Targets(g), Size(g))
        /\ desired_positions(Targets(g), Size(g), Size(g)) =
               [j \in 1 .. Len(Targets(g)) - 1 |-> (f[j] * Size(g)) \div Size(g)]
    BY <1>3 DEF n, t
  <2>2. /\ Len(Cuts(g)) = Len(Targets(g)) - 1
        /\ \A j \in 1 .. Len(Targets(g)) - 1 : Cuts(g)[j] = f[j]
    BY <2>1, UntiedCuts
  <2> QED
    BY <2>2 DEF t
<1>5. l \in Nat \ {0} /\ t \in Seq(Nat)
  BY <1>1 DEF Partition
<1> HIDE DEF c, l
<1>6. layouts[g].expected = [i \in 1 .. l |-> share(i)]
  <2>1. Len(c) + 1 = l
    BY <1>4, <1>5
  <2> QED
    BY <1>1, <1>2, <2>1 DEF expected_sizes, Bounds
<1>7. /\ e[1] = 0 /\ e[l + 1] = n
      /\ \A i \in 1 .. l - 1 : e[i + 1] = c[i]
  <2>1. Increasing(c, n - 1)
    BY <1>1, <1>2
  <2>2. e[1] = 0 /\ e[Len(c) + 2] = n /\ \A i \in 1 .. Len(c) : e[i + 1] = c[i]
    BY <1>1, <2>1, BoundsAscend
  <2>3. Len(c) + 2 = l + 1
    BY <1>4, <1>5
  <2> HIDE DEF e
  <2> QED
    BY <1>4, <2>2, <2>3
<1> HIDE DEF e
<1>8. \A i \in 0 .. l : e[i + 1] = f[i]
  <2> SUFFICES ASSUME NEW i \in 0 .. l
               PROVE  e[i + 1] = f[i]
    OBVIOUS
  <2>1. i = 0 \/ i = l \/ i \in 1 .. l - 1
    BY <1>5
  <2>2. f[0] = 0 /\ f[l] = n
    BY <1>3 DEF Sums, l
  <2> QED
    BY <1>4, <1>5, <1>7, <2>1, <2>2
<1>9. ASSUME NEW i \in 1 .. l
      PROVE  share(i) = t[i]
  <2> DEFINE h == i - 1
             x == e[i + 1] - e[i]
  <2>1. h \in 0 .. l /\ i \in 0 .. l /\ h + 1 = i
    BY <1>5
  <2>2. e[i + 1] = f[i] /\ e[i] = f[h]
    BY <1>8, <2>1
  <2>3. f[i] = f[h] + t[i] /\ f[h] \in Nat
    BY <1>3, <2>1 DEF Sums, l
  <2>4. t[i] \in Nat
    BY <1>5 DEF l
  <2> HIDE DEF h
  <2>5. x = t[i]
    BY <2>2, <2>3, <2>4
  <2> HIDE DEF x
  <2>6. (x * n + n \div 2) \div n = x
    BY <1>1, <2>4, <2>5, WholeShares
  <2> QED
    BY <2>5, <2>6 DEF x
<1>10. t = [i \in 1 .. l |-> t[i]]
  BY <1>5 DEF l
<1> HIDE DEF share
<1>11. [i \in 1 .. l |-> share(i)] = [i \in 1 .. l |-> t[i]]
  BY <1>9
<1> QED
  BY <1>6, <1>10, <1>11 DEF t

\* BucketLayout: when the sort keys order the values, no two elements tie and the whole
\* group is sampled, every bucket gets exactly the size the plan asked for, however many
\* normalized keys collide.
THEOREM DistinctStayOnTarget ==
    ASSUME Name \subseteq Ordering
    PROVE  Spec => []DistinctMeetTargets
<1>1. ASSUME EInv
      PROVE  DistinctMeetTargets
  <2>1. k \in Ordering
    BY <1>1 DEF EInv
  <2>2. ASSUME NEW g \in Groups, Size(g) > 0, plan.sample_size >= Size(g), Untied
        PROVE  layouts[g].expected = target_sizes(per_group(k, plan), Size(g))
    BY <1>1, <2>1, <2>2, TargetsMet DEF Targets
  <2> QED
    BY <2>2 DEF DistinctMeetTargets, Untied
<1>2. EInv => DistinctMeetTargets
  BY <1>1
<1> QED
  BY EstimationInvariance, <1>2, PTL
=============================================================================
