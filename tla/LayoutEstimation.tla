-------------------------- MODULE LayoutEstimation --------------------------
(***************************************************************************)
(* Plans and layouts checked on their own: a caller builds a plan, and a   *)
(* collection under one sort key grows element by element; after every     *)
(* addition the layout of every group is estimated again, as relayout      *)
(* does.  Of the plans that can be built, those in Plan are put to use.    *)
(***************************************************************************)
EXTENDS SplitPositions

CONSTANTS
    Word, Ulp, default_page_size, default_max_buckets, max_sample_size,  \* of PlanBuilding
    PageSizes, Growths, BucketCounts, SizeLists, SampleSizes, Seeds, Skews, MaxElements

ASSUME LayoutEstimationAssumption ==
    /\ Word \in Nat \ {0} /\ Ulp \in Nat \ {0}
    /\ default_page_size \in Nat \ {0} /\ default_max_buckets \in Nat \ {0}
    /\ max_sample_size \in Nat \ {0} /\ MaxElements \in Nat
    /\ PageSizes \subseteq Nat /\ BucketCounts \subseteq Nat /\ SampleSizes \subseteq Nat
    /\ Seeds \subseteq Nat /\ SizeLists \subseteq Seq(Nat)
    /\ Growths \subseteq Nat \X (Nat \ {0}) /\ Skews \subseteq Nat \X (Nat \ {0})

VARIABLE layouts  \* the estimated layout of every group

vars == <<k, plan, vals, sorted, positions, layouts>>

Builder == INSTANCE PlanBuilding WITH max_bucket_limit <- BucketLimit

estimate_all(name, vs, p) == estimate_layouts(name, vs, keys(vs), p)

Init == Empty /\ Builder!Init /\ layouts = estimate_all(k, vals, plan)

Build == vals = << >> /\ Builder!Build /\ UNCHANGED <<k, vals, sorted, positions, layouts>>

Grow == plan \in Plan /\ SplitGrow /\ layouts' = estimate_all(k, vals', plan)

Spec == Init /\ [][Build \/ Grow]_vars
-----------------------------------------------------------------------------
\* The split points of group g with their elements resolved.
points(g) ==
    [i \in DOMAIN layouts[g].splits |->
        [key  |-> layouts[g].splits[i].key,
         elem |-> IF layouts[g].splits[i].pos = no_element THEN NoValue
                  ELSE vals[layouts[g].splits[i].pos]]]

\* The bucket of group g every value would be put into.
placed(g) ==
    LET splits == points(g) IN [v \in Value |-> bucket_of(k, splits, v, key(k, v))]

Size(g) == Len(members(k, vals, g))

\* The members of group g the placement puts into bucket b.
Bucket(g, placement, b) == {i \in DOMAIN vals : group(k, vals[i]) = g /\ placement[vals[i]] = b}

\* Type invariant: what factories and with_... functions accept makes a plan; a
\* layout has one bucket more than split points, a split point stores an element
\* of the collection or none, and the bucket ids of all groups together stay below
\* the limit, although every group is estimated on its own.
TypeOK ==
    /\ IsPlan(plan)
    /\ k \in Name /\ (vals # << >> => plan \in Plan)
    /\ vals \in UNION {[1 .. m -> Value] : m \in 0 .. MaxItems}
    /\ \A g \in Groups :
          /\ Len(layouts[g].expected) = Len(layouts[g].splits) + 1
          /\ \A i \in DOMAIN layouts[g].splits :
                layouts[g].splits[i].pos \in {no_element} \cup DOMAIN vals
    /\ total([g \in Groups |-> Len(layouts[g].expected)]) <= BucketLimit

\* BucketPlan::target_sizes: whatever the plan, the targets are positive, add up
\* to n and respect the bucket limit, for every group of the collection and, for
\* every plan a caller can build, for collections far larger.  estimate relies on
\* the last target being positive to keep every desired position inside the sample.
TargetsPartition ==
    /\ \A g \in Groups :
          LET t == target_sizes(per_group(k, plan), Size(g))
          IN  /\ Len(t) \in 1 .. per_group(k, plan).max_buckets
              /\ Size(g) > 0 => \A i \in DOMAIN t : t[i] > 0
              /\ total(t) = Size(g)
    /\ vals = << >> => Builder!BuiltPlansPartition

\* BucketPlan: the first page of either direction is one bucket, for every plan
\* that promises it (PlanBuilding).
EndsOnePageLong == vals = << >> => Builder!EndsOnePageLong

\* BucketLayout: bucket ids follow the exact ascending order of the sort key and
\* elements that compare equal share a bucket, for every element there can be,
\* in the collection or not.
BucketsFollowOrder ==
    \A g \in Groups :
        LET bucket == placed(g)
            puts == {[value |-> v, into |-> bucket[v]] : v \in {x \in Value : group(k, x) = g}}
        IN  \A a, b \in puts :
                /\ compare(k, a.value, b.value) < 0 => a.into <= b.into
                /\ compare(k, a.value, b.value) = 0 => a.into = b.into

\* A layout never has a bucket that is empty the moment it is estimated, and
\* when the sample is the whole group, expected_sizes is not an estimate but
\* the exact number of elements in each bucket.
ExpectedMatchesData ==
    \A g \in Groups : Size(g) > 0 =>
        LET placement == placed(g)
        IN  \A b \in DOMAIN layouts[g].expected :
                /\ Bucket(g, placement, b) # {}
                /\ plan.sample_size >= Size(g) =>
                      layouts[g].expected[b] = Cardinality(Bucket(g, placement, b))

\* Without ties and without sampling, every bucket gets exactly the size the
\* plan asked for: collisions of normalized keys alone never merge buckets.
DistinctMeetTargets ==
    \A g \in Groups :
        ( /\ Size(g) > 0 /\ plan.sample_size >= Size(g)
          /\ \A i, j \in DOMAIN vals : i # j => compare(k, vals[i], vals[j]) # 0 )
        => layouts[g].expected = target_sizes(per_group(k, plan), Size(g))
=============================================================================
