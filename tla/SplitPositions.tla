--------------------------- MODULE SplitPositions ---------------------------
(***************************************************************************)
(* The first half of BucketLayout::estimate on its own: the sample of a    *)
(* growing collection is drawn and sorted, and the plan's target sizes     *)
(* become split positions in it.  LayoutEstimation adds the second half,   *)
(* which is not defined for every comparator that is no order.             *)
(***************************************************************************)
EXTENDS BucketLayout

CONSTANTS
    Plan,     \* the plans considered
    MaxItems  \* bound on the length of the collection

\* Factories and with_max_buckets keep the buckets of a plan below the limit.
ASSUME SplitPositionsAssumption ==
    /\ MaxItems \in Nat
    /\ \A p \in Plan : IsPlan(p) /\ p.max_buckets <= BucketLimit /\ Draws(p, MaxItems)

VARIABLES
    k,         \* the sort key
    plan,      \* the plan
    vals,      \* the values of the elements, in insertion order
    sorted,    \* the sorted sample of every group: slots
    positions  \* the chosen split positions of every group

split_vars == <<k, plan, vals, sorted, positions>>

Groups == 1 .. GroupCount[k]

keys(vs) == [i \in DOMAIN vs |-> key(k, vs[i])]

\* What estimate computes for the elements vs before it reads the split elements.
samples(vs) == [g \in Groups |-> sorted_sample(k, vs, keys(vs), plan, g)]

chosen(vs, smp) ==
    [g \in Groups |->
        LET n == Len(members(k, vs, g))
            targets == target_sizes(per_group(k, plan), n)
        IN  IF Len(targets) <= 1 THEN << >>
            ELSE split_positions(k, vs, keys(vs), smp[g], targets, n)]

Empty ==
    /\ k \in Name
    /\ vals = << >>
    /\ sorted = [g \in Groups |-> << >>]
    /\ positions = [g \in Groups |-> << >>]

SplitInit == Empty /\ plan \in Plan

SplitGrow ==
    /\ Len(vals) < MaxItems
    /\ \E v \in Value : vals' = Append(vals, v)
    /\ sorted' = samples(vals')
    /\ positions' = chosen(vals', sorted')
    /\ UNCHANGED <<k, plan>>

SplitSpec == SplitInit /\ [][SplitGrow]_split_vars
-----------------------------------------------------------------------------
\* choose_split_positions: positions are strictly increasing and inside the
\* sample, so that estimate may read the sampled elements on both sides.
PositionsInsideSample ==
    \A g \in Groups :
        /\ \A i \in DOMAIN positions[g] : positions[g][i] \in 1 .. Len(sorted[g]) - 1
        /\ \A i \in 2 .. Len(positions[g]) : positions[g][i - 1] < positions[g][i]

\* choose_split_positions: a split never falls inside a run of equal elements,
\* and whenever the run a desired position falls into has a start or an end
\* inside the sample, there is a split at one of the two.
SplitsBetweenRuns ==
    \A g \in Groups :
        LET s == sorted[g]
            n == Len(members(k, vals, g))
            less(i, j) == sample_less(k, vals, keys(vals), s[i], s[j])
            cuts == ToSet(positions[g])
            run(q) == {i \in DOMAIN s : ~ less(i, q + 1) /\ ~ less(q + 1, i)}
            edges(q) == {Min(run(q)) - 1, Max(run(q))} \cap 1 .. Len(s) - 1
        IN  /\ \A p \in cuts : less(p, p + 1)
            /\ n > 0 => \A q \in ToSet(desired_positions(target_sizes(per_group(k, plan), n), Len(s), n)) :
                  edges(q) # {} => edges(q) \cap cuts # {}
=============================================================================
