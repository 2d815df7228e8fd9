------------------------- MODULE BucketIndexProofs -------------------------
(***************************************************************************)
(* Proofs about BucketIndex, for every set of elements, values, plans and  *)
(* sort keys its assumptions allow.  The first half uses nothing of what   *)
(* estimate and the sorting compute: what is proved is that the            *)
(* bookkeeping around them never lets a cached key, a cached bucket id or  *)
(* a stored split element fall out of step with the collection.            *)
(*                                                                         *)
(* How a KeyState develops: every call takes the state of a sort key       *)
(* through a few stages.  It may note that a rebalance is not due, be laid *)
(* out anew, group its slots, re-place those that wait, sort buckets, and  *)
(* take over one change of the collection.  StateSteps says so for every   *)
(* call; what holds of a KeyState in every reachable state then only has   *)
(* to be shown for each of these stages.                                   *)
(*                                                                         *)
(* The second half is about the cached groupings: one holds every slot it  *)
(* covers once, each in the segment of its bucket, in every reachable      *)
(* state.  Behind it is one fact: sequences of distinct elements, one per  *)
(* bucket and joined one behind the other, are an arrangement of all their *)
(* elements.  The counting sort, its repair after updates, the filtering   *)
(* of removed slots and the sorting of buckets all make such an order.     *)
(*                                                                         *)
(* The bucket ids themselves follow the exact order of the sort key: the   *)
(* split points of a new layout do (EstimateOrdered), and no element one   *)
(* of them stores changes or leaves without a new layout.                  *)
(***************************************************************************)
EXTENDS BucketIndex, LayoutProofs

-----------------------------------------------------------------------------
(* The invariant of one KeyState over the elements its with values vl      *)

KeysIn(st, its, vl) ==
    \A x \in DOMAIN its : st.keys[x] = key(st.name, vl[its[x]])

BucketsIn(st, its, vl) ==
    \A x \in DOMAIN its : st.buckets[x] = bucket_for(st, vl[its[x]], st.keys[x], vl)

SplittersIn(st, its) ==
    Aliasing => \A g \in DOMAIN st.layouts : \A j \in DOMAIN st.layouts[g].splits :
        \/ st.layouts[g].splits[j].elem = NoValue
        \/ \E x \in st.splitter_slots : st.layouts[g].splits[j].elem = its[x]

\* The grouping knows of every change made since it was built.
FlagsIn(st, its) ==
    /\ st.splitter_changed = FALSE
    /\ st.has_order = FALSE =>
          st.order_stale = FALSE /\ st.moved = {} /\ st.ordered_slots = 0
    /\ st.has_order = TRUE /\ st.order_stale = FALSE =>
          st.moved = {} /\ st.ordered_slots = Len(its)

Consistent(st, its, vl) ==
    /\ KeyStateOK(st, Len(its))
    /\ KeysIn(st, its, vl)
    /\ BucketsIn(st, its, vl)
    /\ SplittersIn(st, its)
    /\ FlagsIn(st, its)

\* A collection of distinct elements with their values.
Collection(its, vl) ==
    /\ its \in Seq(Handle)
    /\ \A x, y \in DOMAIN its : its[x] = its[y] => x = y
    /\ vl \in [ToSet(its) -> Value]
-----------------------------------------------------------------------------
(* What each operation on a KeyState leaves alone                          *)

\* Two KeyStates with the same layouts, and values under which their split
\* points resolve alike, give every element the same bucket.
LEMMA BucketForSame ==
    ASSUME NEW s, NEW t, NEW v, NEW vk, NEW vl, NEW wl,
           s.name = t.name, s.layouts = t.layouts,
           \A g : (IF Len(s.layouts) > 1 THEN g = group(s.name, v) ELSE g = 1)
                     => resolve(s.layouts[g], vl) = resolve(s.layouts[g], wl)
    PROVE  bucket_for(s, v, vk, vl) = bucket_for(t, v, vk, wl)
<1>1. group_offset(s) = group_offset(t)
  BY DEF group_offset
<1> DEFINE g == IF Len(s.layouts) > 1 THEN group(s.name, v) ELSE 1
<1>2. resolve(s.layouts[g], vl) = resolve(t.layouts[g], wl)
  OBVIOUS
<1>3. bucket_for(s, v, vk, vl)
        = group_offset(s)[g] + bucket_of(s.name, resolve(s.layouts[g], vl), v, vk)
  BY DEF bucket_for
<1>4. bucket_for(t, v, vk, wl)
        = group_offset(t)[g] + bucket_of(t.name, resolve(t.layouts[g], wl), v, vk)
  BY DEF bucket_for
<1> QED
  BY <1>1, <1>2, <1>3, <1>4

\* relayout: what the others rely on of its result.
LEMMA RelayoutShape ==
    ASSUME NEW st, NEW its, NEW vl, NEW pl, DOMAIN st = KeyFields, st.name \in Name
    PROVE  LET r == relayout(st, its, vl, pl)
           IN  /\ DOMAIN r = KeyFields
               /\ r.name = st.name /\ r.keys = st.keys
               /\ DOMAIN r.buckets = DOMAIN its
               /\ DOMAIN r.layouts = 1 .. GroupCount[r.name]
               /\ r.churn = 0 /\ r.stale_checked_at = npos
               /\ r.splitter_changed = FALSE /\ r.has_order = FALSE /\ r.order_stale = FALSE
               /\ r.moved = {} /\ r.ordered_slots = 0
               /\ r.splitter_slots \subseteq DOMAIN its
<1> DEFINE estimated == estimate_layouts(st.name, values(its, vl), st.keys, pl)
           laid == with_layouts(st, estimated, its, vl)
           placed == with_buckets(laid, its, vl)
           r == with_counts(placed, Len(its))
<1>1. DOMAIN estimated = 1 .. GroupCount[st.name]
  BY DEF estimate_layouts
<1> HIDE DEF estimated
<1>2. /\ DOMAIN laid = KeyFields /\ laid.name = st.name /\ laid.keys = st.keys
      /\ DOMAIN laid.layouts = DOMAIN estimated
      /\ laid.splitter_slots \subseteq DOMAIN its
  BY DEF with_layouts, KeyFields
<1> HIDE DEF laid
<1>3. /\ DOMAIN placed = KeyFields /\ placed.name = laid.name /\ placed.keys = laid.keys
      /\ placed.layouts = laid.layouts /\ placed.splitter_slots = laid.splitter_slots
      /\ DOMAIN placed.buckets = DOMAIN its
  BY <1>2 DEF with_buckets, KeyFields
<1> HIDE DEF placed
<1>4. /\ DOMAIN r = KeyFields /\ r.name = placed.name /\ r.keys = placed.keys
      /\ r.layouts = placed.layouts /\ r.splitter_slots = placed.splitter_slots
      /\ r.buckets = placed.buckets
      /\ r.churn = 0 /\ r.stale_checked_at = npos
      /\ r.splitter_changed = FALSE /\ r.has_order = FALSE /\ r.order_stale = FALSE
      /\ r.moved = {} /\ r.ordered_slots = 0
  BY <1>3 DEF with_counts, KeyFields
<1>5. relayout(st, its, vl, pl) = r
  BY DEF relayout, r, placed, laid, estimated
<1> HIDE DEF r
<1> QED
  BY <1>1, <1>2, <1>3, <1>4, <1>5

\* relayout: the sort key stays the same.
LEMMA RelayoutName ==
    ASSUME NEW st, NEW its, NEW vl, NEW pl, DOMAIN st = KeyFields
    PROVE  relayout(st, its, vl, pl).name = st.name
  BY DEF relayout, with_layouts, with_buckets, with_counts, KeyFields

\* relayout: an element a layout splits on is in one of splitter_slots.
LEMMA RelayoutSplitters ==
    ASSUME NEW st, NEW its, NEW vl, NEW pl, DOMAIN st = KeyFields
    PROVE  SplittersIn(relayout(st, its, vl, pl), its)
<1> DEFINE r == relayout(st, its, vl, pl)
           estimated == estimate_layouts(st.name, values(its, vl), st.keys, pl)
<1>1. r.splitter_slots = {x \in DOMAIN its : \E g \in DOMAIN estimated :
          \E i \in DOMAIN estimated[g].splits : estimated[g].splits[i].pos = x}
  BY DEF relayout, with_layouts, with_buckets, with_counts, KeyFields
<1>2. r.layouts = [g \in DOMAIN estimated |->
          [splits |-> [i \in DOMAIN estimated[g].splits |->
              [key  |-> estimated[g].splits[i].key,
               elem |-> split_element(estimated[g].splits[i].pos, its, vl)]],
           expected |-> estimated[g].expected]]
  BY DEF relayout, with_layouts, with_buckets, with_counts, KeyFields
<1> HIDE DEF r, estimated
<1>3. ASSUME NEW g \in DOMAIN r.layouts, NEW j \in DOMAIN r.layouts[g].splits
      PROVE  /\ g \in DOMAIN estimated /\ j \in DOMAIN estimated[g].splits
             /\ r.layouts[g].splits[j].elem
                    = split_element(estimated[g].splits[j].pos, its, vl)
  BY <1>2
<1>4. ASSUME Aliasing, NEW g \in DOMAIN r.layouts, NEW j \in DOMAIN r.layouts[g].splits
      PROVE  \/ r.layouts[g].splits[j].elem = NoValue
             \/ \E x \in r.splitter_slots : r.layouts[g].splits[j].elem = its[x]
  <2> DEFINE x == estimated[g].splits[j].pos
  <2>1. CASE x \notin DOMAIN its
    BY <1>3, <2>1 DEF split_element
  <2>2. CASE x \in DOMAIN its
    BY <1>1, <1>3, <1>4, <2>2 DEF split_element
  <2> QED
    BY <2>1, <2>2
<1> QED
  BY <1>4 DEF SplittersIn, r

\* relayout: every bucket id is the one the new layout gives.
LEMMA RelayoutBuckets ==
    ASSUME NEW st, NEW its, NEW vl, NEW pl, DOMAIN st = KeyFields
    PROVE  BucketsIn(relayout(st, its, vl, pl), its, vl)
<1> DEFINE r == relayout(st, its, vl, pl)
           estimated == estimate_layouts(st.name, values(its, vl), st.keys, pl)
           laid == with_layouts(st, estimated, its, vl)
<1>1. r.buckets = [x \in DOMAIN its |-> bucket_for(laid, vl[its[x]], st.keys[x], vl)]
  BY DEF relayout, with_layouts, with_buckets, with_counts, KeyFields
<1>2. r.name = laid.name /\ r.layouts = laid.layouts /\ r.keys = st.keys
  BY DEF relayout, with_layouts, with_buckets, with_counts, KeyFields
<1> HIDE DEF r, laid
<1>3. ASSUME NEW x \in DOMAIN its
      PROVE  bucket_for(laid, vl[its[x]], st.keys[x], vl)
                = bucket_for(r, vl[its[x]], st.keys[x], vl)
  BY <1>2, BucketForSame
<1> QED
  BY <1>1, <1>2, <1>3 DEF BucketsIn, r

\* relayout: only the keys have to be current before it.
LEMMA RelayoutConsistent ==
    ASSUME NEW st, NEW its \in Seq(Handle), NEW vl, NEW pl,
           DOMAIN st = KeyFields, st.name \in Name, DOMAIN st.keys = 1 .. Len(its),
           KeysIn(st, its, vl)
    PROVE  Consistent(relayout(st, its, vl, pl), its, vl)
<1> DEFINE r == relayout(st, its, vl, pl)
<1>1. /\ DOMAIN r = KeyFields
      /\ r.name = st.name /\ r.keys = st.keys
      /\ DOMAIN r.buckets = DOMAIN its
      /\ DOMAIN r.layouts = 1 .. GroupCount[r.name]
      /\ r.churn = 0 /\ r.stale_checked_at = npos
      /\ r.splitter_changed = FALSE /\ r.has_order = FALSE /\ r.order_stale = FALSE
      /\ r.moved = {} /\ r.ordered_slots = 0
      /\ r.splitter_slots \subseteq DOMAIN its
  BY RelayoutShape
<1>2. SplittersIn(r, its)
  BY RelayoutSplitters
<1>3. BucketsIn(r, its, vl)
  BY RelayoutBuckets
<1> HIDE DEF r
<1>4. KeysIn(r, its, vl)
  BY <1>1 DEF KeysIn
<1>5. FlagsIn(r, its)
  BY <1>1 DEF FlagsIn
<1>6. KeyStateOK(r, Len(its))
  <2>1. DOMAIN its = 1 .. Len(its) /\ Len(its) \in Nat
    OBVIOUS
  <2>2. /\ r.churn \in Nat /\ r.stale_checked_at \in Nat \cup {npos}
        /\ r.ordered_slots \in 0 .. Len(its)
    BY <1>1, <2>1
  <2> QED
    BY <1>1, <2>1, <2>2 DEF KeyStateOK
<1> QED
  BY <1>2, <1>3, <1>4, <1>5, <1>6 DEF Consistent, r
-----------------------------------------------------------------------------
(* Reads: rebalancing, grouping and sorting                                *)

\* What grouping and sorting leave alone.
SameElements(t, st) ==
    /\ DOMAIN t = KeyFields
    /\ t.name = st.name /\ t.keys = st.keys /\ t.buckets = st.buckets
    /\ t.layouts = st.layouts /\ t.splitter_slots = st.splitter_slots
    /\ t.splitter_changed = st.splitter_changed
    /\ t.churn = st.churn

\* Whoever leaves keys, buckets and layouts alone only has the flags to keep right.
LEMMA SameElementsConsistent ==
    ASSUME NEW st, NEW t, NEW its, NEW vl, Consistent(st, its, vl), SameElements(t, st),
           FlagsIn(t, its), t.stale_checked_at \in Nat \cup {npos},
           t.has_order \in BOOLEAN, t.order_stale \in BOOLEAN,
           t.ordered_slots \in 0 .. Len(its), t.moved \subseteq 1 .. Len(its)
    PROVE  Consistent(t, its, vl)
<1>1. KeyStateOK(t, Len(its))
  BY DEF Consistent, SameElements, KeyStateOK
<1>2. KeysIn(t, its, vl)
  BY DEF Consistent, SameElements, KeysIn
<1>3. SplittersIn(t, its)
  BY DEF Consistent, SameElements, SplittersIn
<1>4. \A v, vk : bucket_for(st, v, vk, vl) = bucket_for(t, v, vk, vl)
  BY BucketForSame DEF SameElements
<1>5. BucketsIn(t, its, vl)
  BY <1>4 DEF Consistent, SameElements, BucketsIn
<1> QED
  BY <1>1, <1>2, <1>3, <1>5 DEF Consistent

\* maybe_auto_rebalance keeps a state consistent, whether or not it rebalances.
LEMMA MaybeAutoRebalanceConsistent ==
    ASSUME NEW st, NEW its \in Seq(Handle), NEW vl, NEW pl, Consistent(st, its, vl)
    PROVE  Consistent(maybe_auto_rebalance(st, its, vl, pl), its, vl)
<1> DEFINE checked == [st EXCEPT !.stale_checked_at = st.churn]
<1>1. /\ SameElements(checked, st)
      /\ checked.has_order = st.has_order /\ checked.order_stale = st.order_stale
      /\ checked.moved = st.moved /\ checked.ordered_slots = st.ordered_slots
      /\ checked.stale_checked_at = st.churn
  BY DEF Consistent, KeyStateOK, SameElements, KeyFields
<1>2. \/ maybe_auto_rebalance(st, its, vl, pl) = st
      \/ maybe_auto_rebalance(st, its, vl, pl) = checked
      \/ maybe_auto_rebalance(st, its, vl, pl) = relayout(checked, its, vl, pl)
  BY DEF maybe_auto_rebalance
<1> HIDE DEF checked
<1>3. Consistent(checked, its, vl)
  <2>1. FlagsIn(checked, its)
    BY <1>1 DEF Consistent, FlagsIn, SameElements
  <2> QED
    BY <1>1, <2>1, SameElementsConsistent DEF Consistent, KeyStateOK
<1>4. Consistent(relayout(checked, its, vl, pl), its, vl)
  BY <1>3, RelayoutConsistent DEF Consistent, KeyStateOK
<1> QED
  BY <1>2, <1>3, <1>4

\* build_order groups every slot, so nothing is left waiting.
LEMMA BuildOrderConsistent ==
    ASSUME NEW st, NEW its \in Seq(Handle), NEW vl, Consistent(st, its, vl)
    PROVE  /\ Consistent(build_order(st, Len(its)), its, vl)
           /\ build_order(st, Len(its)).name = st.name
<1> DEFINE t == build_order(st, Len(its))
<1>1. /\ SameElements(t, st)
      /\ t.has_order = TRUE /\ t.order_stale = FALSE
      /\ t.moved = {} /\ t.ordered_slots = Len(its)
      /\ t.stale_checked_at = st.stale_checked_at
  BY DEF Consistent, KeyStateOK, SameElements, KeyFields, build_order
<1> HIDE DEF t
<1>2. FlagsIn(t, its)
  BY <1>1 DEF Consistent, FlagsIn, SameElements
<1>3. Consistent(t, its, vl)
  <2>1. t.ordered_slots \in 0 .. Len(its) /\ t.moved \subseteq 1 .. Len(its)
    BY <1>1 DEF Consistent, KeyStateOK
  <2> QED
    BY <1>1, <1>2, <2>1, SameElementsConsistent DEF Consistent, KeyStateOK
<1> QED
  BY <1>1, <1>3 DEF t, SameElements

\* regroup re-places every waiting slot, so nothing is left waiting.
LEMMA RegroupConsistent ==
    ASSUME NEW st, NEW its \in Seq(Handle), NEW vl, Consistent(st, its, vl), st.has_order
    PROVE  LET t == regroup(st, Len(its))
           IN  /\ Consistent(t, its, vl)
               /\ t.name = st.name /\ t.order_stale = FALSE
<1> DEFINE t == regroup(st, Len(its))
<1>1. /\ SameElements(t, st)
      /\ t.has_order = st.has_order /\ t.order_stale = FALSE
      /\ t.moved = {} /\ t.ordered_slots = Len(its)
      /\ t.stale_checked_at = st.stale_checked_at
  BY DEF Consistent, KeyStateOK, SameElements, KeyFields, regroup
<1> HIDE DEF t
<1>2. FlagsIn(t, its)
  BY <1>1 DEF Consistent, FlagsIn, SameElements
<1>3. Consistent(t, its, vl)
  <2>1. t.ordered_slots \in 0 .. Len(its) /\ t.moved \subseteq 1 .. Len(its)
    BY <1>1 DEF Consistent, KeyStateOK
  <2> QED
    BY <1>1, <1>2, <2>1, SameElementsConsistent DEF Consistent, KeyStateOK
<1> QED
  BY <1>1, <1>3 DEF t, SameElements

\* Sorting buckets moves slots inside the grouping and nothing else.
LEMMA SortBucketsConsistent ==
    ASSUME NEW st, NEW bs, NEW its \in Seq(Handle), NEW vl, Consistent(st, its, vl)
    PROVE  LET t == sort_buckets(st, bs, its, vl)
           IN  Consistent(t, its, vl) /\ t.name = st.name
<1> DEFINE t == sort_buckets(st, bs, its, vl)
<1>1. /\ SameElements(t, st)
      /\ t.has_order = st.has_order /\ t.order_stale = st.order_stale
      /\ t.moved = st.moved /\ t.ordered_slots = st.ordered_slots
      /\ t.stale_checked_at = st.stale_checked_at
  BY DEF Consistent, KeyStateOK, SameElements, KeyFields, sort_buckets
<1> HIDE DEF t
<1>2. FlagsIn(t, its)
  BY <1>1 DEF Consistent, FlagsIn, SameElements
<1>3. Consistent(t, its, vl)
  <2>1. t.ordered_slots \in 0 .. Len(its) /\ t.moved \subseteq 1 .. Len(its)
    BY <1>1 DEF Consistent, KeyStateOK
  <2> QED
    BY <1>1, <1>2, <2>1, SameElementsConsistent DEF Consistent, KeyStateOK
<1> QED
  BY <1>1, <1>3 DEF t, SameElements

\* maybe_auto_rebalance: the sort key stays the same.
LEMMA MaybeAutoRebalanceName ==
    ASSUME NEW st, NEW its, NEW vl, NEW pl, DOMAIN st = KeyFields, st.name \in Name
    PROVE  maybe_auto_rebalance(st, its, vl, pl).name = st.name
<1> DEFINE checked == [st EXCEPT !.stale_checked_at = st.churn]
<1>1. DOMAIN checked = KeyFields /\ checked.name = st.name
  BY DEF KeyFields
<1>2. \/ maybe_auto_rebalance(st, its, vl, pl) = st
      \/ maybe_auto_rebalance(st, its, vl, pl) = checked
      \/ maybe_auto_rebalance(st, its, vl, pl) = relayout(checked, its, vl, pl)
  BY DEF maybe_auto_rebalance
<1> HIDE DEF checked
<1>3. relayout(checked, its, vl, pl).name = checked.name
  BY <1>1, RelayoutName
<1> QED
  BY <1>1, <1>2, <1>3

\* prepare: after it the grouping covers every slot and nothing waits.
LEMMA PrepareConsistent ==
    ASSUME NEW st, NEW its \in Seq(Handle), NEW vl, NEW pl, Consistent(st, its, vl)
    PROVE  LET t == prepare(st, its, vl, pl)
           IN  Consistent(t, its, vl) /\ t.name = st.name
<1> DEFINE checked == maybe_auto_rebalance(st, its, vl, pl)
<1>1. Consistent(checked, its, vl) /\ checked.name = st.name
  BY MaybeAutoRebalanceConsistent, MaybeAutoRebalanceName DEF Consistent, KeyStateOK
<1>2. prepare(st, its, vl, pl) = IF ~ checked.has_order THEN build_order(checked, Len(its))
                                 ELSE IF checked.order_stale THEN regroup(checked, Len(its))
                                 ELSE checked
  BY DEF prepare, grouping
<1> HIDE DEF checked
<1>3. CASE ~ checked.has_order
  BY <1>1, <1>2, <1>3, BuildOrderConsistent
<1>4. CASE checked.has_order /\ checked.order_stale
  BY <1>1, <1>2, <1>4, RegroupConsistent
<1>5. CASE checked.has_order /\ ~ checked.order_stale
  BY <1>1, <1>2, <1>5
<1> QED
  BY <1>3, <1>4, <1>5
-----------------------------------------------------------------------------
(* Changes: additions, updates and removals                                *)

\* The bucket of an element stays the same as long as the elements in
\* splitter_slots keep their values.
LEMMA BucketKept ==
    ASSUME NEW st, NEW t, NEW its, NEW vl, NEW wl, NEW v \in Value, NEW vk,
           st.name \in Name, DOMAIN st.layouts = 1 .. GroupCount[st.name],
           t.name = st.name, t.layouts = st.layouts,
           SplittersIn(st, its),
           \A x \in st.splitter_slots : vl[its[x]] = wl[its[x]]
    PROVE  bucket_for(st, v, vk, vl) = bucket_for(t, v, vk, wl)
<1>1. 1 \in DOMAIN st.layouts /\ group(st.name, v) \in DOMAIN st.layouts
  <2>1. GroupCount[st.name] \in Nat \ {0}
    BY SortKeyAssumption
  <2>2. GroupOf[st.name] \in [Value -> 1 .. GroupCount[st.name]]
    BY SortKeyAssumption
  <2> QED
    BY <2>1, <2>2 DEF group
<1>2. ASSUME NEW g \in DOMAIN st.layouts
      PROVE  resolve(st.layouts[g], vl) = resolve(st.layouts[g], wl)
  BY DEF resolve, SplittersIn
<1> QED
  BY <1>1, <1>2, BucketForSame

\* The collection its2, vl2 has further elements behind those of its, vl.
Extends(its, vl, its2, vl2) ==
    /\ Collection(its, vl) /\ Collection(its2, vl2)
    /\ Len(its) <= Len(its2)
    /\ \A x \in DOMAIN its : its2[x] = its[x] /\ vl2[its[x]] = vl[its[x]]

\* append: elements its[n+1], ... behind the first n.
LEMMA AppendConsistent ==
    ASSUME NEW st, NEW its, NEW vl, NEW its2, NEW vl2,
           Extends(its, vl, its2, vl2), Consistent(st, its, vl)
    PROVE  LET t == append(st, Len(its), its2, vl2)
           IN  Consistent(t, its2, vl2) /\ t.name = st.name
<1> DEFINE t == append(st, Len(its), its2, vl2)
           n == Len(its)
           ks == [x \in DOMAIN its2 |-> IF x <= n THEN st.keys[x] ELSE key(st.name, vl2[its2[x]])]
<1> /\ Collection(its, vl) /\ Collection(its2, vl2) /\ Len(its) <= Len(its2)
    /\ \A x \in DOMAIN its : its2[x] = its[x] /\ vl2[its[x]] = vl[its[x]]
  BY DEF Extends
<1>1. /\ DOMAIN st = KeyFields /\ st.name \in Name
      /\ DOMAIN its = 1 .. n /\ DOMAIN its2 = 1 .. Len(its2)
      /\ n \in Nat /\ Len(its2) \in Nat
      /\ \A x \in DOMAIN its2 : vl2[its2[x]] \in Value
  BY DEF Collection, Consistent, KeyStateOK, ToSet
<1>2. /\ DOMAIN t = KeyFields
      /\ t.name = st.name /\ t.layouts = st.layouts
      /\ t.splitter_slots = st.splitter_slots /\ t.splitter_changed = st.splitter_changed
      /\ t.stale_checked_at = st.stale_checked_at /\ t.has_order = st.has_order
      /\ t.moved = st.moved /\ t.ordered_slots = st.ordered_slots
      /\ t.churn = st.churn + (Len(its2) - n)
      /\ t.order_stale = IF st.has_order /\ Len(its2) > n THEN TRUE ELSE st.order_stale
  BY <1>1 DEF append, KeyFields
<1>3. t.keys = ks
  BY <1>1 DEF append, KeyFields
<1>4. t.buckets = [x \in DOMAIN its2 |-> IF x <= n THEN st.buckets[x]
                                         ELSE bucket_for(st, vl2[its2[x]], ks[x], vl2)]
  BY <1>1 DEF append, KeyFields
<1> HIDE DEF t
<1>5. KeyStateOK(t, Len(its2))
  <2>1. t.churn \in Nat /\ t.order_stale \in BOOLEAN
    <3>1. st.churn \in Nat /\ st.order_stale \in BOOLEAN
      BY DEF Consistent, KeyStateOK
    <3>2. Len(its2) - n \in Nat
      BY <1>1
    <3> HIDE DEF n
    <3>3. t.churn \in Nat
      BY <1>2, <3>1, <3>2
    <3>4. t.order_stale \in BOOLEAN
      BY <1>2, <3>1
    <3> QED
      BY <3>3, <3>4
  <2>2. t.ordered_slots \in 0 .. Len(its2)
    BY <1>1, <1>2 DEF Consistent, KeyStateOK
  <2>3. t.moved \subseteq 1 .. Len(its2) /\ t.splitter_slots \subseteq 1 .. Len(its2)
    BY <1>1, <1>2 DEF Consistent, KeyStateOK
  <2>4. DOMAIN t.keys = 1 .. Len(its2) /\ DOMAIN t.buckets = 1 .. Len(its2)
    BY <1>1, <1>3, <1>4
  <2> QED
    BY <1>1, <1>2, <2>1, <2>2, <2>3, <2>4 DEF Consistent, KeyStateOK
<1>6. KeysIn(t, its2, vl2)
  BY <1>1, <1>2, <1>3 DEF Consistent, KeysIn
<1>7. SplittersIn(t, its2)
  <2>1. \A x \in st.splitter_slots : its2[x] = its[x]
    BY <1>1 DEF Consistent, KeyStateOK
  <2> QED
    BY <1>2, <2>1 DEF Consistent, SplittersIn
<1>8. BucketsIn(t, its2, vl2)
  <2>1. \A x \in st.splitter_slots : vl[its[x]] = vl2[its[x]]
    BY <1>1 DEF Consistent, KeyStateOK
  <2>2. ASSUME NEW v \in Value, NEW vk
        PROVE  /\ bucket_for(st, v, vk, vl) = bucket_for(t, v, vk, vl2)
               /\ bucket_for(st, v, vk, vl2) = bucket_for(t, v, vk, vl2)
    <3>1. bucket_for(st, v, vk, vl) = bucket_for(t, v, vk, vl2)
      <4>1. /\ st.name \in Name /\ DOMAIN st.layouts = 1 .. GroupCount[st.name]
            /\ SplittersIn(st, its)
        BY DEF Consistent, KeyStateOK
      <4> QED
        BY <1>2, <2>1, <4>1, BucketKept
    <3>2. bucket_for(st, v, vk, vl2) = bucket_for(t, v, vk, vl2)
      BY <1>2, BucketForSame
    <3> QED
      BY <3>1, <3>2
  <2> SUFFICES ASSUME NEW x \in DOMAIN its2
               PROVE  t.buckets[x] = bucket_for(t, vl2[its2[x]], t.keys[x], vl2)
    BY DEF BucketsIn
  <2>3. CASE x <= n
    <3>1. x \in DOMAIN its
      BY <1>1, <2>3
    <3>2. st.buckets[x] = bucket_for(st, vl[its[x]], st.keys[x], vl)
      BY <3>1 DEF Consistent, BucketsIn
    <3>3. t.buckets[x] = st.buckets[x] /\ t.keys[x] = st.keys[x]
      BY <1>3, <1>4, <2>3
    <3> QED
      BY <1>1, <2>2, <3>1, <3>2, <3>3
  <2>4. CASE ~ (x <= n)
    BY <1>1, <1>3, <1>4, <2>2, <2>4
  <2> QED
    BY <2>3, <2>4
<1>9. FlagsIn(t, its2)
  BY <1>1, <1>2 DEF Consistent, KeyStateOK, FlagsIn
<1> QED
  BY <1>2, <1>5, <1>6, <1>7, <1>8, <1>9 DEF Consistent, t

\* rekey: a changed splitter element is noticed; without one the KeyState is
\* consistent with the new values.
LEMMA RekeyConsistent ==
    ASSUME NEW st, NEW its, NEW vl, NEW vl2, NEW hit \in SUBSET (DOMAIN its),
           Collection(its, vl), Collection(its, vl2), Consistent(st, its, vl),
           \A x \in DOMAIN its : x \notin hit => vl2[its[x]] = vl[its[x]]
    PROVE  LET t == rekey(st, hit, its, vl2)
           IN  /\ DOMAIN t = KeyFields /\ t.name = st.name
               /\ DOMAIN t.keys = 1 .. Len(its)
               /\ KeysIn(t, its, vl2)
               /\ t.splitter_changed = FALSE => Consistent(t, its, vl2)
               /\ t.splitter_changed \in BOOLEAN
<1> DEFINE t == rekey(st, hit, its, vl2)
           ks == [x \in DOMAIN its |-> IF x \in hit THEN key(st.name, vl2[its[x]]) ELSE st.keys[x]]
           placed == {x \in hit : st.has_order /\ x <= st.ordered_slots}
<1>1. /\ DOMAIN st = KeyFields /\ st.name \in Name
      /\ DOMAIN its = 1 .. Len(its) /\ Len(its) \in Nat
      /\ \A x \in DOMAIN its : vl2[its[x]] \in Value
      /\ st.splitter_changed = FALSE
  BY DEF Collection, Consistent, KeyStateOK, FlagsIn, ToSet
<1>2. /\ DOMAIN t = KeyFields
      /\ t.name = st.name /\ t.layouts = st.layouts
      /\ t.splitter_slots = st.splitter_slots
      /\ t.stale_checked_at = st.stale_checked_at /\ t.has_order = st.has_order
      /\ t.ordered_slots = st.ordered_slots
      /\ t.churn = st.churn + Cardinality(hit)
  BY <1>1 DEF rekey, KeyFields
<1>3. /\ t.splitter_changed = IF hit \cap st.splitter_slots # {} THEN TRUE ELSE FALSE
      /\ t.moved = st.moved \cup placed
      /\ t.order_stale = IF placed # {} THEN TRUE ELSE st.order_stale
  BY <1>1 DEF rekey, KeyFields
<1>4. t.keys = ks
  BY <1>1 DEF rekey, KeyFields
<1>5. t.buckets = [x \in DOMAIN its |-> IF x \in hit THEN bucket_for(st, vl2[its[x]], ks[x], vl2)
                                        ELSE st.buckets[x]]
  BY <1>1 DEF rekey, KeyFields
<1> HIDE DEF t
<1>6. KeysIn(t, its, vl2)
  BY <1>1, <1>2, <1>4 DEF Consistent, KeysIn
<1>7. ASSUME t.splitter_changed = FALSE
      PROVE  Consistent(t, its, vl2)
  <2>1. Cardinality(hit) \in Nat
    <3>1. IsFiniteSet(1 .. Len(its))
      BY <1>1, FS_Interval
    <3>2. IsFiniteSet(hit)
      BY <1>1, <3>1, FS_Subset
    <3> QED
      BY <3>2, FS_CardinalityType
  <2>2. KeyStateOK(t, Len(its))
    <3>1. t.churn \in Nat
      BY <1>2, <2>1 DEF Consistent, KeyStateOK
    <3>2. t.moved \subseteq 1 .. Len(its)
      BY <1>1, <1>3 DEF Consistent, KeyStateOK
    <3> QED
      BY <1>1, <1>2, <1>3, <1>4, <1>5, <3>1, <3>2 DEF Consistent, KeyStateOK
  <2>3. SplittersIn(t, its)
    BY <1>2 DEF Consistent, SplittersIn
  <2>4. \A x \in st.splitter_slots : vl[its[x]] = vl2[its[x]]
    BY <1>1, <1>3, <1>7 DEF Consistent, KeyStateOK
  <2>5. ASSUME NEW v \in Value, NEW vk
        PROVE  /\ bucket_for(st, v, vk, vl) = bucket_for(t, v, vk, vl2)
               /\ bucket_for(st, v, vk, vl2) = bucket_for(t, v, vk, vl2)
    <3>1. bucket_for(st, v, vk, vl) = bucket_for(t, v, vk, vl2)
      <4>1. /\ st.name \in Name /\ DOMAIN st.layouts = 1 .. GroupCount[st.name]
            /\ SplittersIn(st, its)
        BY DEF Consistent, KeyStateOK
      <4> QED
        BY <1>2, <2>4, <4>1, BucketKept
    <3>2. bucket_for(st, v, vk, vl2) = bucket_for(t, v, vk, vl2)
      BY <1>2, BucketForSame
    <3> QED
      BY <3>1, <3>2
  <2>6. BucketsIn(t, its, vl2)
    <3> SUFFICES ASSUME NEW x \in DOMAIN its
                 PROVE  t.buckets[x] = bucket_for(t, vl2[its[x]], t.keys[x], vl2)
      BY DEF BucketsIn
    <3>1. st.buckets[x] = bucket_for(st, vl[its[x]], st.keys[x], vl)
      BY DEF Consistent, BucketsIn
    <3>2. CASE x \in hit
      BY <1>1, <1>4, <1>5, <2>5, <3>2
    <3>3. CASE x \notin hit
      <4>1. t.buckets[x] = st.buckets[x] /\ t.keys[x] = st.keys[x]
        BY <1>4, <1>5, <3>3
      <4>2. vl2[its[x]] = vl[its[x]]
        BY <3>3
      <4> QED
        BY <1>1, <2>5, <3>1, <4>1, <4>2
    <3> QED
      BY <3>2, <3>3
  <2>7. FlagsIn(t, its)
    <3>1. /\ t.has_order = FALSE => placed = {}
          /\ t.has_order = TRUE /\ st.order_stale = FALSE /\ placed = {} => t.moved = {}
      BY <1>2, <1>3 DEF Consistent, FlagsIn
    <3> QED
      BY <1>2, <1>3, <1>7, <3>1 DEF Consistent, KeyStateOK, FlagsIn
  <2> QED
    BY <1>6, <2>2, <2>3, <2>6, <2>7 DEF Consistent
<1> QED
  BY <1>1, <1>2, <1>3, <1>4, <1>6, <1>7 DEF t

\* its2, vl2: the elements of its, vl in the m slots that kept lists.
Reduction(its, vl, m, kept, its2, vl2) ==
    /\ Collection(its, vl) /\ Collection(its2, vl2)
    /\ m \in 0 .. Len(its) /\ kept \in [1 .. m -> 1 .. Len(its)]
    /\ \A i, j \in 1 .. m : i < j => kept[i] < kept[j]
    /\ its2 = [i \in 1 .. m |-> its[kept[i]]]
    /\ \A i \in 1 .. m : vl2[its[kept[i]]] = vl[its[kept[i]]]

\* A list in ascending order has no slot twice.
LEMMA AscendingDistinct ==
    ASSUME NEW n \in Nat, NEW m \in Nat, NEW kept \in [1 .. m -> 1 .. n],
           \A i, j \in 1 .. m : i < j => kept[i] < kept[j]
    PROVE  \A i, j \in 1 .. m : kept[i] = kept[j] => i = j
<1> SUFFICES ASSUME NEW i \in 1 .. m, NEW j \in 1 .. m, kept[i] = kept[j]
             PROVE  i = j
  OBVIOUS
<1>1. kept[i] \in Nat /\ ~ (i < j) /\ ~ (j < i)
  OBVIOUS
<1> QED
  BY <1>1

\* compact: a removed splitter element forces a new layout; otherwise every slot
\* number, the splitters' included, moves with its element.
LEMMA CompactConsistent ==
    ASSUME NEW st, NEW its, NEW vl, NEW its2, NEW vl2, NEW pl, NEW m, NEW kept,
           Reduction(its, vl, m, kept, its2, vl2), Consistent(st, its, vl),
           ~ (st.has_order /\ st.order_stale)
    PROVE  LET t == compact(st, kept, its2, vl2, pl)
           IN  Consistent(t, its2, vl2) /\ t.name = st.name
<1> /\ Collection(its, vl) /\ Collection(its2, vl2)
    /\ m \in 0 .. Len(its) /\ kept \in [1 .. m -> 1 .. Len(its)]
    /\ \A i, j \in 1 .. m : i < j => kept[i] < kept[j]
    /\ its2 = [i \in 1 .. m |-> its[kept[i]]]
    /\ \A i \in 1 .. m : vl2[its[kept[i]]] = vl[its[kept[i]]]
  BY DEF Reduction
<1> \A i, j \in 1 .. m : kept[i] = kept[j] => i = j
  BY AscendingDistinct DEF Collection
<1> DEFINE t == compact(st, kept, its2, vl2, pl)
           n == Len(its)
           gone == 1 .. Len(st.buckets) \ ToSet(kept)
           filtered == [st EXCEPT
            !.keys = [i \in DOMAIN kept |-> st.keys[kept[i]]],
            !.buckets = [i \in DOMAIN kept |-> st.buckets[kept[i]]],
            !.counts = recounted(st, gone, << >>, {}),
            !.churn = st.churn + (Len(st.buckets) - Len(kept))]
<1>1. /\ DOMAIN st = KeyFields /\ st.name \in Name
      /\ DOMAIN its = 1 .. n /\ n \in Nat /\ m \in Nat /\ m <= n
      /\ DOMAIN kept = 1 .. m /\ Len(kept) = m /\ DOMAIN its2 = 1 .. m /\ Len(its2) = m
      /\ Len(st.buckets) = n
      /\ \A i \in 1 .. m : vl2[its2[i]] = vl[its[kept[i]]] /\ vl2[its2[i]] \in Value
      /\ st.splitter_slots \subseteq 1 .. n
  <2>1. /\ DOMAIN st = KeyFields /\ st.name \in Name
        /\ DOMAIN its = 1 .. n /\ n \in Nat /\ m \in Nat /\ m <= n
        /\ DOMAIN kept = 1 .. m /\ DOMAIN its2 = 1 .. m /\ Len(its2) = m
        /\ st.splitter_slots \subseteq 1 .. n
    BY DEF Collection, Consistent, KeyStateOK
  <2>2. Len(kept) = m
    BY <2>1
  <2>3. Len(st.buckets) = n
    BY <2>1 DEF Consistent, KeyStateOK
  <2>4. ASSUME NEW i \in 1 .. m
        PROVE  vl2[its2[i]] = vl[its[kept[i]]] /\ vl2[its2[i]] \in Value
    BY <2>1 DEF Collection, ToSet
  <2> QED
    BY <2>1, <2>2, <2>3, <2>4
<1>2. /\ DOMAIN filtered = KeyFields
      /\ filtered.name = st.name /\ filtered.layouts = st.layouts
      /\ filtered.keys = [i \in 1 .. m |-> st.keys[kept[i]]]
      /\ filtered.buckets = [i \in 1 .. m |-> st.buckets[kept[i]]]
      /\ filtered.churn = st.churn + (n - m)
      /\ filtered.splitter_changed = st.splitter_changed
      /\ filtered.stale_checked_at = st.stale_checked_at
      /\ filtered.has_order = st.has_order /\ filtered.order_stale = st.order_stale
      /\ filtered.moved = st.moved /\ filtered.ordered_slots = st.ordered_slots
  BY <1>1 DEF KeyFields
<1>3. KeysIn(filtered, its2, vl2)
  <2> HIDE DEF filtered
  <2> SUFFICES ASSUME NEW i \in 1 .. m
               PROVE  filtered.keys[i] = key(filtered.name, vl2[its2[i]])
    BY <1>1 DEF KeysIn
  <2>1. kept[i] \in DOMAIN its
    BY <1>1
  <2>2. st.keys[kept[i]] = key(st.name, vl[its[kept[i]]])
    BY <2>1 DEF Consistent, KeysIn
  <2> QED
    BY <1>1, <1>2, <2>2
<1>4. CASE st.splitter_slots \cap gone # {}
  <2>1. t = relayout(filtered, its2, vl2, pl)
    BY <1>1, <1>4 DEF compact
  <2> HIDE DEF filtered
  <2>2. /\ its2 \in Seq(Handle) /\ DOMAIN filtered.keys = 1 .. Len(its2)
        /\ filtered.name \in Name
    BY <1>1, <1>2 DEF Collection
  <2>3. Consistent(relayout(filtered, its2, vl2, pl), its2, vl2)
    BY <1>2, <1>3, <2>2, RelayoutConsistent
  <2>4. relayout(filtered, its2, vl2, pl).name = st.name
    BY <1>2, RelayoutName
  <2> QED
    BY <2>1, <2>3, <2>4
<1>5. CASE st.splitter_slots \cap gone = {}
  <2>1. /\ DOMAIN t = KeyFields
        /\ t.name = filtered.name /\ t.layouts = filtered.layouts
        /\ t.keys = filtered.keys /\ t.buckets = filtered.buckets
        /\ t.churn = filtered.churn
        /\ t.splitter_changed = filtered.splitter_changed
        /\ t.stale_checked_at = filtered.stale_checked_at
        /\ t.has_order = filtered.has_order /\ t.order_stale = filtered.order_stale
        /\ t.splitter_slots = {remap(kept, x) : x \in st.splitter_slots}
        /\ st.has_order => t.moved = {} /\ t.ordered_slots = m
        /\ ~ st.has_order => t.moved = st.moved /\ t.ordered_slots = st.ordered_slots
    <3>1. CASE st.has_order
      BY <1>1, <1>5, <3>1 DEF compact, KeyFields
    <3>2. CASE ~ st.has_order
      BY <1>1, <1>5, <3>2 DEF compact, KeyFields
    <3> QED
      BY <3>1, <3>2
  <2>2. ASSUME NEW x \in st.splitter_slots
        PROVE  remap(kept, x) \in 1 .. m /\ kept[remap(kept, x)] = x
    <3>1. \E i \in DOMAIN kept : kept[i] = x
      BY <1>1, <1>5 DEF ToSet
    <3> QED
      BY <1>1, <3>1 DEF remap
  <2> HIDE DEF filtered, t
  <2>3. KeyStateOK(t, Len(its2))
    <3>1. t.churn \in Nat
      BY <1>1, <1>2, <2>1 DEF Consistent, KeyStateOK
    <3>2. t.moved \subseteq 1 .. m /\ t.ordered_slots \in 0 .. m
      BY <1>1, <2>1 DEF Consistent, KeyStateOK, FlagsIn
    <3>3. t.splitter_slots \subseteq 1 .. m
      BY <2>1, <2>2
    <3> QED
      BY <1>1, <1>2, <2>1, <3>1, <3>2, <3>3 DEF Consistent, KeyStateOK
  <2>4. KeysIn(t, its2, vl2)
    BY <1>3, <2>1 DEF KeysIn
  <2>5. SplittersIn(t, its2)
    <3>1. \A x \in st.splitter_slots : its[x] = its2[remap(kept, x)] /\ remap(kept, x) \in t.splitter_slots
      BY <2>1, <2>2
    <3>2. t.layouts = st.layouts
      BY <1>2, <2>1
    <3>3. SplittersIn(st, its)
      BY DEF Consistent
    <3> SUFFICES ASSUME Aliasing, NEW g \in DOMAIN st.layouts,
                        NEW j \in DOMAIN st.layouts[g].splits,
                        st.layouts[g].splits[j].elem # NoValue
                 PROVE  \E y \in t.splitter_slots : st.layouts[g].splits[j].elem = its2[y]
      BY <3>2 DEF SplittersIn
    <3>4. PICK x \in st.splitter_slots : st.layouts[g].splits[j].elem = its[x]
      BY <3>3 DEF SplittersIn
    <3>5. its[x] = its2[remap(kept, x)] /\ remap(kept, x) \in t.splitter_slots
      BY <3>1
    <3> QED
      BY <3>4, <3>5
  <2>6. \A x \in st.splitter_slots : vl[its[x]] = vl2[its[x]]
    BY <2>2
  <2>7. BucketsIn(t, its2, vl2)
    <3> SUFFICES ASSUME NEW i \in 1 .. m
                 PROVE  t.buckets[i] = bucket_for(t, vl2[its2[i]], t.keys[i], vl2)
      BY <1>1 DEF BucketsIn
    <3> DEFINE x == kept[i]
    <3>1. /\ x \in DOMAIN its
          /\ vl[its[x]] = vl2[its2[i]] /\ vl2[its2[i]] \in Value
          /\ t.buckets[i] = st.buckets[x] /\ t.keys[i] = st.keys[x]
      BY <1>1, <1>2, <2>1
    <3> HIDE DEF x
    <3>2. st.buckets[x] = bucket_for(st, vl[its[x]], st.keys[x], vl)
      BY <3>1 DEF Consistent, BucketsIn
    <3>3. /\ st.name \in Name /\ DOMAIN st.layouts = 1 .. GroupCount[st.name]
          /\ SplittersIn(st, its) /\ t.name = st.name /\ t.layouts = st.layouts
      BY <1>2, <2>1 DEF Consistent, KeyStateOK
    <3>4. bucket_for(st, vl2[its2[i]], st.keys[x], vl) = bucket_for(t, vl2[its2[i]], st.keys[x], vl2)
      BY <2>6, <3>1, <3>3, BucketKept
    <3> QED
      BY <3>1, <3>2, <3>4
  <2>8. FlagsIn(t, its2)
    BY <1>1, <1>2, <2>1 DEF Consistent, KeyStateOK, FlagsIn
  <2> QED
    BY <1>2, <2>1, <2>3, <2>4, <2>5, <2>7, <2>8 DEF Consistent, t
<1> QED
  BY <1>4, <1>5
-----------------------------------------------------------------------------
(* The inductive invariant                                                 *)

IInv ==
    /\ Collection(items, val) /\ Len(items) <= MaxItems
    /\ Len(states) \in Nat /\ DOMAIN states = 1 .. Len(states)
    /\ \A i \in DOMAIN states : Consistent(states[i], items, val)
    /\ \A i, j \in DOMAIN states : states[i].name = states[j].name => i = j
    /\ active \in {npos} \cup DOMAIN states
    /\ direction \in Direction
    /\ plan \in Plan

\* What a step may do to the active sort key.
KeepsActiveKey ==
    \/ ActiveKey' = ActiveKey
    \/ result'.op \in {"sort_by", "unsort"}
    \/ result'.op = "remove_sort_key" /\ ActiveKey' = ""
       /\ \A i \in DOMAIN states' : states'[i].name # ActiveKey

\* A step that gives every sort key a KeyState consistent with the new elements.
Updated ==
    /\ DOMAIN states' = DOMAIN states /\ Len(states') = Len(states)
    /\ \A i \in DOMAIN states : /\ Consistent(states'[i], items', val')
                                /\ states'[i].name = states[i].name

\* When every KeyState is consistent with the new collection, the invariant holds.
LEMMA UpdatedInv ==
    ASSUME IInv, Updated, Collection(items', val'), Len(items') <= MaxItems,
           active' \in {npos} \cup DOMAIN states', direction' \in Direction, plan' \in Plan
    PROVE  IInv'
  BY DEF IInv, Updated

\* When no KeyState moves, the active sort key is still the one it was.
LEMMA UpdatedActiveKey ==
    ASSUME IInv, Updated, active' = active
    PROVE  KeepsActiveKey
  BY DEF IInv, Updated, KeepsActiveKey, ActiveKey

\* A step that changes at most one KeyState, and no element.
LEMMA OneUpdated ==
    ASSUME IInv, UNCHANGED <<items, val>>, NEW i \in DOMAIN states, NEW st,
           states' = [states EXCEPT ![i] = st],
           Consistent(st, items, val), st.name = states[i].name
    PROVE  Updated
  BY DEF IInv, Updated

\* A call that changes neither the elements nor a KeyState.
LEMMA NoneUpdated ==
    ASSUME IInv, UNCHANGED <<items, val, states>>
    PROVE  Updated
  BY DEF IInv, Updated

\* The empty index satisfies the invariant.
LEMMA InitIInv == Init => IInv
<1> SUFFICES ASSUME Init PROVE IInv
  OBVIOUS
<1>1. /\ items = << >> /\ val = << >> /\ states = << >>
      /\ active = npos /\ direction \in Direction /\ plan \in Plan
  BY DEF Init, Direction
<1>2. Collection(items, val)
  BY <1>1 DEF Collection, ToSet
<1>3. Len(items) <= MaxItems
  BY <1>1, BucketIndexAssumption
<1> QED
  BY <1>1, <1>2, <1>3 DEF IInv
-----------------------------------------------------------------------------
(* Steps that read                                                         *)

\* The reads: at, range, first_page, position_if, for_each and sort_all.
LEMMA ReadStep ==
    ASSUME IInv, Read
    PROVE  Updated /\ IInv' /\ KeepsActiveKey
<1>1. UNCHANGED <<items, val, active, direction, plan>>
  BY DEF Read, at, range, first_page, position_if, for_each, sort_all
<1>2. \/ UNCHANGED states
      \/ active # npos /\ \E st \in {prepare(states[active], items, val, plan)} : \E bs :
            states' = [states EXCEPT ![active] = sort_buckets(st, bs, items, val)]
  BY DEF Read, at, range, first_page, position_if, for_each, sort_all
<1>3. Updated
  <2>1. CASE UNCHANGED states
    BY <1>1, <2>1, NoneUpdated
  <2>2. ASSUME active # npos, NEW bs,
               states' = [states EXCEPT ![active] =
                   sort_buckets(prepare(states[active], items, val, plan), bs, items, val)]
        PROVE  Updated
    <3> DEFINE st == prepare(states[active], items, val, plan)
    <3>1. active \in DOMAIN states /\ items \in Seq(Handle)
      BY <2>2 DEF IInv, Collection
    <3>2. Consistent(st, items, val) /\ st.name = states[active].name
      BY <3>1, PrepareConsistent DEF IInv
    <3> HIDE DEF st
    <3>3. /\ Consistent(sort_buckets(st, bs, items, val), items, val)
          /\ sort_buckets(st, bs, items, val).name = states[active].name
      BY <3>1, <3>2, SortBucketsConsistent
    <3> QED
      BY <1>1, <2>2, <3>1, <3>3, OneUpdated DEF st
  <2> QED
    BY <1>2, <2>1, <2>2
<1> QED
  BY <1>1, <1>3, UpdatedInv, UpdatedActiveKey DEF IInv, Updated
-----------------------------------------------------------------------------
(* Steps that register and select sort keys                                *)

\* add_sort_key: the new state stands behind the others, whose indices stay.
LEMMA AddSortKeyStep ==
    ASSUME IInv, NEW k \in Name, add_sort_key(k)
    PROVE  IInv' /\ KeepsActiveKey
<1>1. UNCHANGED <<items, val, active, direction, plan>>
  BY DEF add_sort_key
<1>2. CASE find_state(k) # {}
  BY <1>1, <1>2, NoneUpdated, UpdatedInv, UpdatedActiveKey DEF IInv, add_sort_key
<1>3. CASE find_state(k) = {}
  <2> DEFINE st == new_state(k, [x \in DOMAIN items |-> key(k, val[items[x]])])
             r == relayout(st, items, val, plan)
             n == Len(states)
  <2>1. states' = Append(states, r)
    BY <1>3 DEF add_sort_key
  <2>2. /\ DOMAIN st = KeyFields /\ st.name = k
        /\ DOMAIN st.keys = 1 .. Len(items) /\ KeysIn(st, items, val)
        /\ items \in Seq(Handle)
    BY DEF new_state, KeyFields, KeysIn, IInv, Collection
  <2> HIDE DEF st
  <2>3. Consistent(r, items, val) /\ r.name = k
    BY <2>2, RelayoutConsistent, RelayoutName
  <2> HIDE DEF r
  <2>4. /\ n \in Nat /\ DOMAIN states = 1 .. n
        /\ Len(states') = n + 1 /\ DOMAIN states' = 1 .. n + 1
        /\ \A i \in 1 .. n : states'[i] = states[i]
        /\ states'[n + 1] = r
    BY <2>1 DEF IInv
  <2> HIDE DEF n
  <2>5. \A i \in DOMAIN states : states[i].name # k
    BY <1>3 DEF find_state
  <2>6. \A i \in DOMAIN states' : Consistent(states'[i], items', val')
    BY <1>1, <2>3, <2>4 DEF IInv
  <2>7. \A i, j \in DOMAIN states' : states'[i].name = states'[j].name => i = j
    BY <2>3, <2>4, <2>5 DEF IInv
  <2>8. active' \in {npos} \cup DOMAIN states'
    BY <1>1, <2>4 DEF IInv
  <2>9. ActiveKey' = ActiveKey
    BY <1>1, <2>4 DEF IInv, ActiveKey
  <2> QED
    BY <1>1, <2>4, <2>6, <2>7, <2>8, <2>9 DEF IInv, KeepsActiveKey
<1> QED
  BY <1>2, <1>3

\* Removing an entry moves the entries behind it down by one.
LEMMA RemoveAtEntries ==
    ASSUME NEW s, NEW n \in Nat, DOMAIN s = 1 .. n, Len(s) = n, NEW i \in 1 .. n
    PROVE  /\ Len(RemoveAt(s, i)) = n - 1 /\ DOMAIN RemoveAt(s, i) = 1 .. n - 1
           /\ \A j \in 1 .. n - 1 : RemoveAt(s, i)[j] = s[IF j < i THEN j ELSE j + 1]
<1>1. /\ Len(RemoveAt(s, i)) = n - 1 /\ DOMAIN RemoveAt(s, i) = 1 .. n - 1
  BY SMTT(60) DEF RemoveAt
<1>2. ASSUME NEW j \in 1 .. n - 1, j < i PROVE RemoveAt(s, i)[j] = s[j]
  BY <1>2, SMTT(60) DEF RemoveAt
<1>3. ASSUME NEW j \in 1 .. n - 1, j >= i PROVE RemoveAt(s, i)[j] = s[j + 1]
  BY <1>3, SMTT(60) DEF RemoveAt
<1> QED
  BY <1>1, <1>2, <1>3

\* active_ follows the KeyState it points to when one before it is erased.
LEMMA RemoveSortKeyStep ==
    ASSUME IInv, NEW k \in Name, remove_sort_key(k)
    PROVE  IInv' /\ KeepsActiveKey
<1>1. UNCHANGED <<items, val, direction, plan>>
  BY DEF remove_sort_key
<1>2. CASE find_state(k) = {}
  BY <1>1, <1>2, NoneUpdated, UpdatedInv, UpdatedActiveKey DEF IInv, remove_sort_key
<1>3. CASE find_state(k) # {}
  <2>1. PICK i \in find_state(k) :
            /\ states' = RemoveAt(states, i)
            /\ active' = IF active = i THEN npos
                         ELSE IF active # npos /\ active > i THEN active - 1 ELSE active
            /\ result' = Call("remove_sort_key", << >>, << >>, 1)
    BY <1>3 DEF remove_sort_key
  <2> DEFINE n == Len(states)
             at_(j) == IF j < i THEN j ELSE j + 1
  <2>2. /\ n \in Nat /\ DOMAIN states = 1 .. n
        /\ i \in 1 .. n /\ states[i].name = k
    BY DEF IInv, find_state
  <2>3. /\ Len(states') = n - 1 /\ DOMAIN states' = 1 .. n - 1
        /\ \A j \in 1 .. n - 1 : states'[j] = states[at_(j)]
    BY <2>1, <2>2, RemoveAtEntries
  <2>4. /\ \A j \in 1 .. n - 1 : at_(j) \in 1 .. n /\ at_(j) # i
        /\ \A j, l \in 1 .. n - 1 : at_(j) = at_(l) => j = l
        /\ \A j \in 1 .. n - 1 : (j < i => at_(j) = j) /\ (j >= i => at_(j) = j + 1)
        /\ n - 1 \in Nat
    BY <2>2
  <2> HIDE DEF n, at_
  <2>5. \A j \in DOMAIN states' : Consistent(states'[j], items', val')
    BY <1>1, <2>2, <2>3, <2>4 DEF IInv
  <2>6. \A j, l \in DOMAIN states' : states'[j].name = states'[l].name => j = l
    BY <2>2, <2>3, <2>4 DEF IInv
  <2>7. \A j \in DOMAIN states' : states'[j].name # k
    BY <2>2, <2>3, <2>4 DEF IInv
  <2>8. active' \in {npos} \cup DOMAIN states' /\ KeepsActiveKey
    <3>1. CASE active = npos
      <4>1. active' = npos
        BY <2>1, <2>2, <3>1 DEF npos
      <4> QED
        BY <3>1, <4>1 DEF KeepsActiveKey, ActiveKey
    <3>2. CASE active = i
      <4>1. active' = npos /\ ActiveKey' = "" /\ ActiveKey = k
        <5>1. active' = npos
          BY <2>1, <3>2
        <5>2. ActiveKey' = ""
          BY <5>1 DEF ActiveKey
        <5>3. active # npos
          BY <2>2, <3>2 DEF npos
        <5>4. ActiveKey = k
          BY <2>2, <3>2, <5>3 DEF ActiveKey
        <5> QED
          BY <5>1, <5>2, <5>4
      <4> QED
        BY <2>1, <2>7, <4>1 DEF KeepsActiveKey, Call
    <3>3. CASE active \in 1 .. n /\ active < i
      <4>1. active' = active /\ active \in 1 .. n - 1 /\ active' # npos /\ active # npos
        BY <2>1, <2>2, <3>3 DEF npos
      <4>2. states'[active'] = states[active]
        BY <2>3, <2>4, <3>3, <4>1
      <4> QED
        BY <2>3, <4>1, <4>2 DEF KeepsActiveKey, ActiveKey
    <3>4. CASE active \in 1 .. n /\ active > i
      <4>1. active' = active - 1 /\ active' \in 1 .. n - 1 /\ active' # npos /\ active # npos
            /\ active' >= i /\ active' + 1 = active
        <5>1. active # i /\ active # npos
          BY <2>2, <3>4 DEF npos
        <5>2. active' = active - 1
          BY <2>1, <3>4, <5>1
        <5> QED
          BY <2>2, <3>4, <5>1, <5>2 DEF npos
      <4>2. states'[active'] = states[active]
        BY <2>3, <2>4, <4>1
      <4> QED
        BY <2>3, <4>1, <4>2 DEF KeepsActiveKey, ActiveKey
    <3>5. active = npos \/ active \in 1 .. n
      BY <2>2 DEF IInv
    <3> QED
      BY <2>2, <3>1, <3>2, <3>3, <3>4, <3>5
  <2> QED
    BY <1>1, <2>3, <2>4, <2>5, <2>6, <2>8 DEF IInv
<1> QED
  BY <1>2, <1>3

\* sort_by makes the state of the sort key it names current and active.
LEMMA SortByStep ==
    ASSUME IInv, NEW k \in Name, NEW dir \in Direction, sort_by(k, dir)
    PROVE  Updated /\ IInv' /\ KeepsActiveKey
<1>1. UNCHANGED <<items, val, plan>>
  BY DEF sort_by
<1>2. CASE find_state(k) = {}
  BY <1>1, <1>2, NoneUpdated, UpdatedInv, UpdatedActiveKey DEF IInv, sort_by
<1>3. CASE find_state(k) # {}
  <2>1. PICK i \in find_state(k) :
            /\ active' = i /\ direction' = dir
            /\ states' = [states EXCEPT ![i] = prepare(states[i], items, val, plan)]
            /\ result' = Void("sort_by")
    BY <1>3 DEF sort_by
  <2>2. i \in DOMAIN states /\ items \in Seq(Handle)
    BY DEF find_state, IInv, Collection
  <2>3. /\ Consistent(prepare(states[i], items, val, plan), items, val)
        /\ prepare(states[i], items, val, plan).name = states[i].name
    BY <2>2, PrepareConsistent DEF IInv
  <2>4. Updated
    BY <1>1, <2>1, <2>2, <2>3, OneUpdated
  <2>5. active' \in {npos} \cup DOMAIN states' /\ direction' \in Direction
    BY <2>1, <2>2
  <2>6. KeepsActiveKey
    BY <2>1 DEF KeepsActiveKey, Void, Call
  <2> QED
    BY <1>1, <2>4, <2>5, <2>6, UpdatedInv DEF IInv
<1> QED
  BY <1>2, <1>3

\* unsort touches no state.
LEMMA UnsortStep ==
    ASSUME IInv, unsort
    PROVE  IInv' /\ KeepsActiveKey
<1>1. active' = npos /\ UNCHANGED <<items, val, states, direction, plan>>
  BY DEF unsort
<1>2. KeepsActiveKey
  BY DEF unsort, KeepsActiveKey, Void, Call
<1> QED
  BY <1>1, <1>2, NoneUpdated, UpdatedInv DEF IInv
-----------------------------------------------------------------------------
(* Steps that rebalance                                                    *)

\* Any state can be laid out anew under any plan.
LEMMA RelayoutEntry ==
    ASSUME IInv, NEW i \in DOMAIN states, NEW pl
    PROVE  /\ Consistent(relayout(states[i], items, val, pl), items, val)
           /\ relayout(states[i], items, val, pl).name = states[i].name
<1>1. /\ items \in Seq(Handle) /\ DOMAIN states[i] = KeyFields /\ states[i].name \in Name
      /\ DOMAIN states[i].keys = 1 .. Len(items) /\ KeysIn(states[i], items, val)
  BY DEF IInv, Collection, Consistent, KeyStateOK
<1> QED
  BY <1>1, RelayoutConsistent, RelayoutName

\* rebalance, rebalance_all and set_plan.
LEMMA TuneStep ==
    ASSUME IInv, Tune
    PROVE  Updated /\ IInv' /\ KeepsActiveKey
<1>1. UNCHANGED <<items, val, active, direction>> /\ plan' \in Plan
  BY DEF Tune, rebalance, rebalance_all, set_plan, IInv
<1>2. \/ UNCHANGED states
      \/ \E i \in DOMAIN states : states' = [states EXCEPT ![i] = relayout(states[i], items, val, plan)]
      \/ \E pl : states' = [i \in DOMAIN states |-> relayout(states[i], items, val, pl)]
  BY DEF Tune, rebalance, rebalance_all, set_plan, find_state
<1>3. Updated
  <2>1. CASE UNCHANGED states
    BY <1>1, <2>1, NoneUpdated
  <2>2. ASSUME NEW i \in DOMAIN states,
               states' = [states EXCEPT ![i] = relayout(states[i], items, val, plan)]
        PROVE  Updated
    BY <1>1, <2>2, RelayoutEntry, OneUpdated
  <2>3. ASSUME NEW pl, states' = [i \in DOMAIN states |-> relayout(states[i], items, val, pl)]
        PROVE  Updated
    <3>1. DOMAIN states' = DOMAIN states /\ Len(states') = Len(states)
      BY <2>3 DEF IInv
    <3>2. ASSUME NEW i \in DOMAIN states
          PROVE  Consistent(states'[i], items', val') /\ states'[i].name = states[i].name
      BY <1>1, <2>3, RelayoutEntry
    <3> QED
      BY <3>1, <3>2 DEF Updated
  <2> QED
    BY <1>2, <2>1, <2>2, <2>3
<1> QED
  BY <1>1, <1>3, UpdatedInv, UpdatedActiveKey DEF IInv, Updated
-----------------------------------------------------------------------------
(* Steps that change the collection                                        *)

\* append computes the entries of the new slots and keeps those of the old.
LEMMA AppendEntry ==
    ASSUME IInv, Extends(items, val, items', val'), NEW i \in DOMAIN states
    PROVE  /\ Consistent(append(states[i], Len(items), items', val'), items', val')
           /\ append(states[i], Len(items), items', val').name = states[i].name
<1>1. Consistent(states[i], items, val)
  BY DEF IInv
<1> QED
  BY <1>1, AppendConsistent

\* its2, vl2: the new, distinct elements hs, with the values vs, behind its, vl.
Extension(its, vl, m, hs, vs, its2, vl2) ==
    /\ m \in Nat /\ hs \in [1 .. m -> Handle \ ToSet(its)]
    /\ \A x, y \in 1 .. m : hs[x] = hs[y] => x = y
    /\ \A h \in ToSet(hs) : vs[h] \in Value
    /\ its2 = its \o hs
    /\ vl2 = [h \in DOMAIN vl \cup ToSet(hs) |-> IF h \in DOMAIN vl THEN vl[h] ELSE vs[h]]

\* add and add_all: fresh elements behind the old ones extend the collection.
LEMMA ExtendCollection ==
    ASSUME NEW its, NEW vl, NEW m, NEW hs, NEW vs, NEW its2, NEW vl2,
           Collection(its, vl), Extension(its, vl, m, hs, vs, its2, vl2)
    PROVE  Extends(its, vl, its2, vl2) /\ Len(its2) = Len(its) + m
<1> DEFINE n == Len(its)
<1>1. /\ n \in Nat /\ DOMAIN its = 1 .. n /\ its \in Seq(Handle) /\ m \in Nat
      /\ DOMAIN hs = 1 .. m /\ hs \in Seq(Handle) /\ Len(hs) = m
      /\ hs \in [1 .. m -> Handle \ ToSet(its)]
      /\ \A x, y \in 1 .. n : its[x] = its[y] => x = y
      /\ \A x, y \in 1 .. m : hs[x] = hs[y] => x = y
      /\ \A h \in ToSet(hs) : vs[h] \in Value
      /\ vl \in [ToSet(its) -> Value]
  <2>1. /\ m \in Nat /\ hs \in [1 .. m -> Handle \ ToSet(its)]
        /\ \A x, y \in 1 .. m : hs[x] = hs[y] => x = y
        /\ \A h \in ToSet(hs) : vs[h] \in Value
    BY DEF Extension
  <2>2. /\ n \in Nat /\ DOMAIN its = 1 .. n /\ its \in Seq(Handle)
        /\ \A x, y \in 1 .. n : its[x] = its[y] => x = y
        /\ vl \in [ToSet(its) -> Value]
    BY DEF Collection
  <2>3. DOMAIN hs = 1 .. m /\ hs \in Seq(Handle) /\ Len(hs) = m
    BY <2>1
  <2> QED
    BY <2>1, <2>2, <2>3
<1>2. /\ Len(its2) = n + m /\ DOMAIN its2 = 1 .. n + m /\ its2 \in Seq(Handle)
      /\ \A x \in 1 .. n : its2[x] = its[x]
      /\ \A x \in n + 1 .. n + m : its2[x] = hs[x - n] /\ x - n \in 1 .. m
  <2>1. its2 = its \o hs
    BY DEF Extension
  <2>2. Len(its2) = n + m /\ its2 \in Seq(Handle)
    <3>1. its \in Seq(Handle) /\ hs \in Seq(Handle) /\ Len(its) = n /\ Len(hs) = m
      BY <1>1
    <3>2. Behind(its \o hs, its, hs, Handle)
      BY <3>1, Concatenation
    <3> QED
      BY <2>1, <3>1, <3>2 DEF Behind
  <2>3. DOMAIN its2 = 1 .. n + m
    BY <2>2
  <2>4. \A x \in 1 .. n : its2[x] = its[x]
    BY <1>1, <2>1
  <2>5. \A x \in n + 1 .. n + m : its2[x] = hs[x - n] /\ x - n \in 1 .. m
    BY <1>1, <2>1
  <2> QED
    BY <2>2, <2>3, <2>4, <2>5
<1>3. ASSUME NEW x \in 1 .. n, NEW y \in 1 .. m
      PROVE  its[x] # hs[y]
  <2>1. its[x] \in ToSet(its)
    BY <1>1 DEF ToSet
  <2> QED
    BY <1>1, <2>1
<1> HIDE DEF n
<1>4. \A x, y \in DOMAIN its2 : its2[x] = its2[y] => x = y
  <2> SUFFICES ASSUME NEW x \in 1 .. n + m, NEW y \in 1 .. n + m, its2[x] = its2[y]
               PROVE  x = y
    BY <1>2
  <2>1. (x \in 1 .. n \/ x \in n + 1 .. n + m) /\ (y \in 1 .. n \/ y \in n + 1 .. n + m)
    BY <1>1
  <2>2. CASE x \in 1 .. n /\ y \in 1 .. n
    BY <1>1, <1>2, <2>2
  <2>3. CASE x \in n + 1 .. n + m /\ y \in n + 1 .. n + m
    <3>1. x - n = y - n
      BY <1>1, <1>2, <2>3
    <3> QED
      BY <1>1, <2>3, <3>1
  <2>4. CASE x \in 1 .. n /\ y \in n + 1 .. n + m
    BY <1>2, <1>3, <2>4
  <2>5. CASE x \in n + 1 .. n + m /\ y \in 1 .. n
    BY <1>2, <1>3, <2>5
  <2> QED
    BY <2>1, <2>2, <2>3, <2>4, <2>5
<1>5. ToSet(its2) = ToSet(its) \cup ToSet(hs)
  <2>1. ASSUME NEW y \in 1 .. m
        PROVE  \E x \in 1 .. n + m : its2[x] = hs[y]
    <3>1. n + y \in n + 1 .. n + m /\ n + y \in 1 .. n + m /\ (n + y) - n = y
      BY <1>1
    <3> QED
      BY <1>2, <3>1
  <2>2. ASSUME NEW y \in 1 .. n
        PROVE  \E x \in 1 .. n + m : its2[x] = its[y]
    BY <1>1, <1>2
  <2>3. ASSUME NEW x \in 1 .. n + m
        PROVE  (\E y \in 1 .. n : its2[x] = its[y]) \/ (\E y \in 1 .. m : its2[x] = hs[y])
    <3>1. x \in 1 .. n \/ x \in n + 1 .. n + m
      BY <1>1
    <3> QED
      BY <1>2, <3>1
  <2>4. /\ ToSet(its2) = {its2[x] : x \in 1 .. n + m}
        /\ ToSet(its) = {its[x] : x \in 1 .. n} /\ ToSet(hs) = {hs[x] : x \in 1 .. m}
    BY <1>1, <1>2 DEF ToSet
  <2> QED
    BY <2>1, <2>2, <2>3, <2>4
<1>6. vl2 \in [ToSet(its2) -> Value]
  BY <1>1, <1>5 DEF Extension
<1>7. \A x \in 1 .. n : vl2[its[x]] = vl[its[x]]
  BY <1>1 DEF Extension, ToSet
<1> QED
  BY <1>1, <1>2, <1>4, <1>6, <1>7 DEF Collection, Extends, n

\* add: the element that fits extends the collection.
LEMMA AddExtends ==
    ASSUME IInv, NEW h \in Fresh, NEW v \in Value, add(h, v), Len(items) < MaxItems
    PROVE  /\ Extends(items, val, items', val') /\ Len(items') = Len(items) + 1
           /\ states' = [i \in DOMAIN states |-> append(states[i], Len(items), items', val')]
<1> DEFINE hs == <<h>>
           vs == [x \in {h} |-> v]
<1>1. ~ (Len(items) >= MaxItems)
  BY BucketIndexAssumption DEF IInv, Collection
<1>2. /\ items' = Append(items, h) /\ val' = with_added(hs, vs)
      /\ states' = [i \in DOMAIN states |-> append(states[i], Len(items), items', val')]
  BY <1>1 DEF add
<1>3. Collection(items, val)
  BY DEF IInv
<1>4. /\ hs \in [1 .. 1 -> Handle \ ToSet(items)]
      /\ \A x, y \in 1 .. 1 : hs[x] = hs[y] => x = y
      /\ \A x \in ToSet(hs) : vs[x] \in Value
  BY DEF Fresh, ToSet
<1>5. items' = items \o hs
  BY <1>2, <1>3 DEF Collection, Fresh
<1>6. val' = [x \in DOMAIN val \cup ToSet(hs) |-> IF x \in DOMAIN val THEN val[x] ELSE vs[x]]
  BY <1>2 DEF with_added
<1> HIDE DEF hs, vs
<1>7. Extension(items, val, 1, hs, vs, items', val')
  BY <1>4, <1>5, <1>6 DEF Extension
<1> QED
  BY <1>2, <1>3, <1>7, ExtendCollection

\* add, with its refusal of an element past the limit.
LEMMA AddStep ==
    ASSUME IInv, NEW h \in Fresh, NEW v \in Value, add(h, v)
    PROVE  Updated /\ IInv' /\ KeepsActiveKey
<1>1. UNCHANGED <<active, direction, plan>>
  BY DEF add
<1>2. CASE Len(items) >= MaxItems
  BY <1>1, <1>2, NoneUpdated, UpdatedInv, UpdatedActiveKey DEF IInv, add
<1>3. CASE ~ (Len(items) >= MaxItems)
  <2>1. Collection(items, val) /\ Len(items) < MaxItems
    BY <1>3, BucketIndexAssumption DEF IInv, Collection
  <2>2. /\ Extends(items, val, items', val') /\ Len(items') = Len(items) + 1
        /\ states' = [i \in DOMAIN states |-> append(states[i], Len(items), items', val')]
    BY <2>1, AddExtends
  <2>3. Len(items') <= MaxItems
    BY <2>1, <2>2, BucketIndexAssumption DEF Collection
  <2>4. Collection(items', val')
    BY <2>2 DEF Extends
  <2>5. Updated
    <3>1. DOMAIN states' = DOMAIN states /\ Len(states') = Len(states)
      BY <2>2 DEF IInv
    <3>2. ASSUME NEW i \in DOMAIN states
          PROVE  Consistent(states'[i], items', val') /\ states'[i].name = states[i].name
      BY <2>2, AppendEntry
    <3> QED
      BY <3>1, <3>2 DEF Updated
  <2> QED
    BY <1>1, <2>3, <2>4, <2>5, UpdatedInv, UpdatedActiveKey DEF IInv, Updated
<1> QED
  BY <1>2, <1>3

\* Every state after add_all is what append makes of it, or then rebalanced.
AppendedTo(i) ==
    \/ states'[i] = append(states[i], Len(items), items', val')
    \/ states'[i] = maybe_auto_rebalance(append(states[i], Len(items), items', val'),
                                         items', val', plan)

\* add_all: the elements that fit extend the collection.
LEMMA AddAllExtends ==
    ASSUME IInv, NEW m \in Nat, NEW hs \in [1 .. m -> Fresh], IsInjective(hs),
           NEW vs \in [ToSet(hs) -> Value], add_all(hs, vs)
    PROVE  /\ Extends(items, val, items', val') /\ Len(items') <= MaxItems
           /\ \A i \in DOMAIN states : AppendedTo(i)
           /\ DOMAIN states' = DOMAIN states /\ Len(states') = Len(states)
           /\ UNCHANGED <<active, direction, plan>>
<1> DEFINE room == MaxItems - Len(items)
           f == min(Len(hs), room)
           fit == SubSeq(hs, 1, f)
<1>1. /\ items' = items \o fit /\ val' = with_added(fit, vs)
      /\ \A i \in DOMAIN states : AppendedTo(i)
      /\ DOMAIN states' = DOMAIN states /\ Len(states') = Len(states)
      /\ UNCHANGED <<active, direction, plan>>
  <2>1. states' = [i \in DOMAIN states |->
              IF Len(fit) < Len(hs) THEN append(states[i], Len(items), items', val')
              ELSE maybe_auto_rebalance(append(states[i], Len(items), items', val'),
                                        items', val', plan)]
    BY DEF add_all
  <2>2. items' = items \o fit /\ val' = with_added(fit, vs) /\ UNCHANGED <<active, direction, plan>>
    BY DEF add_all
  <2> HIDE DEF fit
  <2>3. DOMAIN states' = DOMAIN states /\ Len(states') = Len(states)
    BY <2>1 DEF IInv
  <2> QED
    BY <2>1, <2>2, <2>3 DEF AppendedTo
<1>2. /\ Collection(items, val) /\ Len(items) \in Nat /\ room \in Nat /\ Len(items) + room = MaxItems
  BY BucketIndexAssumption DEF IInv, Collection
<1>3. /\ f \in Nat /\ f <= m /\ f <= room
      /\ DOMAIN hs = 1 .. m /\ Len(hs) = m
  BY <1>2 DEF min
<1>4. /\ fit \in [1 .. f -> Handle \ ToSet(items)]
      /\ \A x \in 1 .. f : fit[x] = hs[x] /\ x \in 1 .. m
  <2>1. \A x \in 1 .. f : x \in 1 .. m /\ hs[x] \in Handle \ ToSet(items)
    BY <1>3 DEF Fresh
  <2>2. fit = [x \in 1 .. f |-> hs[x]]
    <3> HIDE DEF f
    <3> QED
      BY <1>3
  <2> QED
    BY <2>1, <2>2
<1> HIDE DEF f, fit, room
<1>5. /\ \A x, y \in 1 .. f : fit[x] = fit[y] => x = y
      /\ \A h \in ToSet(fit) : vs[h] \in Value
  <2>1. \A x, y \in 1 .. m : hs[x] = hs[y] => x = y
    BY <1>3 DEF IsInjective
  <2>2. \A x, y \in 1 .. f : fit[x] = fit[y] => x = y
    BY <1>4, <2>1
  <2>3. ASSUME NEW h \in ToSet(fit) PROVE vs[h] \in Value
    <3>1. PICK x \in 1 .. f : h = fit[x]
      BY <1>4 DEF ToSet
    <3>2. h \in ToSet(hs)
      BY <1>3, <1>4, <3>1 DEF ToSet
    <3> QED
      BY <3>2
  <2> QED
    BY <2>2, <2>3
<1>6. val' = [h \in DOMAIN val \cup ToSet(fit) |-> IF h \in DOMAIN val THEN val[h] ELSE vs[h]]
  BY <1>1 DEF with_added
<1>10. Extension(items, val, f, fit, vs, items', val')
  BY <1>1, <1>3, <1>4, <1>5, <1>6 DEF Extension
<1>7. Extends(items, val, items', val') /\ Len(items') = Len(items) + f
  BY <1>2, <1>10, ExtendCollection
<1>8. Len(items') <= MaxItems
  BY <1>2, <1>3, <1>7 DEF Collection, Extends
<1> QED
  BY <1>1, <1>7, <1>8

\* add_all adds what fits, even when it ends with an exception.
LEMMA AddAllStep ==
    ASSUME IInv, NEW m \in Nat, NEW hs \in [1 .. m -> Fresh], IsInjective(hs),
           NEW vs \in [ToSet(hs) -> Value], add_all(hs, vs)
    PROVE  Updated /\ IInv' /\ KeepsActiveKey
<1>1. /\ Extends(items, val, items', val') /\ Len(items') <= MaxItems
      /\ \A i \in DOMAIN states : AppendedTo(i)
      /\ DOMAIN states' = DOMAIN states /\ Len(states') = Len(states)
      /\ UNCHANGED <<active, direction, plan>>
  BY AddAllExtends
<1>2. items' \in Seq(Handle) /\ Collection(items', val')
  BY <1>1 DEF Collection, Extends
<1>3. Updated
  <2> SUFFICES ASSUME NEW i \in DOMAIN states
               PROVE  Consistent(states'[i], items', val') /\ states'[i].name = states[i].name
    BY <1>1 DEF Updated
  <2> DEFINE st == append(states[i], Len(items), items', val')
  <2>1. Consistent(st, items', val') /\ st.name = states[i].name
    BY <1>1, AppendEntry
  <2>2. states'[i] = st \/ states'[i] = maybe_auto_rebalance(st, items', val', plan)
    BY <1>1 DEF AppendedTo
  <2> HIDE DEF st
  <2>3. DOMAIN st = KeyFields /\ st.name \in Name
    BY <2>1 DEF Consistent, KeyStateOK
  <2> QED
    BY <1>2, <2>1, <2>2, <2>3, MaybeAutoRebalanceConsistent, MaybeAutoRebalanceName
<1> QED
  BY <1>1, <1>2, <1>3, UpdatedInv, UpdatedActiveKey DEF IInv, Updated

\* settled: nothing waits to be re-placed any more.
LEMMA SettledEntry ==
    ASSUME IInv, NEW i \in DOMAIN states
    PROVE  LET st == settled(states[i], Len(items))
           IN  /\ Consistent(st, items, val) /\ st.name = states[i].name
               /\ ~ (st.has_order /\ st.order_stale)
<1>1. Consistent(states[i], items, val) /\ items \in Seq(Handle)
  BY DEF IInv, Collection
<1>2. CASE states[i].has_order /\ states[i].order_stale
  BY <1>1, <1>2, RegroupConsistent DEF settled
<1>3. CASE ~ (states[i].has_order /\ states[i].order_stale)
  BY <1>1, <1>3 DEF settled
<1> QED
  BY <1>2, <1>3

\* remove_if: what is left are the elements in the slots that kept lists.
LEMMA RemoveReduction ==
    ASSUME IInv, NEW kept \in Selections(Len(items)), remove_if(kept), Len(kept) # Len(items)
    PROVE  /\ Reduction(items, val, Len(kept), kept, items', val')
           /\ states' = [i \in DOMAIN states |->
                  compact(settled(states[i], Len(items)), kept, items', val', plan)]
<1> DEFINE n == Len(items)
           m == Len(kept)
<1>1. Collection(items, val) /\ n \in Nat /\ DOMAIN items = 1 .. n
  BY DEF IInv, Collection
<1>2. /\ m \in 0 .. n /\ kept \in [1 .. m -> 1 .. n] /\ DOMAIN kept = 1 .. m
      /\ \A i, j \in 1 .. m : i < j => kept[i] < kept[j]
  <2>1. PICK l \in 0 .. MaxItems : kept \in [1 .. l -> 1 .. MaxItems]
    BY DEF Selections, Ascending
  <2>2. l = m /\ m \in Nat /\ DOMAIN kept = 1 .. m
    BY <2>1, BucketIndexAssumption
  <2>3. /\ m <= n /\ \A i \in DOMAIN kept : kept[i] <= n
        /\ \A i, j \in DOMAIN kept : i < j => kept[i] < kept[j]
    BY DEF Selections, Ascending
  <2> HIDE DEF m, n
  <2>4. \A i \in 1 .. m : kept[i] \in 1 .. n
    BY <1>1, <2>1, <2>2, <2>3, BucketIndexAssumption
  <2> QED
    BY <1>1, <2>1, <2>2, <2>3, <2>4
<1>3. m # n
  OBVIOUS
<1>4. /\ items' = [i \in DOMAIN kept |-> items[kept[i]]]
      /\ val' = [h \in {items[kept[i]] : i \in DOMAIN kept} |-> val[h]]
      /\ states' = [i \in DOMAIN states |->
            compact(settled(states[i], n), kept, items', val', plan)]
  BY <1>3 DEF remove_if
<1>5. states' = [i \in DOMAIN states |->
          compact(settled(states[i], Len(items)), kept, items', val', plan)]
  BY <1>4
<1> HIDE DEF m, n
<1>6. /\ items' = [i \in 1 .. m |-> items[kept[i]]]
      /\ val' = [h \in {items[kept[i]] : i \in 1 .. m} |-> val[h]]
  BY <1>2, <1>4
<1>7. \A i \in 1 .. m : val'[items[kept[i]]] = val[items[kept[i]]]
  BY <1>6
<1>8. Collection(items', val')
  <2>1. \A i \in 1 .. m : items[kept[i]] \in Handle /\ items[kept[i]] \in ToSet(items)
    BY <1>1, <1>2 DEF Collection, ToSet
  <2>2. items' \in Seq(Handle)
    BY <1>1, <1>2, <1>6, <2>1
  <2>3. \A x, y \in DOMAIN items' : items'[x] = items'[y] => x = y
    <3>1. \A i, j \in 1 .. m : kept[i] = kept[j] => i = j
      <4>1. m \in Nat
        BY <1>1, <1>2
      <4> QED
        BY <1>1, <1>2, <4>1, AscendingDistinct
    <3> QED
      BY <1>1, <1>2, <1>6, <3>1 DEF Collection
  <2>4. ToSet(items') = {items[kept[i]] : i \in 1 .. m}
    BY <1>6 DEF ToSet
  <2>5. val' \in [ToSet(items') -> Value]
    BY <1>1, <1>6, <2>1, <2>4 DEF Collection
  <2> QED
    BY <2>2, <2>3, <2>5 DEF Collection
<1>9. Reduction(items, val, m, kept, items', val')
  BY <1>1, <1>2, <1>6, <1>7, <1>8 DEF Reduction, n
<1> QED
  BY <1>5, <1>9 DEF m

\* remove_if: every state is settled first and then compacted.
LEMMA RemoveIfStep ==
    ASSUME IInv, NEW kept \in Selections(Len(items)), remove_if(kept)
    PROVE  Updated /\ IInv' /\ KeepsActiveKey
<1> DEFINE n == Len(items)
           m == Len(kept)
<1>1. UNCHANGED <<active, direction, plan>>
  BY DEF remove_if
<1>2. CASE m = n
  BY <1>1, <1>2, NoneUpdated, UpdatedInv, UpdatedActiveKey DEF IInv, remove_if
<1>3. CASE m # n
  <2>1. /\ Reduction(items, val, m, kept, items', val')
        /\ states' = [i \in DOMAIN states |->
              compact(settled(states[i], n), kept, items', val', plan)]
    BY <1>3, RemoveReduction
  <2>2. Collection(items', val')
    BY <2>1 DEF Reduction
  <2> HIDE DEF m
  <2>3. Len(items') <= MaxItems
    <3>1. m \in 0 .. Len(items) /\ items' = [i \in 1 .. m |-> items[kept[i]]]
          /\ Len(items) \in Nat /\ Len(items) <= MaxItems
      BY <2>1 DEF Reduction, IInv, Collection
    <3>2. Len(items') = m
      BY <3>1
    <3> QED
      BY <3>1, <3>2, BucketIndexAssumption
  <2>4. Updated
    <3>1. DOMAIN states' = DOMAIN states /\ Len(states') = Len(states)
      BY <2>1 DEF IInv
    <3>2. ASSUME NEW i \in DOMAIN states
          PROVE  Consistent(states'[i], items', val') /\ states'[i].name = states[i].name
      <4> DEFINE st == settled(states[i], n)
      <4>1. /\ Consistent(st, items, val) /\ st.name = states[i].name
            /\ ~ (st.has_order /\ st.order_stale)
        BY SettledEntry
      <4>2. states'[i] = compact(st, kept, items', val', plan)
        BY <2>1
      <4> HIDE DEF st, n
      <4>3. /\ Consistent(compact(st, kept, items', val', plan), items', val')
            /\ compact(st, kept, items', val', plan).name = st.name
        BY <2>1, <4>1, CompactConsistent
      <4> QED
        BY <4>1, <4>2, <4>3
    <3> QED
      BY <3>1, <3>2 DEF Updated
  <2> QED
    BY <1>1, <2>2, <2>3, <2>4, UpdatedInv, UpdatedActiveKey DEF IInv, Updated
<1> QED
  BY <1>2, <1>3

\* update_if: the states that lost a split element are laid out again.
LEMMA UpdateIfStep ==
    ASSUME IInv, NEW matching \in SUBSET DOMAIN items,
           NEW change \in [{items[x] : x \in matching} -> Value], update_if(matching, change)
    PROVE  Updated /\ IInv' /\ KeepsActiveKey
<1> DEFINE hit == {items[x] : x \in matching}
<1>1. /\ val' = [h \in DOMAIN val |-> IF h \in hit THEN change[h] ELSE val[h]]
      /\ states' = [i \in DOMAIN states |->
            IF rekey(states[i], matching, items, val').splitter_changed
            THEN relayout(rekey(states[i], matching, items, val'), items, val', plan)
            ELSE rekey(states[i], matching, items, val')]
      /\ UNCHANGED <<items, active, direction, plan>>
  BY DEF update_if, resplit
<1>2. Collection(items, val) /\ items \in Seq(Handle)
  BY DEF IInv, Collection
<1>3. Collection(items, val')
  BY <1>1, <1>2 DEF Collection
<1>4. \A x \in DOMAIN items : x \notin matching => val'[items[x]] = val[items[x]]
  BY <1>1, <1>2 DEF Collection, ToSet
<1> HIDE DEF hit
<1>5. Updated
  <2>1. DOMAIN states' = DOMAIN states /\ Len(states') = Len(states)
    BY <1>1 DEF IInv
  <2>2. ASSUME NEW i \in DOMAIN states
        PROVE  Consistent(states'[i], items', val') /\ states'[i].name = states[i].name
    <3> DEFINE t == rekey(states[i], matching, items, val')
    <3>1. Consistent(states[i], items, val)
      BY DEF IInv
    <3>2. /\ DOMAIN t = KeyFields /\ t.name = states[i].name
          /\ DOMAIN t.keys = 1 .. Len(items)
          /\ KeysIn(t, items, val')
          /\ t.splitter_changed = FALSE => Consistent(t, items, val')
          /\ t.splitter_changed \in BOOLEAN
      BY <1>2, <1>3, <1>4, <3>1, RekeyConsistent
    <3>3. states'[i] = IF t.splitter_changed THEN relayout(t, items, val', plan) ELSE t
      BY <1>1
    <3> HIDE DEF t
    <3>4. t.name \in Name
      BY <3>1, <3>2 DEF Consistent, KeyStateOK
    <3>5. Consistent(relayout(t, items, val', plan), items, val')
      BY <1>2, <3>2, <3>4, RelayoutConsistent
    <3>6. relayout(t, items, val', plan).name = t.name
      BY <3>2, RelayoutName
    <3> QED
      BY <1>1, <3>2, <3>3, <3>5, <3>6
  <2> QED
    BY <2>1, <2>2 DEF Updated
<1> QED
  BY <1>1, <1>3, <1>5, UpdatedInv, UpdatedActiveKey DEF IInv, Updated

\* clear lays every state out over no elements.
LEMMA ClearStep ==
    ASSUME IInv, clear
    PROVE  Updated /\ IInv' /\ KeepsActiveKey
<1> DEFINE emptied(st) == [st EXCEPT !.keys = << >>, !.buckets = << >>]
           r(st) == relayout(emptied(st), << >>, << >>, plan)
<1>1. /\ items' = << >> /\ val' = << >>
      /\ states' = [i \in DOMAIN states |-> r(states[i])]
      /\ UNCHANGED <<active, direction, plan>>
  BY DEF clear
<1>2. Collection(<< >>, << >>) /\ << >> \in Seq(Handle) /\ Len(<< >>) = 0
  BY DEF Collection, ToSet
<1>3. ASSUME NEW i \in DOMAIN states
      PROVE  Consistent(r(states[i]), << >>, << >>) /\ r(states[i]).name = states[i].name
  <2> DEFINE st == emptied(states[i])
  <2>1. DOMAIN states[i] = KeyFields /\ states[i].name \in Name
    BY DEF IInv, Consistent, KeyStateOK
  <2>2. DOMAIN st = KeyFields /\ st.name = states[i].name /\ st.keys = << >>
    BY <2>1 DEF KeyFields
  <2> HIDE DEF st
  <2>3. DOMAIN st.keys = 1 .. Len(<< >>) /\ KeysIn(st, << >>, << >>)
    BY <2>2 DEF KeysIn
  <2>4. Consistent(relayout(st, << >>, << >>, plan), << >>, << >>)
    BY <1>2, <2>1, <2>2, <2>3, RelayoutConsistent
  <2>5. relayout(st, << >>, << >>, plan).name = st.name
    BY <2>2, RelayoutName
  <2> QED
    BY <2>2, <2>4, <2>5 DEF st
<1> HIDE DEF r
<1>4. Updated
  <2>1. DOMAIN states' = DOMAIN states /\ Len(states') = Len(states)
    BY <1>1 DEF IInv
  <2> QED
    BY <1>1, <1>3, <2>1 DEF Updated
<1>5. Collection(items', val') /\ Len(items') <= MaxItems
  BY <1>1, <1>2, BucketIndexAssumption
<1> QED
  BY <1>1, <1>4, <1>5, UpdatedInv, UpdatedActiveKey DEF IInv, Updated
-----------------------------------------------------------------------------
(* The theorems                                                            *)

\* Every call of the index keeps the invariant and the active sort key.
LEMMA NextStep ==
    ASSUME IInv, [Next]_vars
    PROVE  IInv' /\ (KeepsActiveKey \/ UNCHANGED vars)
<1>1. CASE Read
  BY <1>1, ReadStep
<1>2. CASE Select
  <2>1. Directions \subseteq Direction
    BY BucketIndexAssumption
  <2> QED
    BY <1>2, <2>1, AddSortKeyStep, RemoveSortKeyStep, SortByStep, UnsortStep DEF Select
<1>3. CASE Tune
  BY <1>3, TuneStep
<1>4. CASE Change
  <2>1. ASSUME NEW h \in Fresh, NEW v \in Value, add(h, v)
        PROVE  IInv' /\ KeepsActiveKey
    BY <2>1, AddStep
  <2>2. ASSUME NEW m \in 0 .. MaxBulk, NEW hs \in [1 .. m -> Fresh], IsInjective(hs),
               NEW vs \in [ToSet(hs) -> Value], add_all(hs, vs)
        PROVE  IInv' /\ KeepsActiveKey
    BY <2>2, AddAllStep, BucketIndexAssumption
  <2>3. ASSUME NEW kept \in Selections(Len(items)), remove_if(kept)
        PROVE  IInv' /\ KeepsActiveKey
    BY <2>3, RemoveIfStep
  <2>4. ASSUME NEW matching \in SUBSET DOMAIN items,
               NEW change \in [{items[x] : x \in matching} -> Value], update_if(matching, change)
        PROVE  IInv' /\ KeepsActiveKey
    BY <2>4, UpdateIfStep
  <2>5. CASE clear
    BY <2>5, ClearStep
  <2> QED
    BY <1>4, <2>1, <2>2, <2>3, <2>4, <2>5 DEF Change
<1>5. CASE UNCHANGED vars
  BY <1>5 DEF IInv, vars
<1> QED
  BY <1>1, <1>2, <1>3, <1>4, <1>5 DEF Next

\* The invariant holds in every reachable state.
LEMMA Invariance == Spec => []IInv
<1>1. IInv /\ [Next]_vars => IInv'
  BY NextStep
<1> QED
  BY InitIInv, <1>1, PTL DEF Spec

\* The parallel arrays of every KeyState, which add, remove_if, update_if, clear
\* and relayout each resize on their own, never come to differ in length, and no
\* cached slot number is out of range.
THEOREM TypeCorrect == Spec => []TypeOK
<1>1. IInv => TypeOK
  BY DEF IInv, TypeOK, Collection, Consistent
<1> QED
  BY Invariance, <1>1, PTL

\* is_splitter recognises every element a layout refers to: update_if and compact
\* never leave a split point that refers to a changed or removed element.
THEOREM SplittersStayLive == Spec => []SplittersLive
<1>1. IInv => SplittersLive
  BY DEF IInv, SplittersLive, Consistent, SplittersIn
<1> QED
  BY Invariance, <1>1, PTL

\* append, rekey, compact and relayout keep the cached key and bucket id of every
\* slot equal to what the sort key and the layout give for the present value,
\* whatever layouts estimate returns.
THEOREM BucketsStayCurrent == Spec => []BucketsCurrent
<1>1. IInv => BucketsCurrent
  BY DEF IInv, BucketsCurrent, Slots, Consistent, KeysIn, BucketsIn
<1> QED
  BY Invariance, <1>1, PTL

\* order_stale_, ordered_slots and moved, which append, rekey, compact, regroup and
\* relayout maintain, always say when the cached grouping misses a change.
THEOREM NoSlotStaysForgotten == Spec => []NoSlotForgotten
<1>1. IInv => NoSlotForgotten
  BY DEF IInv, NoSlotForgotten, Consistent, FlagsIn
<1> QED
  BY Invariance, <1>1, PTL

\* remove_sort_key keeps active_ on the KeyState it pointed to, and no other call
\* but sort_by and unsort changes which sort key is active.
THEOREM ActiveKeyStays == Spec => ActiveKeyKept
<1>1. IInv /\ [Next]_vars => KeepsActiveKey \/ UNCHANGED vars
  BY NextStep
<1>2. IInv /\ [Next]_vars =>
        [ \/ ActiveKey' = ActiveKey
          \/ result'.op \in {"sort_by", "unsort"}
          \/ result'.op = "remove_sort_key" /\ ActiveKey' = ""
             /\ \A i \in DOMAIN states' : states'[i].name # ActiveKey ]_vars
  BY <1>1 DEF KeepsActiveKey
<1> QED
  BY Invariance, <1>2, PTL DEF Spec, ActiveKeyKept

-----------------------------------------------------------------------------
(* The stages                                                              *)

\* t has just been laid out for the elements its.
LaidOut(t, its, vl, pl) ==
    /\ Consistent(t, its, vl)
    /\ \E u : /\ DOMAIN u = KeyFields /\ u.name \in Name /\ DOMAIN u.keys = 1 .. Len(its)
              /\ t = relayout(u, its, vl, pl)

\* The check of maybe_auto_rebalance that a rebalance is due.
Due(st, n, pl) ==
    /\ st.churn >= max(pl.page_size, st.estimated_from \div 8)
    /\ is_stale(st, n, pl)

\* What happens to a KeyState while the collection stays the same.
Touched(s, t, its, vl, pl) ==
    /\ Consistent(t, its, vl)
    /\ \/ t = s
       \/ t = [s EXCEPT !.stale_checked_at = s.churn] /\ ~ Due(s, Len(its), pl)
       \/ LaidOut(t, its, vl, pl)
       \/ ~ s.has_order /\ t = build_order(s, Len(its))
       \/ s.has_order /\ s.order_stale /\ t = regroup(s, Len(its))
       \/ s.has_order /\ ~ s.order_stale /\ \E bs : t = sort_buckets(s, bs, its, vl)

\* Elements were added behind those of its.
Appended(s, t, its, vl, its2, vl2) ==
    Extends(its, vl, its2, vl2) /\ t = append(s, Len(its), its2, vl2)

\* Elements were removed, none of them one the layout splits on.
Compacted(s, t, its, vl, its2, vl2) ==
    \E m, kept, pl :
        /\ Reduction(its, vl, m, kept, its2, vl2) /\ m # Len(its)
        /\ ~ (s.has_order /\ s.order_stale)
        /\ s.splitter_slots \subseteq ToSet(kept)
        /\ t = compact(s, kept, its2, vl2, pl)

\* The elements in the slots hit were changed, none of them one the layout
\* splits on.
Rekeyed(s, t, its, vl, its2, vl2) ==
    /\ its2 = its /\ Collection(its, vl) /\ Collection(its, vl2)
    /\ \E hit \in SUBSET DOMAIN its :
          /\ hit \cap s.splitter_slots = {}
          /\ \A x \in DOMAIN its : x \notin hit => vl2[its[x]] = vl[its[x]]
          /\ t = rekey(s, hit, its, vl2)

Changed(s, t, its, vl, its2, vl2) ==
    /\ Consistent(t, its2, vl2)
    /\ \/ t = s /\ its2 = its /\ vl2 = vl
       \/ Appended(s, t, its, vl, its2, vl2)
       \/ Compacted(s, t, its, vl, its2, vl2)
       \/ Rekeyed(s, t, its, vl, its2, vl2)

\* Up to three stages before the change of the collection and one behind it.
Chain(s, s1, s2, s3, s4, t, its, vl, its2, vl2, pl) ==
    /\ Touched(s, s1, its, vl, pl) /\ Touched(s1, s2, its, vl, pl) /\ Touched(s2, s3, its, vl, pl)
    /\ Changed(s3, s4, its, vl, its2, vl2)
    /\ Touched(s4, t, its2, vl2, pl)

\* What a step may make of the state s.
Develops(s, t) ==
    \/ LaidOut(t, items', val', plan')
    \/ plan' = plan /\ \E s1, s2, s3, s4 : Chain(s, s1, s2, s3, s4, t, items, val, items', val', plan)
-----------------------------------------------------------------------------
(* The operations in stages                                                *)

\* maybe_auto_rebalance notes its check, unless it makes a new layout.
LEMMA RebalanceStage ==
    ASSUME NEW st, NEW its \in Seq(Handle), NEW vl, NEW pl, Consistent(st, its, vl)
    PROVE  Touched(st, maybe_auto_rebalance(st, its, vl, pl), its, vl, pl)
<1> DEFINE checked == [st EXCEPT !.stale_checked_at = st.churn]
           t == maybe_auto_rebalance(st, its, vl, pl)
<1>1. Consistent(t, its, vl)
  BY MaybeAutoRebalanceConsistent
<1>2. /\ DOMAIN checked = KeyFields /\ checked.name \in Name
      /\ DOMAIN checked.keys = 1 .. Len(its)
  BY DEF Consistent, KeyStateOK, KeyFields
<1>3. \/ t = st
      \/ t = checked /\ ~ Due(st, Len(its), pl)
      \/ t = relayout(checked, its, vl, pl)
  BY DEF maybe_auto_rebalance, Due
<1> HIDE DEF t
<1>4. CASE t = relayout(checked, its, vl, pl)
  <2> HIDE DEF checked
  <2>1. LaidOut(t, its, vl, pl)
    BY <1>1, <1>2, <1>4 DEF LaidOut
  <2> QED
    BY <1>1, <2>1 DEF Touched, t
<1>5. CASE t = st
  BY <1>1, <1>5 DEF Touched, t
<1>6. CASE t = checked /\ ~ Due(st, Len(its), pl)
  BY <1>1, <1>6 DEF Touched, t
<1> QED
  BY <1>3, <1>4, <1>5, <1>6

\* grouping builds the order or re-places what waits; then nothing waits.
LEMMA GroupingStage ==
    ASSUME NEW st, NEW its \in Seq(Handle), NEW vl, NEW pl, Consistent(st, its, vl)
    PROVE  LET t == grouping(st, Len(its))
           IN  Touched(st, t, its, vl, pl) /\ t.has_order /\ ~ t.order_stale
<1>1. CASE ~ st.has_order
  <2>1. grouping(st, Len(its)) = build_order(st, Len(its))
    BY <1>1 DEF grouping
  <2>2. build_order(st, Len(its)).has_order = TRUE /\ build_order(st, Len(its)).order_stale = FALSE
    BY DEF Consistent, KeyStateOK, KeyFields, build_order
  <2> QED
    BY <1>1, <2>1, <2>2, BuildOrderConsistent DEF Touched
<1>2. CASE st.has_order /\ st.order_stale
  <2>1. grouping(st, Len(its)) = regroup(st, Len(its))
    BY <1>2 DEF grouping
  <2>2. regroup(st, Len(its)).has_order = st.has_order /\ regroup(st, Len(its)).order_stale = FALSE
    BY DEF Consistent, KeyStateOK, KeyFields, regroup
  <2> QED
    BY <1>2, <2>1, <2>2, RegroupConsistent DEF Touched
<1>3. CASE st.has_order /\ ~ st.order_stale
  BY <1>3 DEF grouping, Touched
<1> QED
  BY <1>1, <1>2, <1>3

\* A read takes the active state through all three stages.
LEMMA ReadStages ==
    ASSUME NEW st, NEW its \in Seq(Handle), NEW vl, NEW pl, Consistent(st, its, vl)
    PROVE  LET s1 == maybe_auto_rebalance(st, its, vl, pl)
               s2 == prepare(st, its, vl, pl)
           IN  /\ Touched(st, s1, its, vl, pl)
               /\ Touched(s1, s2, its, vl, pl) /\ s2.has_order /\ ~ s2.order_stale
               /\ \A bs : Touched(s2, sort_buckets(s2, bs, its, vl), its, vl, pl)
<1> DEFINE s1 == maybe_auto_rebalance(st, its, vl, pl)
           s2 == prepare(st, its, vl, pl)
<1>1. Touched(st, s1, its, vl, pl)
  BY RebalanceStage
<1>2. s2 = grouping(s1, Len(its))
  BY DEF prepare
<1>3. Consistent(s1, its, vl)
  BY <1>1 DEF Touched
<1> HIDE DEF s1, s2
<1>4. Touched(s1, s2, its, vl, pl) /\ s2.has_order /\ ~ s2.order_stale
  BY <1>2, <1>3, GroupingStage
<1>5. ASSUME NEW bs
      PROVE  Touched(s2, sort_buckets(s2, bs, its, vl), its, vl, pl)
  <2>1. Consistent(s2, its, vl)
    BY <1>4 DEF Touched
  <2>2. Consistent(sort_buckets(s2, bs, its, vl), its, vl)
    BY <2>1, SortBucketsConsistent
  <2> QED
    BY <1>4, <2>2 DEF Touched
<1> QED
  BY <1>1, <1>4, <1>5 DEF s1, s2
-----------------------------------------------------------------------------
(* Every call in stages                                                    *)

\* A KeyState that a call leaves alone.
LEMMA IdleStages ==
    ASSUME NEW s, UNCHANGED <<items, val, plan>>, Consistent(s, items, val)
    PROVE  Develops(s, s)
<1>1. Touched(s, s, items, val, plan)
  BY DEF Touched
<1>2. Changed(s, s, items, val, items', val')
  BY DEF Changed
<1>3. Touched(s, s, items', val', plan)
  BY <1>1
<1>4. Chain(s, s, s, s, s, s, items, val, items', val', plan)
  BY <1>1, <1>2, <1>3 DEF Chain
<1> QED
  BY <1>4 DEF Develops

\* Three stages, and no change of the collection.
LEMMA TouchedStages ==
    ASSUME NEW s, NEW s1, NEW s2, NEW t, UNCHANGED <<items, val, plan>>,
           Touched(s, s1, items, val, plan), Touched(s1, s2, items, val, plan),
           Touched(s2, t, items, val, plan)
    PROVE  Develops(s, t)
<1>1. Consistent(t, items, val)
  BY DEF Touched
<1>2. Changed(t, t, items, val, items', val')
  BY <1>1 DEF Changed
<1>3. Touched(t, t, items', val', plan)
  BY <1>1 DEF Touched
<1>4. Chain(s, s1, s2, t, t, t, items, val, items', val', plan)
  BY <1>2, <1>3 DEF Chain
<1> QED
  BY <1>4 DEF Develops

\* What relayout returns has just been laid out.
LEMMA RelayoutStage ==
    ASSUME NEW u, NEW its \in Seq(Handle), NEW vl, NEW pl,
           DOMAIN u = KeyFields, u.name \in Name, DOMAIN u.keys = 1 .. Len(its),
           KeysIn(u, its, vl)
    PROVE  LaidOut(relayout(u, its, vl, pl), its, vl, pl)
  BY RelayoutConsistent DEF LaidOut

\* The states after a call: laid out anew, or developed from one before it.
StateFrom(j) ==
    \/ LaidOut(states'[j], items', val', plan')
    \/ \E i \in DOMAIN states : Develops(states[i], states'[j])

\* A call that changes no KeyState.
LEMMA IdleStep ==
    ASSUME IInv, UNCHANGED <<items, val, states, plan>>
    PROVE  \A j \in DOMAIN states' : StateFrom(j)
<1> SUFFICES ASSUME NEW j \in DOMAIN states'
             PROVE  StateFrom(j)
  OBVIOUS
<1>1. j \in DOMAIN states /\ states'[j] = states[j] /\ Consistent(states[j], items, val)
  BY DEF IInv
<1>2. Develops(states[j], states[j])
  BY <1>1, IdleStages
<1> QED
  BY <1>1, <1>2 DEF StateFrom

\* A call that changes one KeyState and not the collection.
LEMMA OneStep ==
    ASSUME IInv, UNCHANGED <<items, val, plan>>, NEW i \in DOMAIN states, NEW st,
           states' = [states EXCEPT ![i] = st],
           Develops(states[i], st) \/ LaidOut(st, items', val', plan')
    PROVE  \A j \in DOMAIN states' : StateFrom(j)
<1> SUFFICES ASSUME NEW j \in DOMAIN states'
             PROVE  StateFrom(j)
  OBVIOUS
<1>1. CASE j = i
  BY <1>1 DEF StateFrom
<1>2. CASE j # i
  <2>1. j \in DOMAIN states /\ states'[j] = states[j] /\ Consistent(states[j], items, val)
    BY <1>2 DEF IInv
  <2>2. Develops(states[j], states[j])
    BY <2>1, IdleStages
  <2> QED
    BY <2>1, <2>2 DEF StateFrom
<1> QED
  BY <1>1, <1>2

\* The reads prepare the active state and sort some of its buckets.
LEMMA ReadStates ==
    ASSUME IInv, Read
    PROVE  \A j \in DOMAIN states' : StateFrom(j)
<1>1. UNCHANGED <<items, val, active, direction, plan>>
  BY DEF Read, at, range, first_page, position_if, for_each, sort_all
<1>2. \/ UNCHANGED states
      \/ active # npos /\ \E st \in {prepare(states[active], items, val, plan)} : \E bs :
            states' = [states EXCEPT ![active] = sort_buckets(st, bs, items, val)]
  BY DEF Read, at, range, first_page, position_if, for_each, sort_all
<1>3. CASE UNCHANGED states
  BY <1>1, <1>3, IdleStep
<1>4. ASSUME active # npos, NEW bs,
             states' = [states EXCEPT ![active] =
                 sort_buckets(prepare(states[active], items, val, plan), bs, items, val)]
      PROVE  \A j \in DOMAIN states' : StateFrom(j)
  <2> DEFINE s == states[active]
             s1 == maybe_auto_rebalance(s, items, val, plan)
             s2 == prepare(s, items, val, plan)
             t == sort_buckets(s2, bs, items, val)
  <2>1. active \in DOMAIN states /\ items \in Seq(Handle) /\ Consistent(s, items, val)
    BY <1>4 DEF IInv, Collection
  <2>2. /\ Touched(s, s1, items, val, plan) /\ Touched(s1, s2, items, val, plan)
        /\ Touched(s2, t, items, val, plan)
    BY <2>1, ReadStages
  <2>3. states' = [states EXCEPT ![active] = t]
    BY <1>4
  <2> HIDE DEF s1, s2, t
  <2>4. Develops(s, t)
    BY <1>1, <2>2, TouchedStages
  <2> QED
    BY <1>1, <2>1, <2>3, <2>4, OneStep
<1> QED
  BY <1>2, <1>3, <1>4

\* add_sort_key, remove_sort_key, sort_by and unsort.
LEMMA SelectStates ==
    ASSUME IInv, Select
    PROVE  \A j \in DOMAIN states' : StateFrom(j)
<1>1. UNCHANGED <<items, val, plan>>
  BY DEF Select, add_sort_key, remove_sort_key, sort_by, unsort
<1>2. CASE UNCHANGED states
  BY <1>1, <1>2, IdleStep
<1>3. ASSUME NEW k \in Name, add_sort_key(k), find_state(k) = {}
      PROVE  \A j \in DOMAIN states' : StateFrom(j)
  <2> DEFINE st == new_state(k, [x \in DOMAIN items |-> key(k, val[items[x]])])
             r == relayout(st, items, val, plan)
             n == Len(states)
  <2>1. states' = Append(states, r)
    BY <1>3 DEF add_sort_key
  <2>2. /\ DOMAIN st = KeyFields /\ st.name \in Name
        /\ DOMAIN st.keys = 1 .. Len(items) /\ KeysIn(st, items, val)
        /\ items \in Seq(Handle)
    BY DEF new_state, KeyFields, KeysIn, IInv, Collection
  <2> HIDE DEF st
  <2>3. LaidOut(r, items', val', plan')
    BY <1>1, <2>2, RelayoutStage
  <2> HIDE DEF r
  <2>4. /\ n \in Nat /\ DOMAIN states = 1 .. n
        /\ DOMAIN states' = 1 .. n + 1
        /\ \A i \in 1 .. n : states'[i] = states[i]
        /\ states'[n + 1] = r
    BY <2>1 DEF IInv
  <2> HIDE DEF n
  <2> SUFFICES ASSUME NEW j \in 1 .. n + 1
               PROVE  StateFrom(j)
    BY <2>4
  <2>5. CASE j = n + 1
    BY <2>3, <2>4, <2>5 DEF StateFrom
  <2>6. CASE j # n + 1
    <3>1. j \in DOMAIN states /\ states'[j] = states[j] /\ Consistent(states[j], items, val)
      BY <2>4, <2>6 DEF IInv
    <3>2. Develops(states[j], states[j])
      BY <1>1, <3>1, IdleStages
    <3> QED
      BY <3>1, <3>2 DEF StateFrom
  <2> QED
    BY <2>5, <2>6
<1>4. ASSUME NEW k \in Name, remove_sort_key(k), find_state(k) # {}
      PROVE  \A j \in DOMAIN states' : StateFrom(j)
  <2>1. PICK i \in find_state(k) : states' = RemoveAt(states, i)
    BY <1>4 DEF remove_sort_key
  <2> DEFINE n == Len(states)
             at_(j) == IF j < i THEN j ELSE j + 1
  <2>2. n \in Nat /\ DOMAIN states = 1 .. n /\ i \in 1 .. n
    BY DEF IInv, find_state
  <2>3. /\ DOMAIN states' = 1 .. n - 1
        /\ \A j \in 1 .. n - 1 : states'[j] = states[at_(j)]
    BY <2>1, <2>2, RemoveAtEntries
  <2>4. \A j \in 1 .. n - 1 : at_(j) \in 1 .. n
    BY <2>2
  <2> HIDE DEF n, at_
  <2> SUFFICES ASSUME NEW j \in 1 .. n - 1
               PROVE  StateFrom(j)
    BY <2>3
  <2>5. at_(j) \in DOMAIN states /\ Consistent(states[at_(j)], items, val)
    BY <2>2, <2>4 DEF IInv
  <2>6. Develops(states[at_(j)], states'[j])
    BY <1>1, <2>3, <2>5, IdleStages
  <2> QED
    BY <2>5, <2>6 DEF StateFrom
<1>5. ASSUME NEW k \in Name, NEW dir, sort_by(k, dir), find_state(k) # {}
      PROVE  \A j \in DOMAIN states' : StateFrom(j)
  <2>1. PICK i \in find_state(k) :
            states' = [states EXCEPT ![i] = prepare(states[i], items, val, plan)]
    BY <1>5 DEF sort_by
  <2> DEFINE s == states[i]
             s1 == maybe_auto_rebalance(s, items, val, plan)
             t == prepare(s, items, val, plan)
  <2>2. i \in DOMAIN states /\ items \in Seq(Handle) /\ Consistent(s, items, val)
    BY DEF find_state, IInv, Collection
  <2>3. Touched(s, s1, items, val, plan) /\ Touched(s1, t, items, val, plan)
    BY <2>2, ReadStages
  <2>4. states' = [states EXCEPT ![i] = t]
    BY <2>1
  <2> HIDE DEF s1, t
  <2>5. Touched(t, t, items, val, plan)
    BY <2>3 DEF Touched
  <2>6. Develops(s, t)
    BY <1>1, <2>3, <2>5, TouchedStages
  <2> QED
    BY <1>1, <2>2, <2>4, <2>6, OneStep
<1>6. \/ UNCHANGED states
      \/ \E k \in Name : add_sort_key(k) /\ find_state(k) = {}
      \/ \E k \in Name : remove_sort_key(k) /\ find_state(k) # {}
      \/ \E k \in Name : \E dir \in Directions : sort_by(k, dir) /\ find_state(k) # {}
  <2>1. ASSUME NEW k \in Name, add_sort_key(k)
        PROVE  UNCHANGED states \/ find_state(k) = {}
    BY <2>1 DEF add_sort_key
  <2>2. ASSUME NEW k \in Name, remove_sort_key(k)
        PROVE  UNCHANGED states \/ find_state(k) # {}
    BY <2>2 DEF remove_sort_key
  <2>3. ASSUME NEW k \in Name, NEW dir \in Directions, sort_by(k, dir)
        PROVE  UNCHANGED states \/ find_state(k) # {}
    BY <2>3 DEF sort_by
  <2>4. CASE unsort
    BY <2>4 DEF unsort
  <2> QED
    BY <2>1, <2>2, <2>3, <2>4 DEF Select
<1> QED
  BY <1>2, <1>3, <1>4, <1>5, <1>6

\* Any state can be laid out anew under any plan.
LEMMA RelayoutEntryStage ==
    ASSUME IInv, NEW i \in DOMAIN states, NEW pl
    PROVE  LaidOut(relayout(states[i], items, val, pl), items, val, pl)
<1>1. /\ items \in Seq(Handle) /\ DOMAIN states[i] = KeyFields /\ states[i].name \in Name
      /\ DOMAIN states[i].keys = 1 .. Len(items) /\ KeysIn(states[i], items, val)
  BY DEF IInv, Collection, Consistent, KeyStateOK
<1> QED
  BY <1>1, RelayoutStage

\* rebalance, rebalance_all and set_plan.
LEMMA TuneStates ==
    ASSUME IInv, Tune
    PROVE  \A j \in DOMAIN states' : StateFrom(j)
<1>1. UNCHANGED <<items, val>>
  BY DEF Tune, rebalance, rebalance_all, set_plan
<1>2. \/ UNCHANGED <<states, plan>>
      \/ UNCHANGED plan /\ \E i \in DOMAIN states :
            states' = [states EXCEPT ![i] = relayout(states[i], items, val, plan)]
      \/ states' = [i \in DOMAIN states |-> relayout(states[i], items, val, plan')]
  <2>1. ASSUME NEW k \in Name, rebalance(k)
        PROVE  \/ UNCHANGED <<states, plan>>
               \/ UNCHANGED plan /\ \E i \in DOMAIN states :
                     states' = [states EXCEPT ![i] = relayout(states[i], items, val, plan)]
    BY <2>1 DEF rebalance, find_state
  <2>2. CASE rebalance_all
    BY <2>2 DEF rebalance_all
  <2>3. ASSUME NEW pl, set_plan(pl)
        PROVE  states' = [i \in DOMAIN states |-> relayout(states[i], items, val, plan')]
    BY <2>3 DEF set_plan
  <2> QED
    BY <2>1, <2>2, <2>3 DEF Tune
<1>3. CASE UNCHANGED <<states, plan>>
  BY <1>1, <1>3, IdleStep
<1>4. ASSUME UNCHANGED plan, NEW i \in DOMAIN states,
             states' = [states EXCEPT ![i] = relayout(states[i], items, val, plan)]
      PROVE  \A j \in DOMAIN states' : StateFrom(j)
  <2>1. LaidOut(relayout(states[i], items, val, plan), items', val', plan')
    BY <1>1, <1>4, RelayoutEntryStage
  <2> QED
    BY <1>1, <1>4, <2>1, OneStep
<1>5. ASSUME states' = [i \in DOMAIN states |-> relayout(states[i], items, val, plan')]
      PROVE  \A j \in DOMAIN states' : StateFrom(j)
  <2> SUFFICES ASSUME NEW j \in DOMAIN states
               PROVE  LaidOut(states'[j], items', val', plan')
    BY <1>5 DEF StateFrom
  <2>1. LaidOut(relayout(states[j], items, val, plan'), items, val, plan')
    BY RelayoutEntryStage
  <2> QED
    BY <1>1, <1>5, <2>1
<1> QED
  BY <1>2, <1>3, <1>4, <1>5

\* One change of the collection, with stages before and behind it.
LEMMA ChangedStages ==
    ASSUME NEW s, NEW s1, NEW s2, NEW t, UNCHANGED plan, Consistent(s, items, val),
           Touched(s, s1, items, val, plan), Changed(s1, s2, items, val, items', val'),
           Touched(s2, t, items', val', plan)
    PROVE  Develops(s, t)
<1>1. Touched(s, s, items, val, plan)
  BY DEF Touched
<1>2. Chain(s, s, s, s1, s2, t, items, val, items', val', plan)
  BY <1>1 DEF Chain
<1> QED
  BY <1>2 DEF Develops

\* add and add_all append; add_all may rebalance behind it.
LEMMA AppendStages ==
    ASSUME IInv, Extends(items, val, items', val'), UNCHANGED plan, NEW i \in DOMAIN states
    PROVE  LET st == append(states[i], Len(items), items', val')
           IN  Develops(states[i], st)
               /\ Develops(states[i], maybe_auto_rebalance(st, items', val', plan))
<1> DEFINE s == states[i]
           st == append(s, Len(items), items', val')
           t == maybe_auto_rebalance(st, items', val', plan)
<1>1. Consistent(s, items, val) /\ Touched(s, s, items, val, plan)
  BY DEF IInv, Touched
<1>2. Consistent(st, items', val')
  BY AppendEntry
<1>3. Changed(s, st, items, val, items', val')
  BY <1>2 DEF Changed, Appended
<1>4. items' \in Seq(Handle)
  BY DEF Extends, Collection
<1> HIDE DEF st
<1>5. Touched(st, st, items', val', plan) /\ Touched(st, t, items', val', plan)
  BY <1>2, <1>4, RebalanceStage DEF Touched
<1> QED
  BY <1>1, <1>3, <1>5, ChangedStages DEF st

\* compact lays the state out anew, or it only drops what was removed.
LEMMA CompactStages ==
    ASSUME NEW st, NEW its, NEW vl, NEW its2, NEW vl2, NEW pl, NEW m, NEW kept,
           Reduction(its, vl, m, kept, its2, vl2), Consistent(st, its, vl),
           ~ (st.has_order /\ st.order_stale), m # Len(its)
    PROVE  LET t == compact(st, kept, its2, vl2, pl)
           IN  LaidOut(t, its2, vl2, pl) \/ Changed(st, t, its, vl, its2, vl2)
<1> DEFINE t == compact(st, kept, its2, vl2, pl)
           n == Len(its)
           gone == 1 .. Len(st.buckets) \ ToSet(kept)
           filtered == [st EXCEPT
            !.keys = [i \in DOMAIN kept |-> st.keys[kept[i]]],
            !.buckets = [i \in DOMAIN kept |-> st.buckets[kept[i]]],
            !.counts = recounted(st, gone, << >>, {}),
            !.churn = st.churn + (Len(st.buckets) - Len(kept))]
<1>1. Consistent(t, its2, vl2)
  BY CompactConsistent
<1>2. /\ DOMAIN st = KeyFields /\ st.name \in Name /\ n \in Nat
      /\ DOMAIN kept = 1 .. m /\ Len(its2) = m
      /\ DOMAIN st.buckets = 1 .. n /\ st.splitter_slots \subseteq 1 .. n
  <2>1. /\ DOMAIN st = KeyFields /\ st.name \in Name /\ n \in Nat
        /\ DOMAIN st.buckets = 1 .. n /\ st.splitter_slots \subseteq 1 .. n
    BY DEF Reduction, Collection, Consistent, KeyStateOK
  <2>2. m \in Nat /\ kept \in [1 .. m -> 1 .. n] /\ its2 = [i \in 1 .. m |-> its[kept[i]]]
    BY <2>1 DEF Reduction
  <2> QED
    BY <2>1, <2>2
<1>3. CASE st.splitter_slots \cap gone # {}
  <2>1. t = relayout(filtered, its2, vl2, pl)
    BY <1>3 DEF compact
  <2>2. DOMAIN filtered = KeyFields /\ filtered.name \in Name /\ DOMAIN filtered.keys = 1 .. Len(its2)
    BY <1>2 DEF KeyFields
  <2> HIDE DEF t, filtered
  <2>3. LaidOut(t, its2, vl2, pl)
    BY <1>1, <2>1, <2>2 DEF LaidOut
  <2> QED
    BY <2>3 DEF t
<1>4. CASE st.splitter_slots \cap gone = {}
  <2>1. Len(st.buckets) = n
    BY <1>2
  <2>2. st.splitter_slots \subseteq ToSet(kept)
    BY <1>2, <1>4, <2>1
  <2>3. Compacted(st, t, its, vl, its2, vl2)
    BY <2>2 DEF Compacted
  <2> HIDE DEF t
  <2>4. Changed(st, t, its, vl, its2, vl2)
    BY <1>1, <2>3 DEF Changed
  <2> QED
    BY <2>4 DEF t
<1> QED
  BY <1>3, <1>4

\* remove_if: settle, then compact.
LEMMA RemoveIfStates ==
    ASSUME IInv, NEW kept \in Selections(Len(items)), remove_if(kept)
    PROVE  \A j \in DOMAIN states' : StateFrom(j)
<1>1. UNCHANGED plan
  BY DEF remove_if
<1>2. CASE Len(kept) = Len(items)
  <2>1. UNCHANGED <<items, val, states>>
    BY <1>2 DEF remove_if
  <2> QED
    BY <1>1, <2>1, IdleStep
<1>3. CASE Len(kept) # Len(items)
  <2> DEFINE n == Len(items)
             m == Len(kept)
  <2>1. /\ Reduction(items, val, m, kept, items', val')
        /\ states' = [i \in DOMAIN states |->
              compact(settled(states[i], n), kept, items', val', plan)]
    BY <1>3, RemoveReduction
  <2> SUFFICES ASSUME NEW i \in DOMAIN states
               PROVE  StateFrom(i)
    BY <2>1
  <2> DEFINE s == states[i]
             st == settled(s, n)
             t == compact(st, kept, items', val', plan)
  <2>2. /\ Consistent(st, items, val)
        /\ ~ (st.has_order /\ st.order_stale)
    BY SettledEntry
  <2>3. Consistent(s, items, val) /\ states'[i] = t
    BY <2>1 DEF IInv
  <2>4. Touched(s, st, items, val, plan)
    <3>1. CASE s.has_order /\ s.order_stale
      <4>1. st = regroup(s, n)
        BY <3>1 DEF settled
      <4> QED
        BY <2>2, <3>1, <4>1 DEF Touched
    <3>2. CASE ~ (s.has_order /\ s.order_stale)
      BY <2>3, <3>2 DEF settled, Touched
    <3> QED
      BY <3>1, <3>2
  <2> HIDE DEF st, m
  <2>5. LaidOut(t, items', val', plan) \/ Changed(st, t, items, val, items', val')
    BY <1>3, <2>1, <2>2, CompactStages DEF m
  <2> HIDE DEF t
  <2>6. CASE LaidOut(t, items', val', plan)
    BY <1>1, <2>3, <2>6 DEF StateFrom
  <2>7. CASE Changed(st, t, items, val, items', val')
    <3>1. Touched(t, t, items', val', plan)
      BY <2>7 DEF Changed, Touched
    <3>2. Develops(s, t)
      BY <1>1, <2>3, <2>4, <2>7, <3>1, ChangedStages
    <3> QED
      BY <2>3, <3>2 DEF StateFrom
  <2> QED
    BY <2>5, <2>6, <2>7
<1> QED
  BY <1>2, <1>3

\* update_if: rekey, and a new layout where a split element has changed.
LEMMA UpdateIfStates ==
    ASSUME IInv, NEW matching \in SUBSET DOMAIN items,
           NEW change \in [{items[x] : x \in matching} -> Value], update_if(matching, change)
    PROVE  \A j \in DOMAIN states' : StateFrom(j)
<1> DEFINE hit == {items[x] : x \in matching}
<1>1. /\ val' = [h \in DOMAIN val |-> IF h \in hit THEN change[h] ELSE val[h]]
      /\ states' = [i \in DOMAIN states |->
            IF rekey(states[i], matching, items, val').splitter_changed
            THEN relayout(rekey(states[i], matching, items, val'), items, val', plan)
            ELSE rekey(states[i], matching, items, val')]
      /\ UNCHANGED <<items, active, direction, plan>>
  BY DEF update_if, resplit
<1>2. Collection(items, val) /\ items \in Seq(Handle)
  BY DEF IInv, Collection
<1>3. Collection(items, val')
  BY <1>1, <1>2 DEF Collection
<1>4. \A x \in DOMAIN items : x \notin matching => val'[items[x]] = val[items[x]]
  BY <1>1, <1>2 DEF Collection, ToSet
<1> HIDE DEF hit
<1> SUFFICES ASSUME NEW i \in DOMAIN states
             PROVE  StateFrom(i)
  BY <1>1
<1> DEFINE s == states[i]
           t == rekey(s, matching, items, val')
<1>5. Consistent(s, items, val)
  BY DEF IInv
<1>6. /\ DOMAIN t = KeyFields /\ t.name = s.name
      /\ DOMAIN t.keys = 1 .. Len(items)
      /\ KeysIn(t, items, val')
      /\ t.splitter_changed = FALSE => Consistent(t, items, val')
      /\ t.splitter_changed \in BOOLEAN
  BY <1>2, <1>3, <1>4, <1>5, RekeyConsistent
<1>7. t.splitter_changed = IF matching \cap s.splitter_slots # {} THEN TRUE ELSE s.splitter_changed
  BY <1>5 DEF rekey, Consistent, KeyStateOK, KeyFields
<1>8. states'[i] = IF t.splitter_changed THEN relayout(t, items, val', plan) ELSE t
  BY <1>1
<1>9. CASE t.splitter_changed
  <2> HIDE DEF t
  <2>1. t.name \in Name
    BY <1>5, <1>6 DEF Consistent, KeyStateOK
  <2>2. LaidOut(relayout(t, items, val', plan), items, val', plan)
    BY <1>2, <1>6, <2>1, RelayoutStage
  <2> QED
    BY <1>1, <1>8, <1>9, <2>2 DEF StateFrom
<1>10. CASE ~ t.splitter_changed
  <2>1. Consistent(t, items, val') /\ matching \cap s.splitter_slots = {}
    BY <1>6, <1>7, <1>10
  <2>2. Rekeyed(s, t, items, val, items', val')
    BY <1>1, <1>2, <1>3, <1>4, <2>1 DEF Rekeyed
  <2> HIDE DEF t
  <2>3. Changed(s, t, items, val, items', val')
    BY <1>1, <2>1, <2>2 DEF Changed
  <2>4. Touched(s, s, items, val, plan) /\ Touched(t, t, items', val', plan)
    BY <1>1, <1>5, <2>1 DEF Touched
  <2>5. Develops(s, t)
    BY <1>1, <1>5, <2>3, <2>4, ChangedStages
  <2> QED
    BY <1>8, <1>10, <2>5 DEF StateFrom
<1> QED
  BY <1>9, <1>10

\* clear lays every state out over no elements.
LEMMA ClearStates ==
    ASSUME IInv, clear
    PROVE  \A j \in DOMAIN states' : StateFrom(j)
<1> DEFINE emptied(st) == [st EXCEPT !.keys = << >>, !.buckets = << >>]
           r(st) == relayout(emptied(st), << >>, << >>, plan)
<1>1. /\ items' = << >> /\ val' = << >> /\ plan' = plan
      /\ states' = [i \in DOMAIN states |-> r(states[i])]
  BY DEF clear
<1> SUFFICES ASSUME NEW i \in DOMAIN states
             PROVE  LaidOut(r(states[i]), << >>, << >>, plan)
  BY <1>1 DEF StateFrom
<1> DEFINE st == emptied(states[i])
<1>2. << >> \in Seq(Handle) /\ Len(<< >>) = 0
  OBVIOUS
<1>3. DOMAIN states[i] = KeyFields /\ states[i].name \in Name
  BY DEF IInv, Consistent, KeyStateOK
<1>4. DOMAIN st = KeyFields /\ st.name = states[i].name /\ st.keys = << >>
  BY <1>3 DEF KeyFields
<1> HIDE DEF st
<1>5. DOMAIN st.keys = 1 .. Len(<< >>) /\ KeysIn(st, << >>, << >>)
  BY <1>4 DEF KeysIn
<1>6. LaidOut(relayout(st, << >>, << >>, plan), << >>, << >>, plan)
  BY <1>2, <1>3, <1>4, <1>5, RelayoutStage
<1> QED
  BY <1>6 DEF st

\* add, add_all, remove_if, update_if and clear.
LEMMA ChangeStates ==
    ASSUME IInv, Change
    PROVE  \A j \in DOMAIN states' : StateFrom(j)
<1>1. ASSUME NEW h \in Fresh, NEW v \in Value, add(h, v)
      PROVE  \A j \in DOMAIN states' : StateFrom(j)
  <2>1. UNCHANGED plan
    BY <1>1 DEF add
  <2>2. CASE Len(items) >= MaxItems
    <3>1. UNCHANGED <<items, val, states>>
      BY <1>1, <2>2 DEF add
    <3> QED
      BY <2>1, <3>1, IdleStep
  <2>3. CASE ~ (Len(items) >= MaxItems)
    <3>1. Len(items) < MaxItems
      BY <2>3, BucketIndexAssumption DEF IInv, Collection
    <3>2. /\ Extends(items, val, items', val')
          /\ states' = [i \in DOMAIN states |-> append(states[i], Len(items), items', val')]
      BY <1>1, <3>1, AddExtends
    <3>3. \A i \in DOMAIN states : Develops(states[i], append(states[i], Len(items), items', val'))
      BY <2>1, <3>2, AppendStages
    <3> QED
      BY <3>2, <3>3 DEF StateFrom
  <2> QED
    BY <2>2, <2>3
<1>2. ASSUME NEW m \in 0 .. MaxBulk, NEW hs \in [1 .. m -> Fresh], IsInjective(hs),
             NEW vs \in [ToSet(hs) -> Value], add_all(hs, vs)
      PROVE  \A j \in DOMAIN states' : StateFrom(j)
  <2>1. /\ Extends(items, val, items', val')
        /\ \A i \in DOMAIN states : AppendedTo(i)
        /\ DOMAIN states' = DOMAIN states /\ plan' = plan
    BY <1>2, AddAllExtends, BucketIndexAssumption
  <2> SUFFICES ASSUME NEW i \in DOMAIN states
               PROVE  Develops(states[i], states'[i])
    BY <2>1 DEF StateFrom
  <2> QED
    BY <2>1, AppendStages DEF AppendedTo
<1>3. ASSUME NEW matching \in SUBSET DOMAIN items,
             NEW change \in [{items[x] : x \in matching} -> Value], update_if(matching, change)
      PROVE  \A j \in DOMAIN states' : StateFrom(j)
  BY <1>3, UpdateIfStates
<1>4. ASSUME NEW kept \in Selections(Len(items)), remove_if(kept)
      PROVE  \A j \in DOMAIN states' : StateFrom(j)
  BY <1>4, RemoveIfStates
<1>5. CASE clear
  BY <1>5, ClearStates
<1> QED
  BY <1>1, <1>2, <1>3, <1>4, <1>5 DEF Change

\* Whatever call is made, every KeyState after it is one that was just laid out
\* or developed from one before it.
LEMMA StateSteps ==
    ASSUME IInv, [Next]_vars
    PROVE  \A j \in DOMAIN states' : StateFrom(j)
<1>1. CASE UNCHANGED vars
  <2>1. UNCHANGED <<items, val, states, plan>>
    BY <1>1 DEF vars
  <2> QED
    BY <2>1, IdleStep
<1> QED
  BY <1>1, ReadStates, SelectStates, TuneStates, ChangeStates DEF Next
-----------------------------------------------------------------------------
(* The bucket sizes                                                        *)

CountsIn(st) == st.counts = tally(st.buckets, bucket_total(st))

\* A part of 1 .. n is finite.
LEMMA PartOfInterval ==
    ASSUME NEW n \in Nat, NEW S \in SUBSET (1 .. n)
    PROVE  IsFiniteSet(S) /\ Cardinality(S) \in Nat
<1>1. IsFiniteSet(1 .. n)
  BY CountUpTo
<1>2. IsFiniteSet(S)
  BY <1>1, FS_Subset
<1> QED
  BY <1>2, FS_CardinalityType

\* The size of a set after the elements of L left it and those of P came.
LEMMA CountAfter ==
    ASSUME NEW A, NEW P, NEW L \in SUBSET A, IsFiniteSet(A), IsFiniteSet(P),
           (A \ L) \cap P = {}
    PROVE  Cardinality((A \ L) \cup P) = Cardinality(A) - Cardinality(L) + Cardinality(P)
<1>1. /\ Cardinality(A \ L) = Cardinality(A) - Cardinality(A \cap L)
      /\ IsFiniteSet(A \ L) /\ A \cap L = L
  BY FS_Difference
<1>2. Cardinality((A \ L) \cup P)
          = Cardinality(A \ L) + Cardinality(P) - Cardinality((A \ L) \cap P)
  BY <1>1, FS_Union
<1>3. Cardinality({}) = 0
  BY FS_EmptySet
<1>4. /\ Cardinality(A) \in Nat /\ Cardinality(L) \in Nat /\ Cardinality(P) \in Nat
      /\ Cardinality(A \ L) \in Nat
  BY <1>1, FS_CardinalityType, FS_Subset
<1>5. Cardinality((A \ L) \cap P) = 0 /\ Cardinality(A \cap L) = Cardinality(L)
  BY <1>1, <1>3
<1> DEFINE a == Cardinality(A)
           l == Cardinality(L)
           p == Cardinality(P)
           d == Cardinality(A \ L)
           u == Cardinality((A \ L) \cup P)
<1>6. a \in Nat /\ l \in Nat /\ p \in Nat /\ d = a - l /\ u = d + p - 0
  BY <1>1, <1>2, <1>4, <1>5
<1> HIDE DEF a, l, p, d, u
<1>7. u = a - l + p
  BY <1>6
<1> QED
  BY <1>7 DEF a, l, p, u

\* recounted turns the counts of the old buckets into those of the new ones, when
\* left and placed are what differs between the two.
LEMMA RecountedTally ==
    ASSUME NEW st, NEW k, NEW n \in Nat, NEW m \in Nat, NEW bs,
           NEW left \in SUBSET (1 .. n), NEW placed \in SUBSET (1 .. m),
           DOMAIN st.buckets = 1 .. n, st.counts = tally(st.buckets, k),
           DOMAIN bs = 1 .. m,
           \A x \in 1 .. m : x \notin placed <=> x \in (1 .. n) \ left,
           (1 .. n) \ left \subseteq 1 .. m,
           \A x \in (1 .. n) \ left : bs[x] = st.buckets[x]
    PROVE  recounted(st, left, bs, placed) = tally(bs, k)
<1> SUFFICES ASSUME NEW b \in 1 .. k
             PROVE  st.counts[b] - Cardinality({x \in left : st.buckets[x] = b})
                                 + Cardinality({x \in placed : bs[x] = b})
                        = Cardinality({x \in DOMAIN bs : bs[x] = b})
  BY DEF recounted, tally
<1> DEFINE A == {x \in 1 .. n : st.buckets[x] = b}
           L == {x \in left : st.buckets[x] = b}
           P == {x \in placed : bs[x] = b}
<1>1. IsFiniteSet(A) /\ IsFiniteSet(P)
  BY PartOfInterval
<1>2. L \in SUBSET A /\ (A \ L) \cap P = {}
  OBVIOUS
<1>3. {x \in DOMAIN bs : bs[x] = b} = (A \ L) \cup P
  OBVIOUS
<1>4. st.counts[b] = Cardinality(A)
  BY DEF tally
<1> HIDE DEF A, L, P
<1>5. Cardinality((A \ L) \cup P) = Cardinality(A) - Cardinality(L) + Cardinality(P)
  BY <1>1, <1>2, CountAfter
<1> QED
  BY <1>3, <1>4, <1>5 DEF L, P

\* The slots kept that lie in bucket b are as many as those of bucket b without
\* the ones dropped.
SameCount(n, m, kept, bs, b) ==
    Cardinality({i \in 1 .. m : bs[kept[i]] = b})
        = Cardinality({x \in 1 .. n : bs[x] = b} \ {x \in (1 .. n) \ ToSet(kept) : bs[x] = b})


\* What is left of a set when slots are renumbered has the same size.
LEMMA CountRenumbered ==
    ASSUME NEW n \in Nat, NEW m \in Nat, NEW kept \in [1 .. m -> 1 .. n],
           \A i, j \in 1 .. m : kept[i] = kept[j] => i = j,
           NEW bs, NEW b
    PROVE  SameCount(n, m, kept, bs, b)
<1> DEFINE S == {i \in 1 .. m : bs[kept[i]] = b}
           T == {x \in 1 .. n : bs[x] = b} \ {x \in (1 .. n) \ ToSet(kept) : bs[x] = b}
           f == [i \in S |-> kept[i]]
<1>1. \A x \in 1 .. n : x \in ToSet(kept) <=> \E i \in 1 .. m : kept[i] = x
  BY DEF ToSet
<1>2. \A i \in S : f[i] \in T
  BY <1>1
<1>3. \A x \in T : \E i \in S : f[i] = x
  BY <1>1
<1>4. \A i, j \in S : f[i] = f[j] => i = j
  OBVIOUS
<1>5. IsFiniteSet(S)
  BY PartOfInterval
<1>6. f \in [S -> T]
  BY <1>2
<1> HIDE DEF S, T, f
<1>7. f \in Bijection(S, T)
  BY <1>3, <1>4, <1>6 DEF Bijection, Injection, Surjection, IsInjective
<1>8. ExistsBijection(S, T)
  BY <1>7 DEF ExistsBijection
<1> QED
  BY <1>5, <1>8, FS_Bijection DEF S, T, SameCount

\* Layouts that are the same have the same buckets.
LEMMA SameTotal ==
    ASSUME NEW s, NEW t, t.layouts = s.layouts
    PROVE  bucket_total(t) = bucket_total(s) /\ group_offset(t) = group_offset(s)
           /\ expected(t) = expected(s)
  BY DEF bucket_total, group_offset, expected

\* relayout counts the buckets it has assigned.
LEMMA LaidOutCounts ==
    ASSUME NEW t, NEW its, NEW vl, NEW pl, LaidOut(t, its, vl, pl)
    PROVE  CountsIn(t) /\ t.churn = 0 /\ t.stale_checked_at = npos
<1>1. PICK u : DOMAIN u = KeyFields /\ t = relayout(u, its, vl, pl)
  BY DEF LaidOut
<1> DEFINE estimated == estimate_layouts(u.name, values(its, vl), u.keys, pl)
           placed == with_buckets(with_layouts(u, estimated, its, vl), its, vl)
<1>2. DOMAIN placed = KeyFields
  BY <1>1 DEF with_layouts, with_buckets, KeyFields
<1>3. t = with_counts(placed, Len(its))
  BY <1>1 DEF relayout
<1> HIDE DEF placed
<1>4. /\ t.layouts = placed.layouts /\ t.buckets = placed.buckets
      /\ t.counts = tally(placed.buckets, bucket_total(placed))
      /\ t.churn = 0 /\ t.stale_checked_at = npos
  BY <1>2, <1>3 DEF with_counts, KeyFields
<1> QED
  BY <1>4, SameTotal DEF CountsIn

\* The fields append sets, and those it leaves alone.
AppendResult(t, s, n, its) ==
    /\ t.layouts = s.layouts /\ t.estimated_from = s.estimated_from
    /\ t.stale_checked_at = s.stale_checked_at
    /\ t.churn = s.churn + (Len(its) - n)
    /\ t.has_order = s.has_order /\ t.order = s.order /\ t.start = s.start
    /\ t.sorted_len = s.sorted_len /\ t.moved = s.moved
    /\ t.ordered_slots = s.ordered_slots
    /\ t.order_stale = IF s.has_order /\ Len(its) > n THEN TRUE ELSE s.order_stale
    /\ \A x \in DOMAIN its : x <= n => t.buckets[x] = s.buckets[x]
    /\ t.counts = recounted(s, {}, t.buckets, n + 1 .. Len(its))

\* append does this.
LEMMA AppendFields ==
    ASSUME NEW s, NEW n, NEW its, NEW vl, DOMAIN s = KeyFields
    PROVE  AppendResult(append(s, n, its, vl), s, n, its)
  BY DEF append, KeyFields, AppendResult

\* The fields rekey sets, and those it leaves alone.
RekeyResult(t, s, hit, its) ==
    LET placed == {x \in hit : s.has_order /\ x <= s.ordered_slots}
    IN  /\ t.layouts = s.layouts /\ t.estimated_from = s.estimated_from
        /\ t.stale_checked_at = s.stale_checked_at
        /\ t.churn = s.churn + Cardinality(hit)
        /\ t.has_order = s.has_order /\ t.order = s.order /\ t.start = s.start
        /\ t.sorted_len = s.sorted_len /\ t.ordered_slots = s.ordered_slots
        /\ t.moved = s.moved \cup placed
        /\ t.order_stale = IF placed # {} THEN TRUE ELSE s.order_stale
        /\ \A x \in DOMAIN its : x \notin hit => t.buckets[x] = s.buckets[x]
        /\ t.counts = recounted(s, hit, t.buckets, hit)

\* rekey does this.
LEMMA RekeyFields ==
    ASSUME NEW s, NEW hit, NEW its, NEW vl, DOMAIN s = KeyFields
    PROVE  RekeyResult(rekey(s, hit, its, vl), s, hit, its)
  BY DEF rekey, KeyFields, RekeyResult

\* What compact keeps of the slots grouped into each bucket.
survivors_of(s, kept) == [b \in 1 .. Len(s.start) - 1 |-> only(grouped(s, b), ToSet(kept))]

\* The fields compact sets without a new layout, m of n slots staying.
CompactResult(t, s, kept, n, m) ==
    /\ t.layouts = s.layouts /\ t.estimated_from = s.estimated_from
    /\ t.stale_checked_at = s.stale_checked_at
    /\ t.churn = s.churn + (n - m)
    /\ t.has_order = s.has_order /\ t.order_stale = s.order_stale
    /\ t.buckets = [i \in 1 .. m |-> s.buckets[kept[i]]]
    /\ t.counts = recounted(s, (1 .. n) \ ToSet(kept), << >>, {})
    /\ s.has_order =>
          LET parts == survivors_of(s, kept)
              all == joined(parts)
          IN  /\ t.order = [i \in DOMAIN all |-> remap(kept, all[i])]
              /\ t.start = prefix_sums([b \in DOMAIN parts |-> Len(parts[b])])
              /\ t.sorted_len = surviving_prefix(s, ToSet(kept))
              /\ t.moved = {} /\ t.ordered_slots = m

\* compact does this when no element the layout splits on is removed.
LEMMA CompactFields ==
    ASSUME NEW s, NEW kept, NEW its, NEW vl, NEW pl, NEW n \in Nat, NEW m \in Nat,
           DOMAIN s = KeyFields, DOMAIN s.buckets = 1 .. n, DOMAIN kept = 1 .. m,
           s.splitter_slots \subseteq ToSet(kept)
    PROVE  CompactResult(compact(s, kept, its, vl, pl), s, kept, n, m)
<1>1. Len(s.buckets) = n /\ Len(kept) = m
  OBVIOUS
<1> DEFINE gone == (1 .. n) \ ToSet(kept)
           filtered == [s EXCEPT
            !.keys = [i \in DOMAIN kept |-> s.keys[kept[i]]],
            !.buckets = [i \in DOMAIN kept |-> s.buckets[kept[i]]],
            !.counts = recounted(s, gone, << >>, {}),
            !.churn = s.churn + (n - m)]
           remapped == [filtered EXCEPT
            !.splitter_slots = {remap(kept, x) : x \in s.splitter_slots}]
           parts == survivors_of(s, kept)
           regrouped == [remapped EXCEPT
                !.order = LET all == joined(parts) IN [i \in DOMAIN all |-> remap(kept, all[i])],
                !.start = prefix_sums([b \in DOMAIN parts |-> Len(parts[b])]),
                !.sorted_len = surviving_prefix(s, ToSet(kept)),
                !.moved = {},
                !.ordered_slots = m]
           t == compact(s, kept, its, vl, pl)
<1>2. s.splitter_slots \cap gone = {}
  OBVIOUS
<1>3. /\ DOMAIN remapped = KeyFields
      /\ remapped.layouts = s.layouts /\ remapped.estimated_from = s.estimated_from
      /\ remapped.stale_checked_at = s.stale_checked_at
      /\ remapped.churn = s.churn + (n - m)
      /\ remapped.has_order = s.has_order /\ remapped.order_stale = s.order_stale
      /\ remapped.buckets = [i \in 1 .. m |-> s.buckets[kept[i]]]
      /\ remapped.counts = recounted(s, gone, << >>, {})
  BY DEF KeyFields
<1>4. t = IF s.has_order THEN regrouped ELSE remapped
  BY <1>1, <1>2 DEF compact, survivors_of
<1> HIDE DEF remapped
<1>5. CASE s.has_order
  <2> HIDE DEF parts
  <2>1. /\ regrouped.order = (LET all == joined(parts) IN [i \in DOMAIN all |-> remap(kept, all[i])])
        /\ regrouped.start = prefix_sums([b \in DOMAIN parts |-> Len(parts[b])])
        /\ regrouped.sorted_len = surviving_prefix(s, ToSet(kept))
        /\ regrouped.moved = {} /\ regrouped.ordered_slots = m
        /\ regrouped.layouts = remapped.layouts /\ regrouped.estimated_from = remapped.estimated_from
        /\ regrouped.stale_checked_at = remapped.stale_checked_at
        /\ regrouped.churn = remapped.churn
        /\ regrouped.has_order = remapped.has_order /\ regrouped.order_stale = remapped.order_stale
        /\ regrouped.buckets = remapped.buckets /\ regrouped.counts = remapped.counts
    BY <1>3 DEF KeyFields
  <2>2. t = regrouped
    BY <1>4, <1>5
  <2> HIDE DEF regrouped, t
  <2> QED
    BY <1>3, <2>1, <2>2 DEF CompactResult, parts, t
<1>6. CASE ~ s.has_order
  <2>1. t = remapped
    BY <1>4, <1>6
  <2> HIDE DEF t
  <2> QED
    BY <1>3, <1>6, <2>1 DEF CompactResult, t
<1> QED
  BY <1>5, <1>6

\* The change of the collection keeps the counts exact.
LEMMA ChangedCounts ==
    ASSUME NEW s, NEW t, NEW its, NEW vl, NEW its2, NEW vl2,
           Consistent(s, its, vl), Changed(s, t, its, vl, its2, vl2), CountsIn(s)
    PROVE  CountsIn(t)
<1> DEFINE n == Len(its)
           m == Len(its2)
<1>1. DOMAIN s = KeyFields /\ DOMAIN s.buckets = 1 .. n /\ DOMAIN t.buckets = 1 .. m
  BY DEF Changed, Consistent, KeyStateOK
<1>2. CASE t = s
  BY <1>2
<1>3. CASE Appended(s, t, its, vl, its2, vl2)
  <2>1. n \in Nat /\ m \in Nat /\ n <= m
    BY <1>3 DEF Appended, Extends, Collection
  <2>6. AppendResult(t, s, n, its2)
    BY <1>1, <1>3, AppendFields DEF Appended
  <2>2. /\ t.layouts = s.layouts
        /\ \A x \in DOMAIN its2 : x <= n => t.buckets[x] = s.buckets[x]
        /\ t.counts = recounted(s, {}, t.buckets, n + 1 .. m)
    BY <2>6 DEF AppendResult
  <2>3. DOMAIN its2 = 1 .. m
    BY <1>3 DEF Appended, Extends, Collection
  <2> HIDE DEF n, m
  <2>4. recounted(s, {}, t.buckets, n + 1 .. m) = tally(t.buckets, bucket_total(s))
    <3> DEFINE placed == n + 1 .. m
               left == {}
               bs == t.buckets
               k == bucket_total(s)
    <3>1. /\ \A x \in 1 .. m : x \notin placed <=> x \in (1 .. n) \ left
          /\ placed \in SUBSET (1 .. m) /\ (1 .. n) \ left \subseteq 1 .. m
          /\ left \in SUBSET (1 .. n)
      BY <2>1
    <3>2. \A x \in (1 .. n) \ left : bs[x] = s.buckets[x]
      BY <2>1, <2>2, <2>3
    <3>3. s.counts = tally(s.buckets, k)
      BY DEF CountsIn
    <3>4. DOMAIN s.buckets = 1 .. n /\ DOMAIN bs = 1 .. m
      BY <1>1
    <3> HIDE DEF placed, left, bs, k
    <3>5. recounted(s, left, bs, placed) = tally(bs, k)
      BY <2>1, <3>1, <3>2, <3>3, <3>4, RecountedTally
    <3> QED
      BY <3>5 DEF placed, left, bs, k
  <2> QED
    BY <2>2, <2>4, SameTotal DEF CountsIn
<1>4. CASE Rekeyed(s, t, its, vl, its2, vl2)
  <2>1. PICK hit \in SUBSET DOMAIN its : t = rekey(s, hit, its, vl2)
    BY <1>4 DEF Rekeyed
  <2>2. n \in Nat /\ DOMAIN its = 1 .. n /\ its2 = its
    BY <1>4 DEF Rekeyed, Collection
  <2>6. RekeyResult(t, s, hit, its)
    BY <1>1, <2>1, RekeyFields
  <2>3. /\ t.layouts = s.layouts
        /\ \A x \in DOMAIN its : x \notin hit => t.buckets[x] = s.buckets[x]
        /\ t.counts = recounted(s, hit, t.buckets, hit)
    BY <2>6 DEF RekeyResult
  <2>4. DOMAIN t.buckets = 1 .. n
    BY <1>1, <2>2
  <2> HIDE DEF n, m
  <2>5. recounted(s, hit, t.buckets, hit) = tally(t.buckets, bucket_total(s))
    <3>1. /\ \A x \in 1 .. n : x \notin hit <=> x \in (1 .. n) \ hit
          /\ \A x \in (1 .. n) \ hit : t.buckets[x] = s.buckets[x]
          /\ hit \in SUBSET (1 .. n) /\ (1 .. n) \ hit \subseteq 1 .. n
      BY <2>2, <2>3
    <3>2. s.counts = tally(s.buckets, bucket_total(s))
      BY DEF CountsIn
    <3> QED
      BY <1>1, <2>2, <2>4, <3>1, <3>2, RecountedTally
  <2> QED
    BY <2>3, <2>5, SameTotal DEF CountsIn
<1>5. CASE Compacted(s, t, its, vl, its2, vl2)
  <2>1. PICK l, kept, pl :
            /\ Reduction(its, vl, l, kept, its2, vl2)
            /\ s.splitter_slots \subseteq ToSet(kept)
            /\ t = compact(s, kept, its2, vl2, pl)
    BY <1>5 DEF Compacted
  <2>2. /\ n \in Nat /\ l \in Nat /\ l <= n /\ kept \in [1 .. l -> 1 .. n]
        /\ \A i, j \in 1 .. l : i < j => kept[i] < kept[j]
    BY <2>1 DEF Reduction, Collection
  <2>3. DOMAIN kept = 1 .. l
    BY <2>2
  <2> HIDE DEF n, m
  <2>11. CompactResult(t, s, kept, n, l)
    BY <1>1, <2>1, <2>2, <2>3, CompactFields
  <2>4. /\ t.layouts = s.layouts
        /\ t.buckets = [i \in 1 .. l |-> s.buckets[kept[i]]]
        /\ t.counts = recounted(s, (1 .. n) \ ToSet(kept), << >>, {})
    BY <2>11 DEF CompactResult
  <2> DEFINE k == bucket_total(s)
  <2>5. s.counts = tally(s.buckets, k)
    BY DEF CountsIn
  <2> HIDE DEF k
  <2>6. \A i, j \in 1 .. l : kept[i] = kept[j] => i = j
    BY <2>2, AscendingDistinct
  <2>7. ASSUME NEW b \in 1 .. k
        PROVE  s.counts[b] - Cardinality({x \in (1 .. n) \ ToSet(kept) : s.buckets[x] = b})
                           + Cardinality({x \in {} : << >>[x] = b})
                    = Cardinality({i \in 1 .. l : t.buckets[i] = b})
    <3> DEFINE A == {x \in 1 .. n : s.buckets[x] = b}
               L == {x \in (1 .. n) \ ToSet(kept) : s.buckets[x] = b}
    <3> DEFINE bs == s.buckets
    <3> HIDE DEF bs
    <3>7. Cardinality({i \in 1 .. l : bs[kept[i]] = b})
            = Cardinality({x \in 1 .. n : bs[x] = b} \ {x \in (1 .. n) \ ToSet(kept) : bs[x] = b})
      <4>1. SameCount(n, l, kept, bs, b)
        BY <2>2, <2>6, CountRenumbered
      <4> QED
        BY <4>1 DEF SameCount
    <3>1. Cardinality({i \in 1 .. l : s.buckets[kept[i]] = b}) = Cardinality(A \ L)
      BY <3>7 DEF bs
    <3>2. {i \in 1 .. l : t.buckets[i] = b} = {i \in 1 .. l : s.buckets[kept[i]] = b}
      BY <2>4
    <3>3. {x \in {} : << >>[x] = b} = {} /\ IsFiniteSet({}) /\ Cardinality({}) = 0
      BY FS_EmptySet
    <3>4. IsFiniteSet(A) /\ L \in SUBSET A /\ (A \ L) \cap {} = {} /\ (A \ L) \cup {} = A \ L
      BY <2>2, PartOfInterval
    <3>5. s.counts[b] = Cardinality(A)
      BY <1>1, <2>5 DEF tally
    <3> HIDE DEF A, L
    <3>6. Cardinality((A \ L) \cup {}) = Cardinality(A) - Cardinality(L) + Cardinality({})
      BY <3>3, <3>4, CountAfter
    <3> QED
      BY <3>1, <3>2, <3>3, <3>4, <3>5, <3>6 DEF L
  <2>8. recounted(s, (1 .. n) \ ToSet(kept), << >>, {})
            = [b \in 1 .. k |-> s.counts[b]
                  - Cardinality({x \in (1 .. n) \ ToSet(kept) : s.buckets[x] = b})
                  + Cardinality({x \in {} : << >>[x] = b})]
    BY <2>5 DEF recounted, tally
  <2>9. tally(t.buckets, k) = [b \in 1 .. k |-> Cardinality({i \in 1 .. l : t.buckets[i] = b})]
    <3>1. DOMAIN t.buckets = 1 .. l
      BY <2>4
    <3> QED
      BY <3>1 DEF tally
  <2>10. t.counts = tally(t.buckets, k)
    BY <2>4, <2>7, <2>8, <2>9
  <2> QED
    BY <2>4, <2>10, SameTotal DEF CountsIn, k
<1> QED
  BY <1>2, <1>3, <1>4, <1>5 DEF Changed

\* What grouping and sorting leave alone of the bookkeeping.
LEMMA TouchedBooks ==
    ASSUME NEW s, NEW t, NEW its, NEW vl, NEW pl, DOMAIN s = KeyFields, Touched(s, t, its, vl, pl)
    PROVE  \/ LaidOut(t, its, vl, pl)
           \/ /\ t.layouts = s.layouts /\ t.buckets = s.buckets /\ t.counts = s.counts
              /\ t.churn = s.churn /\ t.estimated_from = s.estimated_from
              /\ \/ t.stale_checked_at = s.stale_checked_at
                 \/ t.stale_checked_at = s.churn /\ ~ Due(s, Len(its), pl)
<1>1. CASE t = [s EXCEPT !.stale_checked_at = s.churn] /\ ~ Due(s, Len(its), pl)
  BY <1>1 DEF KeyFields
<1>2. CASE t = build_order(s, Len(its))
  BY <1>2 DEF KeyFields, build_order
<1>3. CASE t = regroup(s, Len(its))
  BY <1>3 DEF KeyFields, regroup
<1>4. ASSUME NEW bs, t = sort_buckets(s, bs, its, vl)
      PROVE  /\ t.layouts = s.layouts /\ t.buckets = s.buckets /\ t.counts = s.counts
             /\ t.churn = s.churn /\ t.estimated_from = s.estimated_from
             /\ t.stale_checked_at = s.stale_checked_at
  BY <1>4 DEF KeyFields, sort_buckets
<1> QED
  BY <1>1, <1>2, <1>3, <1>4 DEF Touched
-----------------------------------------------------------------------------
(* The check for a rebalance                                               *)

\* Where the check was already made for the present number of changes, it would
\* find nothing now either.
SkipsIn(st, n, pl) ==
    /\ st.stale_checked_at <= st.churn
    /\ st.churn = st.stale_checked_at => ~ Due(st, n, pl)

\* The counts and the check are in order.
BooksIn(st, n, pl) == CountsIn(st) /\ SkipsIn(st, n, pl)

\* Due depends on nothing but the counts, the layouts and the sizes.
LEMMA SameDue ==
    ASSUME NEW s, NEW t, NEW n, NEW pl, t.layouts = s.layouts, t.counts = s.counts,
           t.churn = s.churn, t.estimated_from = s.estimated_from
    PROVE  Due(s, n, pl) <=> Due(t, n, pl)
<1>1. \A b : skew_floor(s, b, pl) = skew_floor(t, b, pl)
  BY SameTotal DEF skew_floor
<1> QED
  BY <1>1 DEF Due, is_stale

\* relayout leaves the books in order.
LEMMA LaidOutBooks ==
    ASSUME NEW t, NEW its, NEW vl, NEW pl, LaidOut(t, its, vl, pl)
    PROVE  BooksIn(t, Len(its), pl)
<1>1. CountsIn(t) /\ t.churn = 0 /\ t.stale_checked_at = npos
  BY LaidOutCounts
<1> QED
  BY <1>1 DEF BooksIn, SkipsIn, npos

\* So does every stage in which the collection stays the same.
LEMMA TouchedKeepsBooks ==
    ASSUME NEW s, NEW t, NEW its, NEW vl, NEW pl, Consistent(s, its, vl),
           Touched(s, t, its, vl, pl), BooksIn(s, Len(its), pl)
    PROVE  BooksIn(t, Len(its), pl)
<1>1. CASE LaidOut(t, its, vl, pl)
  BY <1>1, LaidOutBooks
<1>2. CASE /\ t.layouts = s.layouts /\ t.buckets = s.buckets /\ t.counts = s.counts
           /\ t.churn = s.churn /\ t.estimated_from = s.estimated_from
           /\ \/ t.stale_checked_at = s.stale_checked_at
              \/ t.stale_checked_at = s.churn /\ ~ Due(s, Len(its), pl)
  <2>1. Due(s, Len(its), pl) <=> Due(t, Len(its), pl)
    BY <1>2, SameDue
  <2>2. CountsIn(t)
    BY <1>2, SameTotal DEF BooksIn, CountsIn
  <2>3. s.churn \in Nat
    BY DEF Consistent, KeyStateOK
  <2>4. SkipsIn(t, Len(its), pl)
    BY <1>2, <2>1, <2>3 DEF BooksIn, SkipsIn
  <2> QED
    BY <2>2, <2>4 DEF BooksIn
<1>3. DOMAIN s = KeyFields
  BY DEF Consistent, KeyStateOK
<1> QED
  BY <1>1, <1>2, <1>3, TouchedBooks

\* A change that counts makes the next check look again; one that does not count
\* changes nothing the check looks at.
LEMMA ChangedKeepsBooks ==
    ASSUME NEW s, NEW t, NEW its, NEW vl, NEW its2, NEW vl2, NEW pl,
           Consistent(s, its, vl), Changed(s, t, its, vl, its2, vl2),
           BooksIn(s, Len(its), pl)
    PROVE  BooksIn(t, Len(its2), pl)
<1> DEFINE n == Len(its)
           m == Len(its2)
<1>1. CountsIn(t)
  BY ChangedCounts DEF BooksIn
<1>2. /\ DOMAIN s = KeyFields /\ DOMAIN s.buckets = 1 .. n /\ DOMAIN t.buckets = 1 .. m
      /\ s.churn \in Nat /\ t.churn \in Nat
      /\ s.stale_checked_at \in Nat \cup {npos}
  BY DEF Changed, Consistent, KeyStateOK
<1>3. ASSUME t.churn > s.churn, t.stale_checked_at = s.stale_checked_at
      PROVE  SkipsIn(t, m, pl)
  BY <1>2, <1>3 DEF BooksIn, SkipsIn, npos
<1>4. ASSUME t.churn = s.churn, t.stale_checked_at = s.stale_checked_at,
             t.layouts = s.layouts, t.estimated_from = s.estimated_from, m = n,
             \A x \in 1 .. n : t.buckets[x] = s.buckets[x]
      PROVE  SkipsIn(t, m, pl)
  <2>1. \A k : tally(t.buckets, k) = tally(s.buckets, k)
    <3>1. \A b : {x \in 1 .. n : t.buckets[x] = b} = {x \in 1 .. n : s.buckets[x] = b}
      BY <1>4
    <3>2. DOMAIN t.buckets = 1 .. n /\ DOMAIN s.buckets = 1 .. n
      BY <1>2, <1>4
    <3> DEFINE B == t.buckets
               C == s.buckets
    <3>3. \A b : {x \in DOMAIN B : B[x] = b} = {x \in DOMAIN C : C[x] = b}
      BY <3>1, <3>2
    <3> HIDE DEF B, C
    <3>4. \A k : tally(B, k) = tally(C, k)
      BY <3>3 DEF tally
    <3> QED
      BY <3>4 DEF B, C
  <2>2. t.counts = s.counts
    BY <1>1, <1>4, <2>1, SameTotal DEF BooksIn, CountsIn
  <2>3. Due(s, n, pl) <=> Due(t, n, pl)
    BY <1>4, <2>2, SameDue
  <2> QED
    BY <1>4, <2>3 DEF BooksIn, SkipsIn
<1>5. CASE t = s /\ its2 = its
  BY <1>5
<1>6. CASE Appended(s, t, its, vl, its2, vl2)
  <2>1. n \in Nat /\ m \in Nat /\ n <= m /\ DOMAIN its2 = 1 .. m
    BY <1>6 DEF Appended, Extends, Collection
  <2>2. AppendResult(t, s, n, its2)
    BY <1>2, <1>6, AppendFields DEF Appended
  <2>3. /\ t.layouts = s.layouts /\ t.estimated_from = s.estimated_from
        /\ t.stale_checked_at = s.stale_checked_at /\ t.churn = s.churn + (m - n)
        /\ \A x \in DOMAIN its2 : x <= n => t.buckets[x] = s.buckets[x]
    BY <2>2 DEF AppendResult
  <2> HIDE DEF n, m
  <2>4. CASE m = n
    <3>1. t.churn = s.churn /\ \A x \in 1 .. n : t.buckets[x] = s.buckets[x]
      BY <1>2, <2>1, <2>3, <2>4
    <3> QED
      BY <1>1, <1>4, <2>3, <2>4, <3>1 DEF BooksIn, m
  <2>5. CASE m > n
    <3>1. t.churn > s.churn
      BY <1>2, <2>1, <2>3, <2>5
    <3> QED
      BY <1>1, <1>3, <2>3, <3>1 DEF BooksIn, m
  <2> QED
    BY <2>1, <2>4, <2>5
<1>7. CASE Rekeyed(s, t, its, vl, its2, vl2)
  <2>1. PICK hit \in SUBSET DOMAIN its : t = rekey(s, hit, its, vl2)
    BY <1>7 DEF Rekeyed
  <2>2. n \in Nat /\ DOMAIN its = 1 .. n /\ its2 = its /\ m = n
    BY <1>7 DEF Rekeyed, Collection
  <2>3. RekeyResult(t, s, hit, its)
    BY <1>2, <2>1, RekeyFields
  <2>4. /\ t.layouts = s.layouts /\ t.estimated_from = s.estimated_from
        /\ t.stale_checked_at = s.stale_checked_at /\ t.churn = s.churn + Cardinality(hit)
        /\ \A x \in DOMAIN its : x \notin hit => t.buckets[x] = s.buckets[x]
    BY <2>3 DEF RekeyResult
  <2>5. IsFiniteSet(hit) /\ Cardinality(hit) \in Nat
    BY <2>2, PartOfInterval
  <2> HIDE DEF n, m
  <2>6. CASE Cardinality(hit) = 0
    <3>1. hit = {}
      BY <2>5, <2>6, FS_EmptySet
    <3>2. t.churn = s.churn /\ \A x \in 1 .. n : t.buckets[x] = s.buckets[x]
      BY <1>2, <2>2, <2>4, <2>6, <3>1
    <3> QED
      BY <1>1, <1>4, <2>2, <2>4, <3>2 DEF BooksIn, m
  <2>7. CASE Cardinality(hit) # 0
    <3>1. t.churn > s.churn
      BY <1>2, <2>4, <2>5, <2>7
    <3> QED
      BY <1>1, <1>3, <2>4, <3>1 DEF BooksIn, m
  <2> QED
    BY <2>6, <2>7
<1>8. CASE Compacted(s, t, its, vl, its2, vl2)
  <2>1. PICK l, kept, p :
            /\ Reduction(its, vl, l, kept, its2, vl2) /\ l # Len(its)
            /\ s.splitter_slots \subseteq ToSet(kept)
            /\ t = compact(s, kept, its2, vl2, p)
    BY <1>8 DEF Compacted
  <2>2. n \in Nat /\ l \in Nat /\ l < n /\ DOMAIN kept = 1 .. l
    BY <2>1 DEF Reduction, Collection
  <2> HIDE DEF n, m
  <2>3. CompactResult(t, s, kept, n, l)
    BY <1>2, <2>1, <2>2, CompactFields
  <2>4. t.stale_checked_at = s.stale_checked_at /\ t.churn = s.churn + (n - l)
    BY <2>3 DEF CompactResult
  <2>5. t.churn > s.churn
    BY <1>2, <2>2, <2>4
  <2> QED
    BY <1>1, <1>3, <2>4, <2>5 DEF BooksIn, m
<1> QED
  BY <1>1, <1>5, <1>6, <1>7, <1>8 DEF Changed

\* The bookkeeping of every KeyState is in order.
Books == \A i \in DOMAIN states : BooksIn(states[i], Len(items), plan)

\* Every call keeps the bookkeeping in order.
LEMMA BooksStep ==
    ASSUME IInv, Books, [Next]_vars
    PROVE  Books'
<1> SUFFICES ASSUME NEW j \in DOMAIN states'
             PROVE  BooksIn(states'[j], Len(items'), plan')
  BY DEF Books
<1>1. CASE LaidOut(states'[j], items', val', plan')
  BY <1>1, LaidOutBooks
<1>2. ASSUME NEW i \in DOMAIN states, Develops(states[i], states'[j]),
             ~ LaidOut(states'[j], items', val', plan')
      PROVE  BooksIn(states'[j], Len(items'), plan')
  <2>1. plan' = plan
    BY <1>2 DEF Develops
  <2>2. PICK s1, s2, s3, s4 :
            Chain(states[i], s1, s2, s3, s4, states'[j], items, val, items', val', plan)
    BY <1>2 DEF Develops
  <2>3. Consistent(states[i], items, val) /\ BooksIn(states[i], Len(items), plan)
    BY DEF IInv, Books
  <2>4. Consistent(s1, items, val) /\ BooksIn(s1, Len(items), plan)
    BY <2>2, <2>3, TouchedKeepsBooks DEF Chain, Touched
  <2>5. Consistent(s2, items, val) /\ BooksIn(s2, Len(items), plan)
    BY <2>2, <2>4, TouchedKeepsBooks DEF Chain, Touched
  <2>6. Consistent(s3, items, val) /\ BooksIn(s3, Len(items), plan)
    BY <2>2, <2>5, TouchedKeepsBooks DEF Chain, Touched
  <2>7. Consistent(s4, items', val') /\ BooksIn(s4, Len(items'), plan)
    BY <2>2, <2>6, ChangedKeepsBooks DEF Chain, Changed
  <2> QED
    BY <2>1, <2>2, <2>7, TouchedKeepsBooks DEF Chain
<1> QED
  BY <1>1, <1>2, StateSteps DEF StateFrom

\* The bookkeeping is in order in every reachable state.
LEMMA BooksInvariance == Spec => [](IInv /\ Books)
<1>1. Init => Books
  BY DEF Init, Books
<1>2. IInv /\ Books /\ [Next]_vars => Books'
  BY BooksStep
<1> QED
  BY Invariance, <1>1, <1>2, PTL DEF Spec

\* counts, which append, rekey and compact change by what each of them moves and
\* relayout counts anew, are the sizes of the buckets in every reachable state.
THEOREM CountsStayExact == Spec => []CountsExact
<1>1. IInv /\ Books => CountsExact
  <2> SUFFICES ASSUME IInv, Books, NEW i \in DOMAIN states
               PROVE  states[i].counts = [b \in 1 .. bucket_total(states[i]) |->
                          Cardinality({x \in Slots : states[i].buckets[x] = b})]
    BY DEF CountsExact
  <2>1. DOMAIN states[i].buckets = 1 .. Len(items) /\ DOMAIN items = 1 .. Len(items)
    BY DEF IInv, Collection, Consistent, KeyStateOK
  <2> QED
    BY <2>1 DEF Books, BooksIn, CountsIn, tally, Slots
<1> QED
  BY BooksInvariance, <1>1, PTL

\* maybe_auto_rebalance's shortcut is sound: since churn grows with every change
\* that could make a layout stale and a new layout resets it, a check already made
\* at the present churn, under whatever plan was set since, has nothing to find.
THEOREM SkippedChecksStayIdle == Spec => []SkippedChecksAreIdle
<1>1. IInv /\ Books => SkippedChecksAreIdle
  BY DEF Books, BooksIn, SkipsIn, Due, SkippedChecksAreIdle
<1> QED
  BY BooksInvariance, <1>1, PTL
-----------------------------------------------------------------------------
(* Offsets                                                                 *)

\* off[b] is the sum of the sizes s[1], ..., s[b - 1].
Offsets(off, n, s) ==
    /\ off \in Seq(Nat) /\ Len(off) = n + 1
    /\ off[1] = 0
    /\ \A b \in 1 .. n : off[b + 1] = off[b] + s[b]

\* The rounds of prefix_sums.
SumRound(f, n, s) ==
    /\ f \in [0 .. n -> {t \in Seq(Nat) : Len(t) >= 1}]
    /\ f[0] = <<0>>
    /\ \A i \in 1 .. n : f[i] = Append(f[i - 1], Last(f[i - 1]) + s[i])

\* prefix_sums is computed by rounds.
LEMMA SumRounds ==
    ASSUME NEW n \in Nat, NEW s, Len(s) = n, \A i \in 1 .. n : s[i] \in Nat
    PROVE  \E f : SumRound(f, n, s) /\ prefix_sums(s) = f[n]
<1> DEFINE V == {t \in Seq(Nat) : Len(t) >= 1}
           a == <<0>>
           step(i, p) == Append(p, Last(p) + s[i])
           Body(f) == [i \in 0 .. n |-> IF i = 0 THEN a ELSE step(i, f[i - 1])]
           sums[i \in 0 .. n] == IF i = 0 THEN a ELSE step(i, sums[i - 1])
           G == [i \in 1 .. n |-> [p \in V |-> step(i, p)]]
<1>1. a \in V
  OBVIOUS
<1>2. ASSUME NEW i \in 1 .. n, NEW p \in V
      PROVE  step(i, p) \in V
  <2>1. p \in Seq(Nat) /\ Len(p) \in Nat /\ Len(p) >= 1 /\ s[i] \in Nat
    OBVIOUS
  <2>2. Last(p) \in Nat
    BY <2>1 DEF Last
  <2> DEFINE r == Append(p, Last(p) + s[i])
  <2>3. r \in Seq(Nat) /\ Len(r) = Len(p) + 1
    BY <2>1, <2>2
  <2> HIDE DEF r
  <2>4. r \in V
    BY <2>1, <2>3
  <2> QED
    BY <2>4 DEF r
<1>3. prefix_sums(s) = sums[n] /\ sums = CHOOSE ff : ff = Body(ff)
  BY DEF prefix_sums
<1> HIDE DEF V, sums, step, a
<1>4. G \in [1 .. n -> [V -> V]] /\ \A i \in 1 .. n, p \in V : G[i][p] = step(i, p)
  BY <1>2
<1> HIDE DEF G
<1>5. PICK f : Iterates(f, n, V, a, G)
  BY <1>1, <1>4, Recursion
<1>6. sums = Body(sums)
  <2>1. f = Body(f)
    BY <1>4, <1>5 DEF Iterates
  <2> HIDE DEF Body
  <2> QED
    BY <1>3, <2>1
<1>7. sums[0] = a /\ \A i \in 1 .. n : sums[i] = step(i, sums[i - 1])
  BY <1>6
<1>8. sums \in [0 .. n -> V]
  <2>1. \A i \in 0 .. n : sums[i] \in V
    BY <1>1, <1>2, <1>7, Throughout
  <2> QED
    BY <1>6, <2>1
<1>9. SumRound(sums, n, s)
  BY <1>7, <1>8 DEF V, a, step, SumRound
<1> QED
  BY <1>3, <1>9

\* prefix_sums gives the offsets.
LEMMA SumsAreOffsets ==
    ASSUME NEW n \in Nat, NEW s, Len(s) = n, \A i \in 1 .. n : s[i] \in Nat
    PROVE  Offsets(prefix_sums(s), n, s)
<1>1. PICK f : SumRound(f, n, s) /\ prefix_sums(s) = f[n]
  BY SumRounds
<1> DEFINE S == {i \in 0 .. n : /\ Len(f[i]) = i + 1 /\ f[i][1] = 0
                                /\ \A b \in 1 .. i : f[i][b + 1] = f[i][b] + s[b]}
<1>5. /\ \A i \in 0 .. n : f[i] \in Seq(Nat)
      /\ \A i \in 1 .. n : f[i] = Append(f[i - 1], Last(f[i - 1]) + s[i])
  BY <1>1 DEF SumRound
<1>2. 0 \in S
  <2>1. f[0] = <<0>>
    BY <1>1 DEF SumRound
  <2>2. Len(f[0]) = 0 + 1 /\ f[0][1] = 0
    BY <2>1
  <2>3. \A b \in 1 .. 0 : f[0][b + 1] = f[0][b] + s[b]
    OBVIOUS
  <2> QED
    BY <2>2, <2>3
<1>3. ASSUME NEW i \in 1 .. n, i - 1 \in S
      PROVE  i \in S
  <2> DEFINE p == f[i - 1]
             r == f[i]
  <2>1. p \in Seq(Nat) /\ r = Append(p, Last(p) + s[i])
    <3>1. i - 1 \in 0 .. n
      OBVIOUS
    <3>2. f[i - 1] \in Seq(Nat)
      BY <1>5, <3>1
    <3>3. f[i] = Append(f[i - 1], Last(f[i - 1]) + s[i])
      BY <1>5
    <3> QED
      BY <3>2, <3>3
  <2>2. Len(p) = i /\ p[1] = 0 /\ \A b \in 1 .. i - 1 : p[b + 1] = p[b] + s[b]
    <3>1. Len(p) = (i - 1) + 1 /\ p[1] = 0 /\ \A b \in 1 .. i - 1 : p[b + 1] = p[b] + s[b]
      BY <1>3, Zenon DEF S
    <3>2. (i - 1) + 1 = i
      OBVIOUS
    <3> HIDE DEF p
    <3> QED
      BY <3>1, <3>2
  <2> HIDE DEF p, r
  <2>3. Last(p) = p[i] /\ p[i] \in Nat /\ s[i] \in Nat
    BY <2>1, <2>2 DEF Last
  <2>4. Len(r) = i + 1 /\ r[i + 1] = p[i] + s[i] /\ \A b \in 1 .. i : r[b] = p[b]
    BY <2>1, <2>2, <2>3
  <2>5. ASSUME NEW b \in 1 .. i
        PROVE  r[b + 1] = r[b] + s[b]
    <3>1. CASE b = i
      BY <2>4, <3>1
    <3>2. CASE b # i
      <4>1. b \in 1 .. i - 1 /\ b + 1 \in 1 .. i
        BY <3>2
      <4> QED
        BY <2>2, <2>4, <4>1
    <3> QED
      BY <3>1, <3>2
  <2> QED
    BY <2>2, <2>4, <2>5 DEF r
<1>4. n \in S
  <2> HIDE DEF S
  <2>1. 0 .. n \subseteq S
    BY <1>2, <1>3, SetInduction
  <2> QED
    BY <2>1
<1>6. f[n] \in Seq(Nat)
  BY <1>5
<1> QED
  BY <1>1, <1>4, <1>6 DEF Offsets

\* Offsets only grow.
LEMMA OffsetsGrow ==
    ASSUME NEW n \in Nat, NEW s, \A i \in 1 .. n : s[i] \in Nat, NEW off, Offsets(off, n, s),
           NEW i \in 1 .. n + 1, NEW j \in i .. n + 1
    PROVE  off[i] \in Nat /\ off[j] \in Nat /\ off[i] <= off[j]
<1> DEFINE m == n + 1 - i
           S == {d \in 0 .. m : off[i] <= off[i + d]}
<1>1. \A b \in 1 .. n + 1 : off[b] \in Nat
  BY DEF Offsets
<1>2. m \in Nat /\ 0 \in S
  BY <1>1
<1>3. ASSUME NEW d \in 1 .. m, d - 1 \in S
      PROVE  d \in S
  <2>1. i + d - 1 \in 1 .. n /\ i + (d - 1) = i + d - 1 /\ i + d - 1 + 1 = i + d
    OBVIOUS
  <2>2. off[i + d] = off[i + d - 1] + s[i + d - 1] /\ s[i + d - 1] \in Nat
    BY <2>1 DEF Offsets
  <2>3. off[i] <= off[i + d - 1]
    BY <1>3, <2>1
  <2>4. off[i] \in Nat /\ off[i + d - 1] \in Nat
    BY <1>1, <2>1
  <2>5. off[i] <= off[i + d]
    BY <2>2, <2>3, <2>4
  <2> QED
    BY <2>5
<1>4. j - i \in S
  <2> HIDE DEF S
  <2>1. 0 .. m \subseteq S
    BY <1>2, <1>3, SetInduction
  <2> QED
    BY <2>1
<1>5. i + (j - i) = j
  OBVIOUS
<1> QED
  BY <1>1, <1>4, <1>5

\* Every place lies in one segment.
LEMMA SegmentOf ==
    ASSUME NEW n \in Nat, NEW s, \A i \in 1 .. n : s[i] \in Nat, NEW off, Offsets(off, n, s),
           NEW p \in 1 .. off[n + 1]
    PROVE  \E b \in 1 .. n : off[b] < p /\ p <= off[b + 1]
<1> DEFINE T == {b \in 1 .. n + 1 : p <= off[b]}
<1>1. \A b \in 1 .. n + 1 : off[b] \in Nat
  BY DEF Offsets
<1>2. n + 1 \in T /\ T \in SUBSET Nat
  BY <1>1
<1>3. PICK c \in T : \A d \in T : c <= d
  <2> HIDE DEF T
  <2> QED
    BY <1>2, Least
<1>4. c # 1
  BY <1>1, <1>3 DEF Offsets
<1>5. c - 1 \in 1 .. n /\ c - 1 + 1 = c
  BY <1>3, <1>4
<1>6. c - 1 \notin T
  BY <1>3, <1>5
<1>7. off[c - 1] < p
  BY <1>1, <1>5, <1>6
<1> QED
  BY <1>3, <1>5, <1>7
-----------------------------------------------------------------------------
(* Sequences joined                                                        *)

lengths(parts, k) == [b \in 1 .. k |-> Len(parts[b])]

\* The rounds of joined.
JoinRound(f, k, parts, X) ==
    /\ f \in [0 .. k -> Seq(X)]
    /\ f[0] = << >>
    /\ \A b \in 1 .. k : f[b] = f[b - 1] \o parts[b]

\* joined is computed by rounds.
LEMMA JoinRounds ==
    ASSUME NEW X, NEW k \in Nat, NEW parts, Len(parts) = k, \A b \in 1 .. k : parts[b] \in Seq(X)
    PROVE  \E f : JoinRound(f, k, parts, X) /\ joined(parts) = f[k]
<1> DEFINE V == Seq(X)
           step(i, p) == p \o parts[i]
           Body(f) == [i \in 0 .. k |-> IF i = 0 THEN << >> ELSE step(i, f[i - 1])]
           upto[i \in 0 .. k] == IF i = 0 THEN << >> ELSE step(i, upto[i - 1])
           G == [i \in 1 .. k |-> [p \in V |-> step(i, p)]]
<1>1. << >> \in V
  OBVIOUS
<1>2. ASSUME NEW i \in 1 .. k, NEW p \in V
      PROVE  step(i, p) \in V
  OBVIOUS
<1>3. joined(parts) = upto[k] /\ upto = CHOOSE ff : ff = Body(ff)
  BY DEF joined
<1> HIDE DEF V, upto, step
<1>4. G \in [1 .. k -> [V -> V]] /\ \A i \in 1 .. k, p \in V : G[i][p] = step(i, p)
  BY <1>2
<1> HIDE DEF G
<1>5. PICK f : Iterates(f, k, V, << >>, G)
  BY <1>1, <1>4, Recursion
<1>6. upto = Body(upto)
  <2>1. f = Body(f)
    BY <1>4, <1>5 DEF Iterates
  <2> HIDE DEF Body
  <2> QED
    BY <1>3, <2>1
<1>7. upto[0] = << >> /\ \A i \in 1 .. k : upto[i] = step(i, upto[i - 1])
  BY <1>6
<1>8. upto \in [0 .. k -> V]
  <2>1. \A i \in 0 .. k : upto[i] \in V
    BY <1>1, <1>2, <1>7, Throughout
  <2> QED
    BY <1>6, <2>1
<1>9. JoinRound(upto, k, parts, X)
  BY <1>7, <1>8 DEF V, step, JoinRound
<1> QED
  BY <1>3, <1>9

\* r is parts[1], ..., parts[k], the first element of parts[b] behind off[b] others.
JoinedAt(r, off, parts, k, X) ==
    /\ r \in Seq(X)
    /\ Offsets(off, k, lengths(parts, k))
    /\ Len(r) = off[k + 1]
    /\ \A b \in 1 .. k : \A j \in 1 .. Len(parts[b]) : r[off[b] + j] = parts[b][j]

\* joined puts every part behind the ones before it.
LEMMA JoinedPlaces ==
    ASSUME NEW X, NEW k \in Nat, NEW parts, Len(parts) = k, \A b \in 1 .. k : parts[b] \in Seq(X)
    PROVE  JoinedAt(joined(parts), prefix_sums(lengths(parts, k)), parts, k, X)
<1> DEFINE s == lengths(parts, k)
           off == prefix_sums(s)
<1>1. Len(s) = k /\ \A b \in 1 .. k : s[b] = Len(parts[b]) /\ s[b] \in Nat
  BY DEF lengths
<1> HIDE DEF s
<1>2. Offsets(off, k, s)
  BY <1>1, SumsAreOffsets
<1> HIDE DEF off
<1>3. PICK f : JoinRound(f, k, parts, X) /\ joined(parts) = f[k]
  BY JoinRounds
<1>4. /\ f[0] = << >>
      /\ \A b \in 0 .. k : f[b] \in Seq(X)
      /\ \A b \in 1 .. k : f[b] = f[b - 1] \o parts[b]
  BY <1>3 DEF JoinRound
<1>5. /\ off[1] = 0 /\ \A b \in 1 .. k + 1 : off[b] \in Nat
      /\ \A b \in 1 .. k : off[b + 1] = off[b] + Len(parts[b])
  <2>1. off \in Seq(Nat) /\ Len(off) = k + 1 /\ off[1] = 0 /\ \A b \in 1 .. k : off[b + 1] = off[b] + s[b]
    BY <1>2 DEF Offsets
  <2>2. \A b \in 1 .. k + 1 : off[b] \in Nat
    BY <2>1, SMTT(30)
  <2> QED
    BY <1>1, <2>1, <2>2
<1> DEFINE Placed(b) == \A c \in 1 .. b : \A j \in 1 .. Len(parts[c]) : f[b][off[c] + j] = parts[c][j]
           S == {b \in 0 .. k : Len(f[b]) = off[b + 1] /\ Placed(b)}
<1>6. 0 \in S
  <2>1. Len(f[0]) = off[0 + 1]
    BY <1>4, <1>5
  <2> QED
    BY <2>1
<1>7. ASSUME NEW b \in 1 .. k, b - 1 \in S
      PROVE  b \in S
  <2> DEFINE p == f[b - 1]
             r == f[b]
             q == parts[b]
  <2>1. p \in Seq(X) /\ q \in Seq(X) /\ r = p \o q
    <3>1. b - 1 \in 0 .. k
      OBVIOUS
    <3> QED
      BY <1>4, <3>1
  <2>2. Len(p) = off[b]
    BY <1>7
  <2>6. Placed(b - 1)
    BY <1>7
  <2>3. off[b + 1] = off[b] + Len(q) /\ off[b] \in Nat
    BY <1>5
  <2>7. Behind(r, p, q, X)
    <3> HIDE DEF p, q, r, Placed, S
    <3> QED
      BY <2>1, Concatenation
  <2>4. Len(r) = off[b + 1]
    <3> HIDE DEF p, q, r, Placed, S
    <3> QED
      BY <2>2, <2>3, <2>7 DEF Behind
  <2>5. ASSUME NEW c \in 1 .. b, NEW j \in 1 .. Len(parts[c])
        PROVE  r[off[c] + j] = parts[c][j]
    <3>1. CASE c = b
      <4> HIDE DEF p, q, r, Placed, S
      <4>1. j \in 1 .. Len(q)
        BY <3>1 DEF q
      <4>2. r[off[b] + j] = q[j]
        BY <2>2, <2>7, <4>1 DEF Behind
      <4> QED
        BY <3>1, <4>2 DEF q
    <3>2. CASE c # b
      <4>1. c \in 1 .. b - 1 /\ c \in 1 .. k /\ c + 1 \in 1 .. k + 1 /\ b \in c + 1 .. k + 1
        BY <3>2
      <4>2. p[off[c] + j] = parts[c][j]
        BY <2>6, <4>1
      <4>3. off[c + 1] <= off[b]
        BY <1>1, <1>2, <4>1, OffsetsGrow
      <4>4. off[c + 1] = off[c] + Len(parts[c]) /\ off[c] \in Nat /\ parts[c] \in Seq(X)
        <5>1. off[c + 1] = off[c] + Len(parts[c])
          BY <1>5, <4>1
        <5>2. c \in 1 .. k + 1
          BY <4>1
        <5>3. off[c] \in Nat
          BY <1>5, <5>2
        <5>4. parts[c] \in Seq(X)
          BY <4>1
        <5> QED
          BY <5>1, <5>3, <5>4
      <4>5. off[c] + j \in 1 .. off[b]
        <5> DEFINE l == Len(parts[c])
        <5>1. l \in Nat /\ j \in 1 .. l /\ off[c + 1] = off[c] + l
          BY <4>4
        <5>2. off[c] \in Nat /\ off[c + 1] <= off[b]
          BY <4>3, <4>4
        <5> DEFINE y == off[b]
                   z == off[c]
        <5>3. z \in Nat /\ y \in Nat /\ z + l <= y
          BY <2>3, <5>1, <5>2
        <5> HIDE DEF l, y, z
        <5>4. z + j \in 1 .. y
          BY <5>1, <5>3
        <5> QED
          BY <5>4 DEF y, z
      <4>6. r[off[c] + j] = p[off[c] + j]
        <5> HIDE DEF p, q, r, Placed, S
        <5> QED
          BY <2>2, <2>7, <4>5 DEF Behind
      <4> QED
        BY <4>2, <4>6
    <3> QED
      BY <3>1, <3>2
  <2> QED
    BY <2>4, <2>5
<1>8. k \in S
  <2> HIDE DEF S
  <2>1. 0 .. k \subseteq S
    BY <1>6, <1>7, SetInduction
  <2> QED
    BY <2>1
<1>9. JoinedAt(joined(parts), off, parts, k, X)
  BY <1>2, <1>3, <1>4, <1>8 DEF JoinedAt, s
<1> QED
  BY <1>9 DEF off, s
-----------------------------------------------------------------------------
(* Bucket ids                                                              *)

\* Every layout has one bucket more than split points.
LayoutsIn(st) == \A g \in DOMAIN st.layouts : LayoutShape(st.layouts[g])

\* How many buckets each group has.
shares(st) == [g \in DOMAIN st.layouts |-> Len(st.layouts[g].expected)]

\* The groups have the bucket ids 1 .. bucket_total between them.
LEMMA IdsOfGroups ==
    ASSUME NEW st, NEW c \in Nat \ {0}, DOMAIN st.layouts = 1 .. c, LayoutsIn(st)
    PROVE  /\ Offsets(group_offset(st), c, shares(st))
           /\ \A g \in 1 .. c : shares(st)[g] \in Nat
           /\ bucket_total(st) = group_offset(st)[c + 1] /\ bucket_total(st) \in Nat
<1> DEFINE s == shares(st)
           off == group_offset(st)
<1>1. Len(s) = c /\ \A g \in 1 .. c : s[g] \in Nat
  BY DEF shares, LayoutsIn, LayoutShape, IsSequence
<1>2. off = prefix_sums(s)
  BY DEF group_offset, shares
<1> HIDE DEF s, off
<1>3. Offsets(off, c, s)
  BY <1>1, <1>2, SumsAreOffsets
<1>4. off[c + 1] \in Nat /\ Last(off) = off[c + 1]
  BY <1>3 DEF Offsets, Last
<1>5. bucket_total(st) = off[c + 1]
  BY <1>4 DEF bucket_total, off
<1> QED
  BY <1>1, <1>3, <1>4, <1>5 DEF s, off

\* bucket_for gives a bucket id of the element's group.
LEMMA IdInRange ==
    ASSUME NEW st, st.name \in Name, DOMAIN st.layouts = 1 .. GroupCount[st.name], LayoutsIn(st),
           NEW v \in Value, NEW vk, NEW vl
    PROVE  LET g == group(st.name, v)
               off == group_offset(st)
               b == bucket_for(st, v, vk, vl)
           IN  /\ b \in 1 .. bucket_total(st)
               /\ g \in 1 .. GroupCount[st.name] /\ b \in off[g] + 1 .. off[g + 1]
<1> DEFINE c == GroupCount[st.name]
           g == IF Len(st.layouts) > 1 THEN group(st.name, v) ELSE 1
           s == shares(st)
           off == group_offset(st)
           points == resolve(st.layouts[g], vl)
           b == bucket_of(st.name, points, v, vk)
<1>1. c \in Nat \ {0} /\ g \in 1 .. c /\ g = group(st.name, v)
  <2>1. c \in Nat \ {0} /\ 1 \in 1 .. c
    <3>1. GroupCount \in [Name -> Nat \ {0}]
      BY SortKeyAssumption
    <3>2. c \in Nat \ {0}
      BY <3>1
    <3> HIDE DEF c
    <3> QED
      BY <3>2
  <2>2. group(st.name, v) \in 1 .. c
    BY SortKeyAssumption DEF group
  <2>3. CASE Len(st.layouts) > 1
    BY <2>1, <2>2, <2>3
  <2>4. CASE ~ (Len(st.layouts) > 1)
    <3> HIDE DEF c
    <3>1. Len(st.layouts) = c
      BY <2>1 DEF c
    <3>2. c = 1
      BY <2>1, <2>4, <3>1
    <3>3. group(st.name, v) = 1
      BY <2>2, <3>2
    <3> QED
      BY <2>1, <2>4, <3>3
  <2> QED
    BY <2>3, <2>4
<1> HIDE DEF c, g
<1>2. LayoutShape(st.layouts[g])
  BY <1>1 DEF LayoutsIn, c
<1>3. IsSequence(points) /\ Len(points) + 1 = s[g]
  <2>1. s[g] = Len(st.layouts[g].expected)
    BY <1>1 DEF shares, c
  <2> DEFINE l == st.layouts[g]
  <2>2. LayoutShape(l)
    BY <1>2
  <2> HIDE DEF l
  <2>3. IsSequence(resolve(l, vl)) /\ Len(resolve(l, vl)) + 1 = Len(l.expected)
    BY <2>2 DEF LayoutShape, IsSequence, resolve
  <2> QED
    BY <2>1, <2>3 DEF l
<1>4. b \in 1 .. s[g]
  <2> HIDE DEF points, s
  <2>1. b \in 1 .. Len(points) + 1
    BY <1>3, BucketInLayout
  <2> QED
    BY <1>3, <2>1
<1>5. Offsets(off, c, s) /\ (\A h \in 1 .. c : s[h] \in Nat) /\ bucket_total(st) = off[c + 1]
  BY <1>1, IdsOfGroups DEF c
<1> HIDE DEF points, s, off, b
<1>6. off[g + 1] = off[g] + s[g] /\ s[g] \in Nat
  BY <1>1, <1>5 DEF Offsets
<1>7. off[g] \in Nat /\ off[g + 1] <= off[c + 1] /\ off[c + 1] \in Nat
  <2>1. g + 1 \in 1 .. c + 1 /\ c + 1 \in g + 1 .. c + 1 /\ c \in Nat
    BY <1>1
  <2>2. off[g + 1] <= off[c + 1] /\ off[c + 1] \in Nat
    BY <1>5, <2>1, OffsetsGrow
  <2>3. off[g] \in Nat
    BY <1>1, <1>5 DEF Offsets
  <2> QED
    BY <2>2, <2>3
<1>8. off[g] + b \in 1 .. off[c + 1]
  BY <1>4, <1>6, <1>7
<1>9. bucket_for(st, v, vk, vl) = off[g] + b
  BY DEF bucket_for, off, b, points, g
<1>10. off[g] + b \in off[g] + 1 .. off[g + 1]
  BY <1>4, <1>6, <1>7
<1> QED
  BY <1>1, <1>5, <1>8, <1>9, <1>10 DEF off, c

\* relayout makes layouts of that shape.
LEMMA LaidOutLayouts ==
    ASSUME NEW t, NEW its \in Seq(Handle), NEW vl, NEW pl, IsPlan(pl), LaidOut(t, its, vl, pl)
    PROVE  LayoutsIn(t)
<1>1. PICK u : DOMAIN u = KeyFields /\ u.name \in Name /\ t = relayout(u, its, vl, pl)
  BY DEF LaidOut
<1> DEFINE k == u.name
           vals == values(its, vl)
           estimated == estimate_layouts(k, vals, u.keys, pl)
           cut == with_layouts(u, estimated, its, vl)
           placed == with_buckets(cut, its, vl)
<1>2. Len(vals) \in Nat
  BY DEF values
<1>3. IsPlan(per_group(k, pl))
  BY <1>1, GroupPlan
<1>4. /\ DOMAIN estimated = 1 .. GroupCount[k]
      /\ \A g \in DOMAIN estimated : LayoutShape(estimated[g])
  BY <1>2, <1>3, EstimateShape DEF estimate_layouts
<1> HIDE DEF estimated
<1>5. DOMAIN cut.layouts = DOMAIN estimated /\ \A g \in DOMAIN estimated : LayoutShape(cut.layouts[g])
  <2>1. cut.layouts = [g \in DOMAIN estimated |->
            [splits |-> [i \in DOMAIN estimated[g].splits |->
                [key  |-> estimated[g].splits[i].key,
                 elem |-> split_element(estimated[g].splits[i].pos, its, vl)]],
             expected |-> estimated[g].expected]]
    BY <1>1 DEF with_layouts, KeyFields
  <2>2. ASSUME NEW g \in DOMAIN estimated
        PROVE  LayoutShape(cut.layouts[g])
    <3> DEFINE f == [i \in DOMAIN estimated[g].splits |->
                  [key  |-> estimated[g].splits[i].key,
                   elem |-> split_element(estimated[g].splits[i].pos, its, vl)]]
               layout == [splits |-> f, expected |-> estimated[g].expected]
    <3>1. cut.layouts[g] = layout
      BY <2>1
    <3>2. LayoutShape(estimated[g])
      BY <1>4
    <3>3. LayoutShape(layout)
      BY <3>2 DEF LayoutShape, IsSequence
    <3> QED
      BY <3>1, <3>3
  <2> QED
    BY <2>1, <2>2
<1>6. t.layouts = cut.layouts
  <2>1. DOMAIN cut = KeyFields
    BY <1>1 DEF with_layouts
  <2> HIDE DEF cut
  <2>2. placed.layouts = cut.layouts /\ DOMAIN placed = KeyFields
    BY <2>1 DEF with_buckets, KeyFields
  <2> HIDE DEF placed
  <2>3. with_counts(placed, Len(its)).layouts = placed.layouts
    BY <2>2 DEF with_counts, KeyFields
  <2> QED
    BY <1>1, <2>2, <2>3 DEF relayout, placed, cut, estimated
<1> QED
  BY <1>5, <1>6 DEF LayoutsIn
-----------------------------------------------------------------------------
(* Arrangements                                                            *)

\* q holds every element of U once.
Lists(q, U) ==
    /\ q \in Seq(U)
    /\ \A i, j \in 1 .. Len(q) : q[i] = q[j] => i = j
    /\ \A x \in U : \E i \in 1 .. Len(q) : q[i] = x

\* The same in terms of the set of the elements.
LEMMA ListsByElements ==
    ASSUME NEW X, NEW q \in Seq(X), NEW U
    PROVE  Lists(q, U) <=> IsInjective(q) /\ ToSet(q) = U
<1> DEFINE n == Len(q)
<1>1. n \in Nat /\ DOMAIN q = 1 .. n /\ q \in [1 .. n -> X]
  OBVIOUS
<1>2. ToSet(q) = {q[i] : i \in 1 .. n}
  BY <1>1 DEF ToSet
<1>3. IsInjective(q) <=> \A i, j \in 1 .. n : q[i] = q[j] => i = j
  BY <1>1 DEF IsInjective
<1>4. ASSUME ToSet(q) = U
      PROVE  q \in Seq(U)
  <2>1. q \in [1 .. n -> U]
    BY <1>1, <1>2, <1>4
  <2> HIDE DEF n
  <2> QED
    BY <1>1, <2>1
<1>5. ASSUME q \in Seq(U), \A x \in U : \E i \in 1 .. n : q[i] = x
      PROVE  ToSet(q) = U
  <2>1. \A i \in 1 .. n : q[i] \in U
    BY <1>5
  <2> HIDE DEF n
  <2> QED
    BY <1>2, <1>5, <2>1
<1>6. ASSUME ToSet(q) = U
      PROVE  \A x \in U : \E i \in 1 .. n : q[i] = x
  BY <1>2, <1>6
<1> QED
  BY <1>3, <1>4, <1>5, <1>6 DEF Lists

\* It is as long as U has elements.
LEMMA ListsCount ==
    ASSUME NEW q, NEW U, Lists(q, U)
    PROVE  IsFiniteSet(U) /\ Cardinality(U) = Len(q) /\ Len(q) \in Nat
<1> DEFINE n == Len(q)
<1>1. n \in Nat /\ q \in [1 .. n -> U]
  BY DEF Lists
<1>2. /\ \A i, j \in 1 .. n : q[i] = q[j] => i = j
      /\ \A x \in U : \E i \in 1 .. n : q[i] = x
  BY DEF Lists
<1> HIDE DEF n
<1>3. IsFiniteSet(U) /\ Cardinality(U) = n
  BY <1>1, <1>2, CountByList
<1> QED
  BY <1>1, <1>3 DEF n

\* Leaving out all but the elements of T.
LEMMA ListsOnly ==
    ASSUME NEW q, NEW U, Lists(q, U), NEW T
    PROVE  Lists(only(q, T), U \cap T)
<1>1. q \in Seq(U) /\ IsInjective(q) /\ ToSet(q) = U
  <2>1. q \in Seq(U)
    BY DEF Lists
  <2> QED
    BY <2>1, ListsByElements
<1>2. only(q, T) \in Seq(U) /\ ToSet(only(q, T)) = U \cap T
  BY <1>1, OnlyPlaces, OnlyElements
<1>3. IsInjective(only(q, T))
  BY <1>1, OnlyDistinct
<1> QED
  BY <1>2, <1>3, ListsByElements

\* One list behind another.
LEMMA ListsBoth ==
    ASSUME NEW p, NEW A, Lists(p, A), NEW q, NEW B, Lists(q, B), A \cap B = {}
    PROVE  Lists(p \o q, A \cup B)
<1> DEFINE X == A \cup B
           r == p \o q
           a == Len(p)
           b == Len(q)
<1>1. p \in Seq(X) /\ q \in Seq(X) /\ a \in Nat /\ b \in Nat
  BY DEF Lists
<1>2. /\ \A i \in 1 .. a : p[i] \in A
      /\ \A i \in 1 .. b : q[i] \in B
  BY DEF Lists
<1>3. /\ \A i, j \in 1 .. a : p[i] = p[j] => i = j
      /\ \A i, j \in 1 .. b : q[i] = q[j] => i = j
      /\ \A x \in A : \E i \in 1 .. a : p[i] = x
      /\ \A x \in B : \E i \in 1 .. b : q[i] = x
  BY DEF Lists
<1>4. Behind(r, p, q, X)
  BY <1>1, Concatenation
<1> HIDE DEF r, a, b, X
<1>5. /\ r \in Seq(X) /\ Len(r) = a + b
      /\ \A i \in 1 .. a : r[i] = p[i]
      /\ \A j \in 1 .. b : r[a + j] = q[j]
  BY <1>4 DEF Behind, a, b
<1>6. ASSUME NEW i \in 1 .. a + b
      PROVE  \/ i \in 1 .. a /\ r[i] = p[i] /\ r[i] \in A
             \/ i - a \in 1 .. b /\ r[i] = q[i - a] /\ r[i] \in B
  <2>1. CASE i <= a
    <3>1. i \in 1 .. a
      BY <1>1, <2>1
    <3> QED
      BY <1>2, <1>5, <3>1
  <2>2. CASE ~ (i <= a)
    <3>1. i - a \in 1 .. b /\ a + (i - a) = i
      BY <1>1, <2>2
    <3> QED
      BY <1>2, <1>5, <3>1
  <2> QED
    BY <2>1, <2>2
<1>7. ASSUME NEW i \in 1 .. a + b, NEW j \in 1 .. a + b, r[i] = r[j]
      PROVE  i = j
  <2>1. CASE i \in 1 .. a /\ r[i] = p[i] /\ r[i] \in A
    <3>1. j \in 1 .. a /\ r[j] = p[j]
      BY <1>6, <1>7, <2>1, ZenonT(30)
    <3> QED
      BY <1>3, <1>7, <2>1, <3>1, ZenonT(30)
  <2>2. CASE i - a \in 1 .. b /\ r[i] = q[i - a] /\ r[i] \in B
    <3>1. j - a \in 1 .. b /\ r[j] = q[j - a]
      BY <1>6, <1>7, <2>2
    <3>2. i - a = j - a
      BY <1>3, <1>7, <2>2, <3>1
    <3> QED
      BY <1>1, <3>2
  <2> QED
    BY <1>6, <2>1, <2>2
<1>8. ASSUME NEW x \in X
      PROVE  \E i \in 1 .. a + b : r[i] = x
  <2>1. CASE x \in A
    <3>1. PICK i \in 1 .. a : p[i] = x
      BY <1>3, <2>1
    <3>2. i \in 1 .. a + b
      BY <1>1
    <3> QED
      BY <1>5, <3>1, <3>2
  <2>2. CASE x \in B
    <3>1. PICK i \in 1 .. b : q[i] = x
      BY <1>3, <2>2
    <3>2. a + i \in 1 .. a + b
      BY <1>1
    <3> QED
      BY <1>5, <3>1, <3>2
  <2> QED
    BY <2>1, <2>2 DEF X
<1>9. Lists(r, X)
  BY <1>5, <1>7, <1>8 DEF Lists
<1> QED
  BY <1>9 DEF r, X

\* A rearrangement of a list is a list.
LEMMA ListsRearranged ==
    ASSUME NEW q, NEW U, Lists(q, U), NEW X, NEW t \in Seq(X), Rearranges(t, q)
    PROVE  Lists(t, U)
<1> DEFINE n == Len(t)
<1>1. q \in Seq(U)
  BY DEF Lists
<1>2. ToSet(q) = U
  BY <1>1, ListsByElements
<1>3. ToSet(t) = U /\ n = Len(q)
  BY <1>2 DEF Rearranges
<1>4. Cardinality(U) = n
  BY <1>3, ListsCount
<1>5. n \in Nat /\ DOMAIN t = 1 .. n /\ t \in [1 .. n -> X] /\ ToSet(t) = {t[i] : i \in 1 .. n}
  BY DEF ToSet
<1>6. t \in [1 .. n -> U]
  BY <1>3, <1>5
<1>7. t \in Surjection(1 .. n, U)
  BY <1>3, <1>5, <1>6 DEF Surjection
<1>8. IsFiniteSet(1 .. n) /\ Cardinality(1 .. n) = n
  BY <1>5, CountUpTo
<1> HIDE DEF n
<1>9. t \in Injection(1 .. n, U)
  BY <1>4, <1>7, <1>8, FS_Surjection
<1>10. IsInjective(t)
  BY <1>9 DEF Injection
<1> QED
  BY <1>3, <1>10, ListsByElements

\* The slots a loop from one index to another counts up.
LEMMA IntervalLists ==
    ASSUME NEW a \in Nat, NEW b \in Nat, a <= b
    PROVE  Lists(interval(a, b), a + 1 .. b)
<1> DEFINE q == interval(a, b)
<1>1. q = [i \in 1 .. b - a |-> a + i]
  BY DEF interval
<1> HIDE DEF q
<1>2. b - a \in Nat /\ \A i \in 1 .. b - a : a + i \in a + 1 .. b
  OBVIOUS
<1>3. q \in Seq(a + 1 .. b) /\ Len(q) = b - a
  BY <1>1, <1>2
<1>4. \A i, j \in 1 .. b - a : q[i] = q[j] => i = j
  BY <1>1
<1>5. ASSUME NEW x \in a + 1 .. b
      PROVE  \E i \in 1 .. b - a : q[i] = x
  <2>1. x - a \in 1 .. b - a /\ a + (x - a) = x
    OBVIOUS
  <2> QED
    BY <1>1, <2>1
<1> QED
  BY <1>3, <1>4, <1>5 DEF Lists, q
-----------------------------------------------------------------------------
(* Arrangements by bucket                                                  *)

\* The elements of U that d puts into bucket b.
Class(U, d, b) == {x \in U : d[x] = b}

\* The sizes of the segments between the boundaries off[1], ..., off[k + 1].
gaps(off, k) == [b \in 1 .. k |-> off[b + 1] - off[b]]

\* Boundaries of k segments, none before the one in front of it.
Ladder(off, k) == Offsets(off, k, gaps(off, k)) /\ \A b \in 1 .. k : gaps(off, k)[b] \in Nat

\* r holds every element of U once, those of bucket b in the b-th segment.
Arranged(r, off, k, U, d) ==
    /\ Lists(r, U)
    /\ Ladder(off, k) /\ off[k + 1] = Len(r)
    /\ \A b \in 1 .. k : \A p \in off[b] + 1 .. off[b + 1] : d[r[p]] = b

\* Offsets are such boundaries.
LEMMA OffsetsLadder ==
    ASSUME NEW n \in Nat, NEW s, \A b \in 1 .. n : s[b] \in Nat, NEW off, Offsets(off, n, s)
    PROVE  Ladder(off, n) /\ \A b \in 1 .. n : gaps(off, n)[b] = s[b]
<1>1. off \in Seq(Nat) /\ Len(off) = n + 1 /\ off[1] = 0 /\ \A b \in 1 .. n : off[b + 1] = off[b] + s[b]
  BY DEF Offsets
<1>2. ASSUME NEW b \in 1 .. n
      PROVE  gaps(off, n)[b] = s[b] /\ gaps(off, n)[b] \in Nat /\ off[b + 1] = off[b] + gaps(off, n)[b]
  <2>1. b \in 1 .. n + 1 /\ b + 1 \in 1 .. n + 1
    OBVIOUS
  <2>2. off[b] \in Nat /\ off[b + 1] \in Nat
    BY <1>1, <2>1
  <2>3. gaps(off, n)[b] = off[b + 1] - off[b]
    BY DEF gaps
  <2>4. off[b + 1] = off[b] + s[b] /\ s[b] \in Nat
    BY <1>1
  <2> QED
    BY <2>2, <2>3, <2>4
<1> QED
  BY <1>1, <1>2 DEF Ladder, Offsets

\* Boundaries are numbers, and the segments between them follow one another.
LEMMA LadderBounds ==
    ASSUME NEW k \in Nat, NEW off, Ladder(off, k), NEW b \in 1 .. k
    PROVE  /\ off[b] \in Nat /\ off[b + 1] \in Nat /\ off[k + 1] \in Nat
           /\ off[b] <= off[b + 1] /\ off[b + 1] <= off[k + 1]
<1>1. Offsets(off, k, gaps(off, k)) /\ \A i \in 1 .. k : gaps(off, k)[i] \in Nat
  BY DEF Ladder
<1>2. b \in 1 .. k + 1 /\ b + 1 \in b .. k + 1 /\ b + 1 \in 1 .. k + 1 /\ k + 1 \in b + 1 .. k + 1
  OBVIOUS
<1>3. off[b] \in Nat /\ off[b + 1] \in Nat /\ off[b] <= off[b + 1]
  BY <1>1, <1>2, OffsetsGrow
<1>4. off[k + 1] \in Nat /\ off[b + 1] <= off[k + 1]
  BY <1>1, <1>2, OffsetsGrow
<1> QED
  BY <1>3, <1>4

\* Every place lies in a segment.
LEMMA LadderSegment ==
    ASSUME NEW k \in Nat, NEW off, Ladder(off, k), NEW p \in 1 .. off[k + 1]
    PROVE  \E b \in 1 .. k : p \in off[b] + 1 .. off[b + 1]
<1>1. PICK b \in 1 .. k : off[b] < p /\ p <= off[b + 1]
  BY SegmentOf DEF Ladder
<1>2. off[b] \in Nat /\ off[b + 1] \in Nat /\ off[k + 1] \in Nat
  BY LadderBounds
<1>3. p \in off[b] + 1 .. off[b + 1]
  BY <1>1, <1>2
<1> QED
  BY <1>3

\* Lists of the elements of every bucket, joined, are arranged by bucket.
LEMMA JoinedArranged ==
    ASSUME NEW k \in Nat, NEW U, NEW d, \A x \in U : d[x] \in 1 .. k,
           NEW parts, Len(parts) = k, \A b \in 1 .. k : Lists(parts[b], Class(U, d, b))
    PROVE  Arranged(joined(parts), prefix_sums(lengths(parts, k)), k, U, d)
<1> DEFINE r == joined(parts)
           s == lengths(parts, k)
           off == prefix_sums(s)
<1>1. ASSUME NEW b \in 1 .. k
      PROVE  /\ parts[b] \in Seq(U) /\ Len(parts[b]) \in Nat
             /\ \A j \in 1 .. Len(parts[b]) : parts[b][j] \in U /\ d[parts[b][j]] = b
             /\ \A i, j \in 1 .. Len(parts[b]) : parts[b][i] = parts[b][j] => i = j
             /\ \A x \in U : d[x] = b => \E j \in 1 .. Len(parts[b]) : parts[b][j] = x
  <2> DEFINE T == Class(U, d, b)
             q == parts[b]
  <2>1. /\ q \in Seq(T)
        /\ \A i, j \in 1 .. Len(q) : q[i] = q[j] => i = j
        /\ \A x \in T : \E j \in 1 .. Len(q) : q[j] = x
    BY DEF Lists
  <2>2. T \subseteq U /\ \A x \in U : x \in T <=> d[x] = b
    BY DEF Class
  <2> HIDE DEF T, q
  <2>3. \A j \in 1 .. Len(q) : q[j] \in T
    BY <2>1
  <2>4. q \in Seq(U) /\ Len(q) \in Nat
    BY <2>1, <2>2
  <2>5. \A j \in 1 .. Len(q) : q[j] \in U /\ d[q[j]] = b
    BY <2>2, <2>3
  <2>6. \A x \in U : d[x] = b => \E j \in 1 .. Len(q) : q[j] = x
    BY <2>1, <2>2
  <2> QED
    BY <2>1, <2>4, <2>5, <2>6 DEF q
<1>2. JoinedAt(r, off, parts, k, U)
  BY <1>1, JoinedPlaces
<1>3. \A b \in 1 .. k : s[b] = Len(parts[b]) /\ s[b] \in Nat
  BY <1>1 DEF lengths
<1> HIDE DEF r, s, off
<1>4. /\ r \in Seq(U) /\ Offsets(off, k, s) /\ Len(r) = off[k + 1]
      /\ \A b \in 1 .. k : \A j \in 1 .. Len(parts[b]) : r[off[b] + j] = parts[b][j]
  BY <1>2 DEF JoinedAt, s
<1>5. Ladder(off, k) /\ \A b \in 1 .. k : off[b + 1] = off[b] + Len(parts[b])
  <2>1. Ladder(off, k)
    BY <1>3, <1>4, OffsetsLadder
  <2> QED
    BY <1>3, <1>4, <2>1 DEF Offsets
<1>6. ASSUME NEW b \in 1 .. k, NEW p \in off[b] + 1 .. off[b + 1]
      PROVE  p - off[b] \in 1 .. Len(parts[b]) /\ r[p] = parts[b][p - off[b]] /\ d[r[p]] = b
  <2>1. off[b] \in Nat /\ off[b + 1] = off[b] + Len(parts[b]) /\ Len(parts[b]) \in Nat
    BY <1>1, <1>5, LadderBounds
  <2>2. p - off[b] \in 1 .. Len(parts[b]) /\ off[b] + (p - off[b]) = p
    BY <2>1
  <2>3. r[off[b] + (p - off[b])] = parts[b][p - off[b]]
    BY <1>4, <2>2
  <2> QED
    BY <1>1, <2>2, <2>3
<1>7. ASSUME NEW p \in 1 .. Len(r), NEW q \in 1 .. Len(r), r[p] = r[q]
      PROVE  p = q
  <2>1. PICK b \in 1 .. k : p \in off[b] + 1 .. off[b + 1]
    BY <1>4, <1>5, LadderSegment
  <2>2. PICK c \in 1 .. k : q \in off[c] + 1 .. off[c + 1]
    BY <1>4, <1>5, LadderSegment
  <2>3. b = c
    <3>1. d[r[p]] = b
      BY <1>6, <2>1
    <3>2. d[r[q]] = c
      BY <1>6, <2>2
    <3> QED
      BY <1>7, <3>1, <3>2
  <2>4. p - off[b] = q - off[b]
    <3>1. p - off[b] \in 1 .. Len(parts[b]) /\ r[p] = parts[b][p - off[b]]
      BY <1>6, <2>1
    <3>2. q - off[b] \in 1 .. Len(parts[b]) /\ r[q] = parts[b][q - off[b]]
      BY <1>6, <2>2, <2>3
    <3>3. \A i, j \in 1 .. Len(parts[b]) : parts[b][i] = parts[b][j] => i = j
      BY <1>1
    <3> DEFINE x == p - off[b]
               y == q - off[b]
    <3>4. x \in 1 .. Len(parts[b]) /\ y \in 1 .. Len(parts[b]) /\ parts[b][x] = parts[b][y]
      BY <1>7, <3>1, <3>2
    <3> HIDE DEF x, y
    <3>5. x = y
      BY <3>3, <3>4
    <3> QED
      BY <3>5 DEF x, y
  <2>5. off[b] \in Nat
    BY <1>5, LadderBounds
  <2>6. p \in Int /\ q \in Int
    BY <1>4
  <2> QED
    BY <2>4, <2>5, <2>6
<1>8. ASSUME NEW x \in U
      PROVE  \E p \in 1 .. Len(r) : r[p] = x
  <2> DEFINE b == d[x]
  <2>1. b \in 1 .. k
    OBVIOUS
  <2> HIDE DEF b
  <2>2. PICK j \in 1 .. Len(parts[b]) : parts[b][j] = x
    BY <1>1, <2>1 DEF b
  <2>3. r[off[b] + j] = x
    BY <1>4, <2>1, <2>2
  <2>4. /\ off[b] \in Nat /\ off[b + 1] \in Nat /\ off[b + 1] <= Len(r) /\ Len(r) \in Nat
        /\ off[b + 1] = off[b] + Len(parts[b]) /\ Len(parts[b]) \in Nat
    BY <1>1, <1>4, <1>5, <2>1, LadderBounds
  <2>5. off[b] + j \in 1 .. Len(r)
    BY <2>4
  <2> QED
    BY <2>3, <2>5
<1>9. Lists(r, U)
  BY <1>4, <1>7, <1>8 DEF Lists
<1>10. Arranged(r, off, k, U, d)
  BY <1>4, <1>5, <1>6, <1>9 DEF Arranged
<1> QED
  BY <1>10 DEF r, off, s

segment(r, off, b) == SubSeq(r, off[b] + 1, off[b + 1])

\* Every segment of an arrangement lists the elements of its bucket.
LEMMA SegmentLists ==
    ASSUME NEW k \in Nat, NEW U, NEW d, NEW r, NEW off, Arranged(r, off, k, U, d), NEW b \in 1 .. k
    PROVE  /\ Lists(segment(r, off, b), Class(U, d, b))
           /\ Len(segment(r, off, b)) = off[b + 1] - off[b]
           /\ Cardinality(Class(U, d, b)) = off[b + 1] - off[b]
<1> DEFINE lo == off[b]
           hi == off[b + 1]
           q == SubSeq(r, lo + 1, hi)
           T == Class(U, d, b)
<1>1. /\ r \in Seq(U) /\ Len(r) = off[k + 1] /\ Len(r) \in Nat
      /\ \A i, j \in 1 .. Len(r) : r[i] = r[j] => i = j
      /\ \A x \in U : \E i \in 1 .. Len(r) : r[i] = x
      /\ \A p \in 1 .. Len(r) : r[p] \in U
  <2>1. Lists(r, U) /\ Len(r) = off[k + 1]
    BY DEF Arranged
  <2> QED
    BY <2>1 DEF Lists
<1>2. lo \in Nat /\ hi \in Nat /\ lo <= hi /\ hi <= Len(r)
  <2>1. Ladder(off, k)
    BY DEF Arranged
  <2>2. /\ off[b] \in Nat /\ off[b + 1] \in Nat /\ off[b] <= off[b + 1]
        /\ off[b + 1] <= off[k + 1]
    BY <2>1, LadderBounds
  <2>3. Len(r) = off[k + 1]
    BY <1>1
  <2> QED
    BY <2>2, <2>3
<1>3. \A p \in lo + 1 .. hi : d[r[p]] = b
  BY DEF Arranged
<1> HIDE DEF lo, hi
<1>4. lo \in 0 .. Len(r) /\ hi \in lo .. Len(r)
  BY <1>1, <1>2
<1>5. q \in Seq(U) /\ Len(q) = hi - lo /\ \A i \in 1 .. hi - lo : q[i] = r[lo + i]
  <2>1. r \in Seq(U)
    BY <1>1
  <2> QED
    BY <1>4, <2>1, Slice
<1> HIDE DEF q
<1>6. ASSUME NEW i \in 1 .. hi - lo
      PROVE  q[i] \in T /\ lo + i \in 1 .. Len(r) /\ q[i] = r[lo + i]
  <2>1. lo + i \in lo + 1 .. hi /\ lo + i \in 1 .. Len(r)
    BY <1>1, <1>2
  <2>2. q[i] = r[lo + i] /\ r[lo + i] \in U
    BY <1>1, <1>5, <2>1
  <2>3. d[r[lo + i]] = b
    BY <1>3, <2>1
  <2> QED
    BY <2>1, <2>2, <2>3 DEF Class
<1>7. hi - lo \in Nat
  BY <1>2
<1>8. q \in Seq(T)
  <2>1. q \in [1 .. hi - lo -> U]
    BY <1>5, <1>7
  <2>2. q \in [1 .. hi - lo -> T]
    BY <1>6, <2>1
  <2> DEFINE m == hi - lo
  <2>3. m \in Nat /\ q \in [1 .. m -> T]
    BY <1>7, <2>2
  <2> HIDE DEF T, m
  <2> QED
    BY <2>3
<1>9. ASSUME NEW i \in 1 .. hi - lo, NEW j \in 1 .. hi - lo, q[i] = q[j]
      PROVE  i = j
  <2>1. lo + i = lo + j
    <3>1. r[lo + i] = r[lo + j]
      BY <1>6, <1>9
    <3>2. lo + i \in 1 .. Len(r) /\ lo + j \in 1 .. Len(r)
      BY <1>6
    <3> QED
      BY <1>1, <3>1, <3>2
  <2> QED
    BY <1>2, <2>1
<1>10. ASSUME NEW x \in T
       PROVE  \E i \in 1 .. hi - lo : q[i] = x
  <2>1. x \in U /\ d[x] = b
    BY DEF Class
  <2>2. PICK p \in 1 .. Len(r) : r[p] = x
    BY <1>1, <2>1
  <2>3. PICK c \in 1 .. k : p \in off[c] + 1 .. off[c + 1]
    BY <1>1, LadderSegment DEF Arranged
  <2>4. c = b
    BY <2>1, <2>2, <2>3 DEF Arranged
  <2>5. p - lo \in 1 .. hi - lo /\ lo + (p - lo) = p
    <3>1. p \in lo + 1 .. hi
      BY <2>3, <2>4 DEF lo, hi
    <3> QED
      BY <1>2, <3>1
  <2>6. q[p - lo] = r[p]
    BY <1>5, <2>5
  <2> QED
    BY <2>2, <2>5, <2>6
<1>11. Lists(q, T)
  BY <1>5, <1>8, <1>9, <1>10 DEF Lists
<1>12. Cardinality(T) = hi - lo
  BY <1>5, <1>11, ListsCount
<1> QED
  BY <1>5, <1>11, <1>12 DEF q, lo, hi, segment

\* The number of boundaries before a place is the segment it lies in.
LEMMA SegmentFound ==
    ASSUME NEW k \in Nat, NEW off, Ladder(off, k), NEW b \in 1 .. k, NEW p \in off[b] + 1 .. off[b + 1]
    PROVE  first_above(Len(off), {i \in DOMAIN off : off[i] >= p}) = b
<1> DEFINE above == {i \in DOMAIN off : off[i] >= p}
           m == k + 1
           f == first_above(m, above)
<1>1. off \in Seq(Nat) /\ Len(off) = m /\ m \in Nat
  BY DEF Ladder, Offsets
<1>2. DOMAIN off = 1 .. m /\ \A i \in 1 .. m : off[i] \in Nat
  <2> HIDE DEF m
  <2> QED
    BY <1>1
<1>3. off[b] \in Nat /\ off[b + 1] \in Nat
  BY LadderBounds
<1>4. p \in Nat /\ off[b] < p /\ p <= off[b + 1]
  BY <1>3
<1>5. ASSUME NEW i \in 1 .. m, NEW j \in 1 .. m, i <= j, i \in above
      PROVE  j \in above
  <2>1. i \in 1 .. k + 1 /\ j \in i .. k + 1
    BY <1>5
  <2>2. off[i] \in Nat /\ off[j] \in Nat /\ off[i] <= off[j]
    BY <2>1, OffsetsGrow DEF Ladder
  <2>3. off[i] >= p
    BY <1>5
  <2>4. off[j] >= p
    BY <1>4, <2>2, <2>3
  <2> QED
    BY <1>2, <2>4
<1>6. b \in 1 .. m /\ b + 1 \in 1 .. m
  OBVIOUS
<1>7. b \notin above /\ b + 1 \in above
  BY <1>2, <1>3, <1>4, <1>6
<1> HIDE DEF above, m
<1>8. \A i \in 1 .. m : i \in above <=> i > first_above(m, above)
  BY <1>1, <1>5, AboveBoundary
<1>9. first_above(m, above) \in 0 .. m
  BY <1>1, AboveRange
<1> HIDE DEF f
<1>10. f \in Int /\ ~ (b > f) /\ b + 1 > f
  BY <1>1, <1>6, <1>7, <1>8, <1>9 DEF f
<1>11. f = b
  BY <1>10
<1> QED
  BY <1>1, <1>11 DEF f, above

\* The buckets assigned are among those the layouts have.
LEMMA IdsInRange ==
    ASSUME NEW st, NEW its, NEW vl, Collection(its, vl), Consistent(st, its, vl), LayoutsIn(st)
    PROVE  \A x \in 1 .. Len(its) : st.buckets[x] \in 1 .. bucket_total(st)
<1> SUFFICES ASSUME NEW x \in 1 .. Len(its)
             PROVE  st.buckets[x] \in 1 .. bucket_total(st)
  OBVIOUS
<1>1. its \in Seq(Handle) /\ x \in DOMAIN its /\ vl \in [ToSet(its) -> Value]
  BY DEF Collection
<1>2. its[x] \in ToSet(its)
  BY <1>1 DEF ToSet
<1>3. vl[its[x]] \in Value
  BY <1>1, <1>2
<1>4. st.buckets[x] = bucket_for(st, vl[its[x]], st.keys[x], vl)
  BY <1>1 DEF Consistent, BucketsIn
<1>5. st.name \in Name /\ DOMAIN st.layouts = 1 .. GroupCount[st.name]
  BY DEF Consistent, KeyStateOK
<1> QED
  BY <1>3, <1>4, <1>5, IdInRange

\* There is a number of buckets.
LEMMA TotalInNat ==
    ASSUME NEW st, st.name \in Name, DOMAIN st.layouts = 1 .. GroupCount[st.name], LayoutsIn(st)
    PROVE  bucket_total(st) \in Nat
<1> DEFINE c == GroupCount[st.name]
<1>1. GroupCount \in [Name -> Nat \ {0}]
  BY SortKeyAssumption
<1>2. c \in Nat \ {0}
  BY <1>1
<1> HIDE DEF c
<1>3. DOMAIN st.layouts = 1 .. c
  BY DEF c
<1> QED
  BY <1>2, <1>3, IdsOfGroups

\* The offsets of an arrangement are the sums of the bucket sizes.
LEMMA SumsOfTally ==
    ASSUME NEW k \in Nat, NEW n, NEW bs, DOMAIN bs = 1 .. n, NEW r,
           NEW parts, Len(parts) = k, \A b \in 1 .. k : Len(parts[b]) \in Nat,
           Arranged(r, prefix_sums(lengths(parts, k)), k, 1 .. n, bs)
    PROVE  lengths(parts, k) = tally(bs, k)
<1> DEFINE s == lengths(parts, k)
           off == prefix_sums(s)
<1>1. Len(s) = k /\ \A b \in 1 .. k : s[b] \in Nat
  BY DEF lengths
<1>2. Offsets(off, k, s)
  <2> HIDE DEF s
  <2> QED
    BY <1>1, SumsAreOffsets
<1>3. \A b \in 1 .. k : gaps(off, k)[b] = s[b]
  <2> HIDE DEF s, off
  <2> QED
    BY <1>1, <1>2, OffsetsLadder
<1>4. ASSUME NEW b \in 1 .. k
      PROVE  Cardinality({x \in DOMAIN bs : bs[x] = b}) = s[b]
  <2>1. Cardinality(Class(1 .. n, bs, b)) = off[b + 1] - off[b]
    BY SegmentLists
  <2>2. gaps(off, k)[b] = off[b + 1] - off[b]
    BY DEF gaps
  <2>3. {x \in DOMAIN bs : bs[x] = b} = Class(1 .. n, bs, b)
    BY DEF Class
  <2> HIDE DEF s, off
  <2> QED
    BY <1>3, <2>1, <2>2, <2>3
<1>5. tally(bs, k) = [b \in 1 .. k |-> s[b]]
  BY <1>4 DEF tally
<1> QED
  BY <1>5 DEF lengths

\* distribute arranges the slots it is given by their bucket.
LEMMA DistributeArranged ==
    ASSUME NEW k \in Nat, NEW n, NEW q, Lists(q, 1 .. n),
           NEW dest, DOMAIN dest = 1 .. n, NEW bs, DOMAIN bs = 1 .. n,
           \A x \in 1 .. n : dest[x] = bs[x] /\ bs[x] \in 1 .. k
    PROVE  Arranged(distribute(q, dest, k), prefix_sums(tally(bs, k)), k, 1 .. n, bs)
<1> DEFINE U == 1 .. n
           parts == [b \in 1 .. k |-> only(q, {x \in DOMAIN dest : dest[x] = b})]
<1>1. Len(parts) = k
  OBVIOUS
<1>2. ASSUME NEW b \in 1 .. k
      PROVE  Lists(parts[b], Class(U, bs, b))
  <2> DEFINE T == {x \in DOMAIN dest : dest[x] = b}
  <2>1. Lists(only(q, T), U \cap T)
    BY ListsOnly
  <2>2. U \cap T = Class(U, bs, b)
    BY DEF Class
  <2>3. parts[b] = only(q, T)
    OBVIOUS
  <2> QED
    BY <2>1, <2>2, <2>3
<1>3. distribute(q, dest, k) = joined(parts)
  BY DEF distribute
<1> HIDE DEF parts
<1>4. \A x \in U : bs[x] \in 1 .. k
  OBVIOUS
<1>5. \A b \in 1 .. k : Len(parts[b]) \in Nat
  BY <1>2, ListsCount
<1> HIDE DEF U
<1>6. Arranged(joined(parts), prefix_sums(lengths(parts, k)), k, U, bs)
  BY <1>1, <1>2, <1>4, JoinedArranged
<1>7. lengths(parts, k) = tally(bs, k)
  BY <1>1, <1>5, <1>6, SumsOfTally DEF U
<1> QED
  BY <1>3, <1>6, <1>7 DEF U
-----------------------------------------------------------------------------
(* What is known of a grouping                                             *)

\* Whether an arrangement is one depends on where d puts the listed elements.
LEMMA ArrangedAgain ==
    ASSUME NEW k \in Nat, NEW U, NEW d, NEW e, NEW r, NEW off, Arranged(r, off, k, U, d),
           \A x \in U : e[x] = d[x]
    PROVE  Arranged(r, off, k, U, e)
<1>1. Ladder(off, k) /\ off[k + 1] = Len(r) /\ \A p \in 1 .. Len(r) : r[p] \in U
  BY DEF Arranged, Lists
<1>2. ASSUME NEW b \in 1 .. k, NEW p \in off[b] + 1 .. off[b + 1]
      PROVE  e[r[p]] = b
  <2>1. /\ off[b] \in Nat /\ off[b + 1] \in Nat /\ off[k + 1] \in Nat
        /\ off[b + 1] <= off[k + 1]
    BY <1>1, LadderBounds
  <2>2. p \in 1 .. Len(r)
    BY <1>1, <2>1
  <2>3. d[r[p]] = b
    BY DEF Arranged
  <2> QED
    BY <1>1, <2>2, <2>3
<1> QED
  BY <1>2 DEF Arranged

\* The grouping holds the slots it covers by the buckets d, which for all but
\* the slots waiting to be re-placed are the present ones.
Placed(st, d) ==
    /\ Arranged(st.order, st.start, bucket_total(st), 1 .. st.ordered_slots, d)
    /\ \A x \in 1 .. st.ordered_slots :
          d[x] \in 1 .. bucket_total(st) /\ (x \in st.moved \/ d[x] = st.buckets[x])

\* No sorted prefix is longer than its bucket.
PrefixesIn(st) ==
    /\ DOMAIN st.sorted_len = 1 .. bucket_total(st)
    /\ \A b \in 1 .. bucket_total(st) : st.sorted_len[b] \in 0 .. st.start[b + 1] - st.start[b]

GroupedIn(st) ==
    st.has_order = TRUE =>
        /\ \E d : Placed(st, d)
        /\ PrefixesIn(st)
        /\ st.order_stale = FALSE => st.start = prefix_sums(st.counts)

\* A KeyState whose ids and counts are in order.
Ready(st, its, vl) ==
    Collection(its, vl) /\ Consistent(st, its, vl) /\ LayoutsIn(st) /\ CountsIn(st)

\* The types of such a KeyState, as far as a grouping needs them.
Typed(st, k, n) ==
    /\ k \in Nat /\ n \in Nat
    /\ DOMAIN st = KeyFields
    /\ DOMAIN st.buckets = 1 .. n /\ \A x \in 1 .. n : st.buckets[x] \in 1 .. k
    /\ st.counts = tally(st.buckets, k)
    /\ st.has_order \in BOOLEAN /\ st.order_stale \in BOOLEAN
    /\ st.ordered_slots \in 0 .. n /\ st.moved \subseteq 1 .. n

\* They follow.
LEMMA ReadyTyped ==
    ASSUME NEW st, NEW its, NEW vl, Ready(st, its, vl)
    PROVE  Typed(st, bucket_total(st), Len(its))
<1>1. Collection(its, vl) /\ Consistent(st, its, vl) /\ LayoutsIn(st) /\ CountsIn(st)
  BY DEF Ready
<1>2. KeyStateOK(st, Len(its))
  BY <1>1 DEF Consistent
<1>3. Len(its) \in Nat
  BY <1>1 DEF Collection
<1>4. bucket_total(st) \in Nat
  BY <1>1, <1>2, TotalInNat DEF KeyStateOK
<1>5. \A x \in 1 .. Len(its) : st.buckets[x] \in 1 .. bucket_total(st)
  BY <1>1, IdsInRange
<1> QED
  BY <1>1, <1>2, <1>3, <1>4, <1>5 DEF Typed, KeyStateOK, CountsIn

\* There is one count per bucket.
LEMMA CountPerBucket ==
    ASSUME NEW k \in Nat, NEW bs
    PROVE  Len(tally(bs, k)) = k /\ DOMAIN tally(bs, k) = 1 .. k
  BY DEF tally

\* What build_order sets.
LEMMA BuildFields ==
    ASSUME NEW s, NEW n, DOMAIN s = KeyFields
    PROVE  LET t == build_order(s, n)
           IN  /\ t.layouts = s.layouts /\ t.buckets = s.buckets /\ t.counts = s.counts
               /\ t.start = prefix_sums(s.counts)
               /\ t.order = distribute(interval(0, n), s.buckets, Len(s.counts))
               /\ t.sorted_len = [b \in DOMAIN s.counts |-> 0]
               /\ t.moved = {} /\ t.ordered_slots = n
  BY DEF build_order, KeyFields

\* Slots arranged by their present buckets, from boundaries that add up the
\* counts, with prefixes that fit, are a grouping.
LEMMA GroupedBy ==
    ASSUME NEW t, NEW k, NEW n, k = bucket_total(t), Typed(t, k, n),
           t.ordered_slots = n, t.start = prefix_sums(t.counts),
           Arranged(t.order, t.start, k, 1 .. n, t.buckets), PrefixesIn(t)
    PROVE  GroupedIn(t)
<1>1. Placed(t, t.buckets)
  BY DEF Placed, Typed
<1> QED
  BY <1>1 DEF GroupedIn

\* build_order groups all slots.
LEMMA BuildGroups ==
    ASSUME NEW s, NEW its, NEW vl, Ready(s, its, vl)
    PROVE  GroupedIn(build_order(s, Len(its)))
<1> DEFINE n == Len(its)
           t == build_order(s, n)
           k == bucket_total(s)
<1>1. Typed(s, k, n)
  BY ReadyTyped
<1>2. /\ t.layouts = s.layouts /\ t.buckets = s.buckets /\ t.counts = s.counts
      /\ t.start = prefix_sums(s.counts)
      /\ t.order = distribute(interval(0, n), s.buckets, Len(s.counts))
      /\ t.sorted_len = [b \in DOMAIN s.counts |-> 0]
      /\ t.moved = {} /\ t.ordered_slots = n
  BY <1>1, BuildFields DEF Typed
<1>3. bucket_total(t) = k
  BY <1>2, SameTotal
<1>4. DOMAIN t = KeyFields /\ t.has_order \in BOOLEAN /\ t.order_stale \in BOOLEAN
  BY <1>1 DEF Typed, build_order, KeyFields
<1> HIDE DEF t, n, k
<1>5. k \in Nat /\ n \in Nat /\ s.counts = tally(s.buckets, k) /\ DOMAIN s.buckets = 1 .. n
      /\ \A x \in 1 .. n : s.buckets[x] \in 1 .. k
  BY <1>1 DEF Typed
<1>6. Typed(t, k, n)
  BY <1>2, <1>4, <1>5 DEF Typed
<1>7. Len(s.counts) = k /\ DOMAIN s.counts = 1 .. k
  BY <1>5, CountPerBucket
<1>8. Lists(interval(0, n), 1 .. n)
  <2>1. 0 \in Nat /\ 0 <= n /\ 0 + 1 .. n = 1 .. n
    BY <1>5
  <2> QED
    BY <1>5, <2>1, IntervalLists
<1>9. Arranged(t.order, t.start, k, 1 .. n, t.buckets)
  <2>1. Arranged(distribute(interval(0, n), s.buckets, k), prefix_sums(tally(s.buckets, k)), k,
                 1 .. n, s.buckets)
    BY <1>5, <1>8, DistributeArranged
  <2> QED
    BY <1>2, <1>5, <1>7, <2>1
<1>10. PrefixesIn(t)
  <2> SUFFICES ASSUME NEW b \in 1 .. k
               PROVE  0 \in 0 .. t.start[b + 1] - t.start[b]
    BY <1>2, <1>3, <1>7 DEF PrefixesIn
  <2>1. Ladder(t.start, k)
    BY <1>9 DEF Arranged
  <2>2. t.start[b] \in Nat /\ t.start[b + 1] \in Nat /\ t.start[b] <= t.start[b + 1]
    BY <1>5, <2>1, LadderBounds
  <2> QED
    BY <2>2
<1>11. GroupedIn(t)
  BY <1>2, <1>3, <1>6, <1>9, <1>10, GroupedBy
<1> QED
  BY <1>11 DEF t, n
-----------------------------------------------------------------------------
(* Repairing a grouping                                                    *)

place_of(st, x) == CHOOSE i \in DOMAIN st.order : st.order[i] = x

\* A slot is found in the segment of its bucket.
LEMMA PlaceFound ==
    ASSUME NEW st, NEW k \in Nat, NEW U, NEW d, Arranged(st.order, st.start, k, U, d), NEW x \in U
    PROVE  bucket_at(st, place_of(st, x)) = d[x]
<1> DEFINE r == st.order
           off == st.start
           p == CHOOSE i \in DOMAIN r : r[i] = x
<1>1. /\ r \in Seq(U) /\ Ladder(off, k) /\ off[k + 1] = Len(r)
      /\ \E i \in 1 .. Len(r) : r[i] = x
  BY DEF Arranged, Lists
<1>2. DOMAIN r = 1 .. Len(r)
  BY <1>1
<1>3. p \in 1 .. Len(r) /\ r[p] = x
  BY <1>1, <1>2
<1> HIDE DEF p
<1>4. PICK b \in 1 .. k : p \in off[b] + 1 .. off[b + 1]
  BY <1>1, <1>3, LadderSegment
<1>5. d[x] = b
  BY <1>3, <1>4 DEF Arranged
<1>6. first_above(Len(off), {i \in DOMAIN off : off[i] >= p}) = b
  BY <1>1, <1>4, SegmentFound
<1> QED
  BY <1>5, <1>6 DEF bucket_at, p, place_of

\* The part of a sorted prefix that stays is no longer than what stays of its
\* bucket.
LEMMA PrefixSurvives ==
    ASSUME NEW st, NEW k \in Nat, NEW U, NEW d, k = bucket_total(st),
           Arranged(st.order, st.start, k, U, d), PrefixesIn(st), NEW staying, NEW b \in 1 .. k
    PROVE  /\ DOMAIN surviving_prefix(st, staying) = 1 .. k
           /\ surviving_prefix(st, staying)[b] \in 0 .. Cardinality(Class(U, d, b) \cap staying)
           /\ IsFiniteSet(Class(U, d, b))
<1> DEFINE q == grouped(st, b)
           T == Class(U, d, b)
           l == st.sorted_len[b]
           P == {p \in 1 .. l : q[p] \in staying}
           C == T \cap staying
<1>1. DOMAIN surviving_prefix(st, staying) = 1 .. k /\ surviving_prefix(st, staying)[b] = Cardinality(P)
  BY DEF surviving_prefix, PrefixesIn
<1>2. Lists(q, T) /\ Len(q) = st.start[b + 1] - st.start[b]
  <2>1. q = segment(st.order, st.start, b)
    BY DEF grouped, segment
  <2> QED
    BY <2>1, SegmentLists
<1>3. l \in 0 .. Len(q)
  BY <1>2 DEF PrefixesIn
<1> HIDE DEF q, T, l
<1>4. IsFiniteSet(T) /\ Len(q) \in Nat
  BY <1>2, ListsCount
<1>5. IsFiniteSet(C)
  BY <1>4, FS_Subset
<1>6. l \in Nat /\ l <= Len(q)
  BY <1>3, <1>4
<1>7. IsFiniteSet(P) /\ Cardinality(P) \in Nat
  BY <1>6, PartOfInterval
<1>8. \A p \in P : p \in 1 .. Len(q) /\ q[p] \in C
  <2>1. \A p \in 1 .. Len(q) : q[p] \in T
    BY <1>2 DEF Lists
  <2>2. \A p \in 1 .. l : p \in 1 .. Len(q)
    BY <1>6, <1>4
  <2> QED
    BY <2>1, <2>2
<1>9. \A p1, p2 \in P : q[p1] = q[p2] => p1 = p2
  BY <1>2, <1>8 DEF Lists
<1> HIDE DEF P, C
<1>10. Cardinality(P) <= Cardinality(C)
  <2> DEFINE f == [p \in P |-> q[p]]
  <2>1. f \in Injection(P, C)
    BY <1>8, <1>9 DEF Injection, IsInjective
  <2> HIDE DEF f
  <2> QED
    BY <1>5, <2>1, FS_Injection
<1>11. Cardinality(C) \in Nat
  BY <1>5, FS_CardinalityType
<1> QED
  BY <1>1, <1>4, <1>7, <1>10, <1>11 DEF C, T, P

\* The bucket regroup gives to a slot.
destinations(st, n) ==
    [x \in 1 .. n |-> IF x \in st.moved \/ x > st.ordered_slots THEN st.buckets[x]
                      ELSE bucket_at(st, place_of(st, x))]

\* The slots in the order in which regroup distributes them.
requeued(st, n) ==
    only(st.order, 1 .. n \ st.moved) \o only(st.order, st.moved) \o interval(st.ordered_slots, n)

\* What regroup sets.
RegroupResult(t, s, n) ==
    /\ t.layouts = s.layouts /\ t.buckets = s.buckets /\ t.counts = s.counts
    /\ t.start = prefix_sums(s.counts)
    /\ t.order = distribute(requeued(s, n), destinations(s, n), Len(s.counts))
    /\ t.sorted_len = surviving_prefix(s, 1 .. n \ s.moved)
    /\ t.moved = {} /\ t.ordered_slots = n
    /\ DOMAIN t = KeyFields
    /\ t.has_order = s.has_order /\ t.order_stale = FALSE

\* regroup does this.
LEMMA RegroupFields ==
    ASSUME NEW s, NEW n, DOMAIN s = KeyFields
    PROVE  RegroupResult(regroup(s, n), s, n)
  BY DEF regroup, KeyFields, requeued, destinations, place_of, RegroupResult

\* regroup distributes every slot once.
LEMMA RequeuedLists ==
    ASSUME NEW s, NEW n \in Nat, s.ordered_slots \in 0 .. n, Lists(s.order, 1 .. s.ordered_slots)
    PROVE  Lists(requeued(s, n), 1 .. n)
<1> DEFINE o == s.ordered_slots
           kept == only(s.order, 1 .. n \ s.moved)
           back == only(s.order, s.moved)
           new == interval(o, n)
           A == (1 .. o) \cap (1 .. n \ s.moved)
           B == (1 .. o) \cap s.moved
           C == o + 1 .. n
<1>1. Lists(kept, A) /\ Lists(back, B)
  BY ListsOnly
<1>2. Lists(new, C)
  <2>1. o \in Nat /\ o <= n
    OBVIOUS
  <2> HIDE DEF o
  <2> QED
    BY <2>1, IntervalLists
<1>3. A \cap B = {}
  OBVIOUS
<1>4. (A \cup B) \cap C = {} /\ (A \cup B) \cup C = 1 .. n
  OBVIOUS
<1>5. requeued(s, n) = kept \o back \o new
  BY DEF requeued
<1> HIDE DEF kept, back, new, A, B, C, o
<1>6. Lists(kept \o back, A \cup B)
  BY <1>1, <1>3, ListsBoth
<1>7. Lists((kept \o back) \o new, (A \cup B) \cup C)
  BY <1>2, <1>4, <1>6, ListsBoth
<1> QED
  BY <1>4, <1>5, <1>7

\* It puts every slot into its present bucket: the slots that stay are already
\* grouped into it.
LEMMA DestinationsFit ==
    ASSUME NEW s, NEW k, NEW n, k = bucket_total(s), Typed(s, k, n), NEW d, Placed(s, d)
    PROVE  \A x \in 1 .. n : destinations(s, n)[x] = s.buckets[x]
<1> SUFFICES ASSUME NEW x \in 1 .. n
             PROVE  destinations(s, n)[x] = s.buckets[x]
  OBVIOUS
<1> DEFINE p == place_of(s, x)
<1>1. destinations(s, n)[x] = IF x \in s.moved \/ x > s.ordered_slots THEN s.buckets[x]
                              ELSE bucket_at(s, p)
  BY DEF destinations
<1>2. k \in Nat /\ n \in Nat /\ s.ordered_slots \in 0 .. n
  BY DEF Typed
<1>3. CASE x \notin s.moved /\ ~ (x > s.ordered_slots)
  <2> DEFINE U == 1 .. s.ordered_slots
  <2>1. x \in U
    BY <1>2, <1>3
  <2>2. Arranged(s.order, s.start, k, U, d) /\ d[x] = s.buckets[x]
    BY <1>3, <2>1 DEF Placed
  <2> HIDE DEF U
  <2>3. bucket_at(s, p) = d[x]
    BY <1>2, <2>1, <2>2, PlaceFound
  <2> HIDE DEF p
  <2> QED
    BY <1>1, <1>3, <2>2, <2>3
<1> HIDE DEF p
<1> QED
  BY <1>1, <1>3

\* regroup makes the grouping cover every slot again.
LEMMA RegroupGroups ==
    ASSUME NEW s, NEW its, NEW vl, Ready(s, its, vl), GroupedIn(s), s.has_order = TRUE
    PROVE  GroupedIn(regroup(s, Len(its)))
<1> DEFINE n == Len(its)
           t == regroup(s, n)
           k == bucket_total(s)
           staying == 1 .. n \ s.moved
<1>1. Typed(s, k, n)
  BY ReadyTyped
<1>2. /\ t.layouts = s.layouts /\ t.buckets = s.buckets /\ t.counts = s.counts
      /\ t.start = prefix_sums(s.counts)
      /\ t.order = distribute(requeued(s, n), destinations(s, n), Len(s.counts))
      /\ t.sorted_len = surviving_prefix(s, staying)
      /\ t.moved = {} /\ t.ordered_slots = n
      /\ DOMAIN t = KeyFields
      /\ t.has_order = s.has_order /\ t.order_stale = FALSE
  <2>1. DOMAIN s = KeyFields
    BY <1>1 DEF Typed
  <2>2. RegroupResult(t, s, n)
    BY <2>1, RegroupFields
  <2> HIDE DEF t, n
  <2> QED
    BY <2>2 DEF RegroupResult
<1>3. bucket_total(t) = k
  BY <1>2, SameTotal
<1>4. (\E d : Placed(s, d)) /\ PrefixesIn(s)
  BY DEF GroupedIn
<1> HIDE DEF t, n, k
<1>5. PICK d : Placed(s, d)
  BY <1>4
<1>6. /\ k \in Nat /\ n \in Nat /\ s.counts = tally(s.buckets, k) /\ DOMAIN s.buckets = 1 .. n
      /\ \A x \in 1 .. n : s.buckets[x] \in 1 .. k
      /\ s.ordered_slots \in 0 .. n
  BY <1>1 DEF Typed
<1>7. Typed(t, k, n)
  <2>1. t.has_order \in BOOLEAN /\ t.order_stale \in BOOLEAN
    BY <1>1, <1>2 DEF Typed
  <2>2. t.ordered_slots \in 0 .. n /\ t.moved \subseteq 1 .. n
    BY <1>2, <1>6
  <2>3. DOMAIN t = KeyFields /\ t.buckets = s.buckets /\ t.counts = s.counts
    BY <1>2
  <2> HIDE DEF staying
  <2> QED
    BY <1>6, <2>1, <2>2, <2>3 DEF Typed
<1>8. Len(s.counts) = k
  BY <1>6, CountPerBucket
<1>9. Arranged(s.order, s.start, k, 1 .. s.ordered_slots, d)
  BY <1>5 DEF Placed, k
<1>10. Arranged(t.order, t.start, k, 1 .. n, t.buckets)
  <2>1. Lists(requeued(s, n), 1 .. n)
    BY <1>6, <1>9, RequeuedLists DEF Arranged
  <2>2. \A x \in 1 .. n : destinations(s, n)[x] = s.buckets[x]
    BY <1>1, <1>5, DestinationsFit DEF k
  <2>3. DOMAIN destinations(s, n) = 1 .. n
    BY DEF destinations
  <2>4. Arranged(distribute(requeued(s, n), destinations(s, n), k), prefix_sums(tally(s.buckets, k)),
                 k, 1 .. n, s.buckets)
    BY <1>6, <2>1, <2>2, <2>3, DistributeArranged
  <2> QED
    BY <1>2, <1>6, <1>8, <2>4
<1>11. ASSUME NEW b \in 1 .. k
       PROVE  /\ DOMAIN t.sorted_len = 1 .. k
              /\ t.sorted_len[b] \in 0 .. t.start[b + 1] - t.start[b]
  <2> DEFINE T == Class(1 .. s.ordered_slots, d, b)
             V == Class(1 .. n, t.buckets, b)
             l == surviving_prefix(s, staying)[b]
  <2>1. DOMAIN surviving_prefix(s, staying) = 1 .. k /\ l \in 0 .. Cardinality(T \cap staying)
        /\ IsFiniteSet(T)
    BY <1>4, <1>6, <1>9, PrefixSurvives DEF k
  <2>2. Lists(segment(t.order, t.start, b), V) /\ Cardinality(V) = t.start[b + 1] - t.start[b]
    <3> DEFINE r == t.order
               off == t.start
               bs == t.buckets
               U == 1 .. n
    <3>1. Arranged(r, off, k, U, bs)
      BY <1>10
    <3> HIDE DEF r, off, bs, U, T, l, staying
    <3>2. Lists(segment(r, off, b), Class(U, bs, b)) /\ Cardinality(Class(U, bs, b)) = off[b + 1] - off[b]
      BY <1>6, <3>1, SegmentLists
    <3> QED
      BY <3>2 DEF r, off, bs, U
  <2>3. T \cap staying \subseteq V
    BY <1>2, <1>5, <1>6 DEF Placed, Class
  <2>4. IsFiniteSet(V)
    BY <2>2, ListsCount
  <2> HIDE DEF T, V, l, staying
  <2>5. /\ Cardinality(T \cap staying) \in Nat /\ Cardinality(V) \in Nat
        /\ Cardinality(T \cap staying) <= Cardinality(V)
    BY <2>3, <2>4, FS_Subset, FS_CardinalityType
  <2>6. l \in 0 .. Cardinality(V)
    BY <2>1, <2>5
  <2> QED
    BY <1>2, <2>1, <2>2, <2>6 DEF l
<1>12. PrefixesIn(t)
  <2>1. DOMAIN t.sorted_len = 1 .. k
    BY <1>2, <1>4 DEF surviving_prefix, PrefixesIn, k
  <2> QED
    BY <1>3, <1>11, <2>1 DEF PrefixesIn
<1>13. GroupedIn(t)
  BY <1>2, <1>3, <1>7, <1>10, <1>12, GroupedBy
<1> QED
  BY <1>13 DEF t, n
-----------------------------------------------------------------------------
(* Sorting the buckets of a grouping                                       *)

\* A sequence cut in two and put together again.
LEMMA CutWhole ==
    ASSUME NEW X, NEW q \in Seq(X), NEW a \in 0 .. Len(q)
    PROVE  /\ SubSeq(q, 1, a) \in Seq(X) /\ SubSeq(q, a + 1, Len(q)) \in Seq(X)
           /\ SubSeq(q, 1, a) \o SubSeq(q, a + 1, Len(q)) = q
<1> DEFINE n == Len(q)
           p == SubSeq(q, 1, a)
           z == SubSeq(q, a + 1, n)
           r == p \o z
<1>1. n \in Nat /\ a \in Nat /\ a <= n /\ n \in a .. n /\ 0 \in 0 .. n /\ a \in 0 .. n
  OBVIOUS
<1>2. p \in Seq(X) /\ Len(p) = a /\ \A i \in 1 .. a : p[i] = q[i]
  <2>1. /\ SubSeq(q, 0 + 1, a) \in Seq(X) /\ Len(SubSeq(q, 0 + 1, a)) = a - 0
        /\ \A i \in 1 .. a - 0 : SubSeq(q, 0 + 1, a)[i] = q[0 + i]
    BY <1>1, Slice
  <2> QED
    BY <1>1, <2>1
<1>3. z \in Seq(X) /\ Len(z) = n - a /\ \A i \in 1 .. n - a : z[i] = q[a + i]
  BY <1>1, Slice
<1> HIDE DEF p, z
<1>4. Behind(r, p, z, X)
  BY <1>2, <1>3, Concatenation
<1> HIDE DEF r, n
<1>5. r \in Seq(X) /\ Len(r) = n
      /\ (\A i \in 1 .. a : r[i] = p[i]) /\ \A j \in 1 .. n - a : r[a + j] = z[j]
  <2>1. r \in Seq(X) /\ Len(r) = a + (n - a)
        /\ (\A i \in 1 .. a : r[i] = p[i]) /\ \A j \in 1 .. n - a : r[a + j] = z[j]
    BY <1>2, <1>3, <1>4 DEF Behind
  <2> QED
    BY <1>1, <2>1
<1>6. ASSUME NEW i \in 1 .. n
      PROVE  r[i] = q[i]
  <2>1. CASE i <= a
    BY <1>1, <1>2, <1>5, <2>1
  <2>2. CASE ~ (i <= a)
    <3>1. i - a \in 1 .. n - a /\ a + (i - a) = i
      BY <1>1, <2>2
    <3>2. r[a + (i - a)] = z[i - a] /\ z[i - a] = q[a + (i - a)]
      BY <1>3, <1>5, <3>1
    <3> QED
      BY <3>1, <3>2
  <2> QED
    BY <2>1, <2>2
<1>7. r = q
  <2>1. r = [i \in 1 .. n |-> r[i]]
    BY <1>5
  <2>2. q = [i \in 1 .. n |-> q[i]]
    BY DEF n
  <2>3. [i \in 1 .. n |-> r[i]] = [i \in 1 .. n |-> q[i]]
    BY <1>6
  <2> QED
    BY <2>1, <2>2, <2>3
<1> QED
  BY <1>2, <1>3, <1>7 DEF r, n, p, z

\* Rearranging what follows a sequence.
LEMMA RearrangedBehind ==
    ASSUME NEW X, NEW p \in Seq(X), NEW q \in Seq(X), NEW r \in Seq(X), Rearranges(r, q)
    PROVE  Rearranges(p \o r, p \o q)
<1>1. ToSet(p \o r) = ToSet(p) \cup ToSet(r) /\ ToSet(p \o q) = ToSet(p) \cup ToSet(q)
  BY ElementsOfBoth
<1>2. Len(p \o r) = Len(p) + Len(r) /\ Len(p \o q) = Len(p) + Len(q)
  OBVIOUS
<1> QED
  BY <1>1, <1>2 DEF Rearranges

\* sort_bucket only rearranges a bucket, whatever the comparator is.
LEMMA SortedBucketLists ==
    ASSUME NEW st, NEW b, NEW its, NEW vl, NEW T, Lists(grouped(st, b), T),
           st.sorted_len[b] \in 0 .. Len(grouped(st, b))
    PROVE  Lists(sorted_bucket(st, b, its, vl), T)
<1> DEFINE less == slot_order(st, its, vl)
           slots == grouped(st, b)
           a == st.sorted_len[b]
           prefix == SubSeq(slots, 1, a)
           back == SubSeq(slots, a + 1, Len(slots))
           tail == IF is_sorted(back, less) THEN back ELSE stable_sort(back, less)
           r == sorted_bucket(st, b, its, vl)
<1>1. r = IF back = << >> THEN slots
          ELSE IF prefix # << >> /\ <<tail[1], Last(prefix)>> \in less
               THEN inplace_merge(prefix, tail, less) ELSE prefix \o tail
  BY DEF sorted_bucket
<1>2. slots \in Seq(T) /\ a \in 0 .. Len(slots)
  BY DEF Lists
<1> HIDE DEF less, slots, a, r
<1>3. prefix \in Seq(T) /\ back \in Seq(T) /\ prefix \o back = slots
  BY <1>2, CutWhole
<1> HIDE DEF prefix, back
<1>4. tail \in Seq(T) /\ Rearranges(tail, back)
  <2>1. Rearranges(back, back)
    BY DEF Rearranges
  <2> QED
    BY <1>3, <2>1, SortRearranges
<1> HIDE DEF tail
<1>5. prefix \o tail \in Seq(T) /\ Rearranges(prefix \o tail, slots)
  <2>1. prefix \o tail \in Seq(T)
    BY <1>3, <1>4
  <2>2. Rearranges(prefix \o tail, prefix \o back)
    BY <1>3, <1>4, RearrangedBehind
  <2> QED
    BY <1>3, <2>1, <2>2
<1>6. inplace_merge(prefix, tail, less) \in Seq(T)
      /\ Rearranges(inplace_merge(prefix, tail, less), slots)
  <2>1. inplace_merge(prefix, tail, less) \in Seq(T)
        /\ Rearranges(inplace_merge(prefix, tail, less), prefix \o tail)
    BY <1>3, <1>4, MergeRearranges
  <2> QED
    BY <1>5, <2>1 DEF Rearranges
<1>7. Rearranges(slots, slots)
  BY DEF Rearranges
<1>8. r \in Seq(T) /\ Rearranges(r, slots)
  BY <1>1, <1>2, <1>5, <1>6, <1>7
<1>9. Lists(r, T)
  BY <1>8, ListsRearranged DEF slots
<1> QED
  BY <1>9 DEF r

\* A grouping not marked stale arranges all slots by their present buckets.
LEMMA CurrentGrouping ==
    ASSUME NEW s, NEW its, NEW vl, NEW k, k = bucket_total(s), Ready(s, its, vl), GroupedIn(s),
           s.has_order = TRUE, s.order_stale = FALSE
    PROVE  /\ Arranged(s.order, s.start, k, 1 .. Len(its), s.buckets)
           /\ s.start = prefix_sums(s.counts) /\ PrefixesIn(s)
           /\ s.moved = {} /\ s.ordered_slots = Len(its)
<1>1. s.moved = {} /\ s.ordered_slots = Len(its)
  BY DEF Ready, Consistent, FlagsIn
<1>2. (\E d : Placed(s, d)) /\ PrefixesIn(s) /\ s.start = prefix_sums(s.counts)
  BY DEF GroupedIn
<1>3. PICK d : Placed(s, d)
  BY <1>2
<1>4. k \in Nat
  BY ReadyTyped DEF Typed
<1> DEFINE U == 1 .. Len(its)
<1>5. Arranged(s.order, s.start, k, U, d) /\ \A x \in U : s.buckets[x] = d[x]
  BY <1>1, <1>3 DEF Placed
<1> HIDE DEF U
<1>6. Arranged(s.order, s.start, k, U, s.buckets)
  BY <1>4, <1>5, ArrangedAgain
<1> QED
  BY <1>1, <1>2, <1>6 DEF U

\* What sort_buckets joins.
bucket_parts(st, bs, its, vl) ==
    [b \in 1 .. Len(st.sorted_len) |->
        IF b \in bs THEN sorted_bucket(st, b, its, vl) ELSE grouped(st, b)]

\* What sort_buckets sets.
SortResult(t, s, bs, its, vl) ==
    /\ t.layouts = s.layouts /\ t.buckets = s.buckets /\ t.counts = s.counts
    /\ t.start = s.start /\ t.moved = s.moved /\ t.ordered_slots = s.ordered_slots
    /\ t.order = joined(bucket_parts(s, bs, its, vl))
    /\ t.sorted_len = [b \in DOMAIN s.sorted_len |->
                          IF b \in bs THEN s.start[b + 1] - s.start[b] ELSE s.sorted_len[b]]
    /\ DOMAIN t = KeyFields
    /\ t.has_order = s.has_order /\ t.order_stale = s.order_stale

\* sort_buckets does this.
LEMMA SortFields ==
    ASSUME NEW s, NEW bs, NEW its, NEW vl, DOMAIN s = KeyFields
    PROVE  SortResult(sort_buckets(s, bs, its, vl), s, bs, its, vl)
  BY DEF sort_buckets, KeyFields, bucket_parts, SortResult

\* Sorting buckets keeps the grouping complete.
LEMMA SortGroups ==
    ASSUME NEW s, NEW its, NEW vl, NEW bs, Ready(s, its, vl), GroupedIn(s),
           s.has_order = TRUE, s.order_stale = FALSE
    PROVE  GroupedIn(sort_buckets(s, bs, its, vl))
<1> DEFINE n == Len(its)
           k == bucket_total(s)
           t == sort_buckets(s, bs, its, vl)
           U == 1 .. n
           off == s.start
           d == s.buckets
           parts == bucket_parts(s, bs, its, vl)
<1>1. Typed(s, k, n)
  BY ReadyTyped
<1>2. /\ Arranged(s.order, off, k, U, d)
      /\ off = prefix_sums(s.counts) /\ PrefixesIn(s)
      /\ s.moved = {} /\ s.ordered_slots = n
  BY CurrentGrouping
<1>3. SortResult(t, s, bs, its, vl)
  BY <1>1, SortFields DEF Typed
<1> HIDE DEF t
<1>4. /\ t.layouts = s.layouts /\ t.buckets = d /\ t.counts = s.counts
      /\ t.start = off /\ t.moved = s.moved /\ t.ordered_slots = s.ordered_slots
      /\ t.order = joined(parts)
      /\ t.sorted_len = [b \in DOMAIN s.sorted_len |->
                            IF b \in bs THEN off[b + 1] - off[b] ELSE s.sorted_len[b]]
      /\ DOMAIN t = KeyFields
      /\ t.has_order = s.has_order /\ t.order_stale = s.order_stale
  BY <1>3 DEF SortResult
<1>5. /\ DOMAIN s.sorted_len = 1 .. k
      /\ \A b \in 1 .. k : s.sorted_len[b] \in 0 .. off[b + 1] - off[b]
  BY <1>2 DEF PrefixesIn
<1>6. bucket_total(t) = k
  BY <1>4, SameTotal
<1>7. /\ k \in Nat /\ n \in Nat /\ s.counts = tally(d, k) /\ DOMAIN d = U
      /\ \A x \in U : d[x] \in 1 .. k
  BY <1>1 DEF Typed
<1> DEFINE sl == s.sorted_len
<1>8. Len(sl) = k
  <2> HIDE DEF k, sl
  <2>1. DOMAIN sl = 1 .. k
    BY <1>5 DEF sl
  <2> QED
    BY <1>7, <2>1
<1>9. parts = [b \in 1 .. k |-> IF b \in bs THEN sorted_bucket(s, b, its, vl) ELSE grouped(s, b)]
  BY <1>8 DEF bucket_parts
<1> HIDE DEF parts, k, sl
<1>10. ASSUME NEW b \in 1 .. k
       PROVE  Lists(parts[b], Class(U, d, b))
  <2> DEFINE T == Class(U, d, b)
  <2>1. grouped(s, b) = segment(s.order, off, b)
    BY DEF grouped, segment
  <2>2. Lists(segment(s.order, off, b), T) /\ Len(segment(s.order, off, b)) = off[b + 1] - off[b]
    <3> DEFINE r == s.order
    <3>1. Arranged(r, off, k, U, d)
      BY <1>2
    <3> HIDE DEF r, off, U, d, T
    <3>2. Lists(segment(r, off, b), Class(U, d, b)) /\ Len(segment(r, off, b)) = off[b + 1] - off[b]
      BY <1>7, <3>1, SegmentLists
    <3> QED
      BY <3>2 DEF r, T
  <2> HIDE DEF T, off, d, U
  <2>3. Lists(grouped(s, b), T) /\ s.sorted_len[b] \in 0 .. Len(grouped(s, b))
    BY <1>5, <2>1, <2>2
  <2>4. Lists(sorted_bucket(s, b, its, vl), T)
    BY <2>3, SortedBucketLists
  <2> QED
    BY <1>9, <2>3, <2>4 DEF T
<1> HIDE DEF off, d, U
<1>11. Len(parts) = k /\ \A b \in 1 .. k : Len(parts[b]) \in Nat
  <2>1. Len(parts) = k
    BY <1>7, <1>9
  <2> QED
    BY <1>10, <2>1, ListsCount
<1>12. Arranged(joined(parts), prefix_sums(lengths(parts, k)), k, U, d)
  BY <1>7, <1>10, <1>11, JoinedArranged
<1>13. lengths(parts, k) = s.counts
  BY <1>7, <1>11, <1>12, SumsOfTally DEF U
<1>14. Arranged(t.order, t.start, k, U, t.buckets)
  BY <1>2, <1>4, <1>12, <1>13
<1>15. PrefixesIn(t)
  <2>1. ASSUME NEW b \in 1 .. k
        PROVE  t.sorted_len[b] \in 0 .. t.start[b + 1] - t.start[b]
    <3>1. Ladder(off, k)
      BY <1>2 DEF Arranged
    <3>2. off[b] \in Nat /\ off[b + 1] \in Nat /\ off[b] <= off[b + 1]
      BY <1>7, <3>1, LadderBounds
    <3>3. off[b + 1] - off[b] \in 0 .. off[b + 1] - off[b]
      BY <3>2
    <3>4. t.sorted_len[b] = IF b \in bs THEN off[b + 1] - off[b] ELSE s.sorted_len[b]
      BY <1>4, <1>5
    <3> QED
      BY <1>4, <1>5, <3>3, <3>4
  <2>2. DOMAIN t.sorted_len = 1 .. k
    BY <1>4, <1>5
  <2> QED
    BY <1>6, <2>1, <2>2 DEF PrefixesIn
<1>16. Typed(t, k, n)
  <2>1. /\ t.has_order \in BOOLEAN /\ t.order_stale \in BOOLEAN /\ t.ordered_slots \in 0 .. n
        /\ t.moved \subseteq 1 .. n
    BY <1>1, <1>4 DEF Typed
  <2> QED
    BY <1>4, <1>7, <2>1 DEF Typed, U
<1>17. GroupedIn(t)
  <2>1. t.ordered_slots = n /\ t.start = prefix_sums(t.counts)
    BY <1>2, <1>4
  <2> HIDE DEF n
  <2> QED
    BY <1>6, <1>14, <1>15, <1>16, <2>1, GroupedBy DEF U
<1> QED
  BY <1>17 DEF t
-----------------------------------------------------------------------------
(* The stages keep a grouping complete                                     *)

\* Whether a grouping is complete depends on these fields.
SameGrouping(s, t) ==
    /\ t.layouts = s.layouts /\ t.buckets = s.buckets /\ t.counts = s.counts
    /\ t.has_order = s.has_order /\ t.order_stale = s.order_stale
    /\ t.order = s.order /\ t.start = s.start /\ t.sorted_len = s.sorted_len
    /\ t.moved = s.moved /\ t.ordered_slots = s.ordered_slots

\* Nothing else does.
LEMMA GroupingOfFields ==
    ASSUME NEW s, NEW t, SameGrouping(s, t), GroupedIn(s)
    PROVE  GroupedIn(t)
<1>1. bucket_total(t) = bucket_total(s)
  BY SameTotal DEF SameGrouping
<1>2. \A d : Placed(s, d) => Placed(t, d)
  BY <1>1 DEF Placed, SameGrouping
<1>3. PrefixesIn(s) => PrefixesIn(t)
  BY <1>1 DEF PrefixesIn, SameGrouping
<1> QED
  BY <1>2, <1>3 DEF GroupedIn, SameGrouping

\* relayout forgets the grouping.
LEMMA LaidOutForgets ==
    ASSUME NEW t, NEW its, NEW vl, NEW pl, LaidOut(t, its, vl, pl)
    PROVE  GroupedIn(t)
<1>1. PICK u : DOMAIN u = KeyFields /\ t = relayout(u, its, vl, pl)
  BY DEF LaidOut
<1> DEFINE estimated == estimate_layouts(u.name, values(its, vl), u.keys, pl)
           placed == with_buckets(with_layouts(u, estimated, its, vl), its, vl)
<1>2. DOMAIN placed = KeyFields
  BY <1>1 DEF with_layouts, with_buckets, KeyFields
<1>3. t = with_counts(placed, Len(its))
  BY <1>1 DEF relayout
<1> HIDE DEF placed
<1>4. t.has_order = FALSE
  BY <1>2, <1>3 DEF with_counts, KeyFields
<1> QED
  BY <1>4 DEF GroupedIn

\* So do the stages in which the collection stays the same.
LEMMA TouchedKeepsGrouping ==
    ASSUME NEW s, NEW t, NEW its, NEW vl, NEW pl, IsPlan(pl), Ready(s, its, vl), GroupedIn(s),
           Touched(s, t, its, vl, pl)
    PROVE  Ready(t, its, vl) /\ GroupedIn(t)
<1>1. DOMAIN s = KeyFields /\ s.has_order \in BOOLEAN /\ s.order_stale \in BOOLEAN
  BY ReadyTyped DEF Typed
<1>2. Collection(its, vl) /\ Consistent(t, its, vl)
  BY DEF Ready, Touched
<1>3. CASE LaidOut(t, its, vl, pl)
  <2>1. its \in Seq(Handle)
    BY <1>2 DEF Collection
  <2> QED
    BY <1>2, <1>3, <2>1, LaidOutLayouts, LaidOutCounts, LaidOutForgets DEF Ready
<1>4. CASE ~ LaidOut(t, its, vl, pl)
  <2>1. t.layouts = s.layouts /\ t.buckets = s.buckets /\ t.counts = s.counts
    BY <1>1, <1>4, TouchedBooks
  <2>2. LayoutsIn(t) /\ CountsIn(t)
    BY <2>1, SameTotal DEF Ready, LayoutsIn, CountsIn
  <2>3. CASE t = s
    BY <2>3
  <2>4. CASE t = [s EXCEPT !.stale_checked_at = s.churn]
    <3>1. SameGrouping(s, t)
      BY <1>1, <2>4 DEF KeyFields, SameGrouping
    <3>2. GroupedIn(t)
      BY <3>1, GroupingOfFields
    <3> QED
      BY <1>2, <2>2, <3>2 DEF Ready
  <2>5. CASE t = build_order(s, Len(its))
    <3>1. GroupedIn(t)
      BY <2>5, BuildGroups
    <3> QED
      BY <1>2, <2>2, <3>1 DEF Ready
  <2>6. CASE s.has_order /\ t = regroup(s, Len(its))
    <3>1. GroupedIn(t)
      BY <1>1, <2>6, RegroupGroups
    <3> QED
      BY <1>2, <2>2, <3>1 DEF Ready
  <2>7. ASSUME NEW bs, s.has_order, ~ s.order_stale, t = sort_buckets(s, bs, its, vl)
        PROVE  Ready(t, its, vl) /\ GroupedIn(t)
    <3>1. s.has_order = TRUE /\ s.order_stale = FALSE
      BY <1>1, <2>7
    <3>2. GroupedIn(t)
      BY <2>7, <3>1, SortGroups
    <3> QED
      BY <1>2, <2>2, <3>2 DEF Ready
  <2> QED
    BY <1>4, <2>3, <2>4, <2>5, <2>6, <2>7 DEF Touched
<1> QED
  BY <1>3, <1>4

\* Slots in the same buckets are counted alike.
LEMMA SameTally ==
    ASSUME NEW s, NEW t, NEW n, DOMAIN s.buckets = 1 .. n, DOMAIN t.buckets = 1 .. n,
           \A x \in 1 .. n : t.buckets[x] = s.buckets[x],
           CountsIn(s), CountsIn(t), t.layouts = s.layouts
    PROVE  t.counts = s.counts
<1>1. \A k : tally(t.buckets, k) = tally(s.buckets, k)
  <2>1. \A b : {x \in 1 .. n : t.buckets[x] = b} = {x \in 1 .. n : s.buckets[x] = b}
    OBVIOUS
  <2> QED
    BY <2>1 DEF tally
<1> QED
  BY <1>1, SameTotal DEF CountsIn

\* append leaves the grouping of the older slots alone.
LEMMA AppendGroups ==
    ASSUME NEW s, NEW t, NEW its, NEW vl, NEW its2, NEW vl2, Ready(s, its, vl), GroupedIn(s),
           Ready(t, its2, vl2), Appended(s, t, its, vl, its2, vl2)
    PROVE  GroupedIn(t)
<1> DEFINE n == Len(its)
           m == Len(its2)
           k == bucket_total(s)
<1>1. Typed(s, k, n) /\ Typed(t, bucket_total(t), m)
  BY ReadyTyped
<1>2. n <= m /\ DOMAIN its2 = 1 .. m
  BY DEF Appended, Extends, Collection
<1>3. AppendResult(t, s, n, its2)
  <2>1. DOMAIN s = KeyFields
    BY <1>1 DEF Typed
  <2> QED
    BY <2>1, AppendFields DEF Appended
<1>4. /\ t.layouts = s.layouts
      /\ t.has_order = s.has_order /\ t.order = s.order /\ t.start = s.start
      /\ t.sorted_len = s.sorted_len /\ t.moved = s.moved /\ t.ordered_slots = s.ordered_slots
      /\ t.order_stale = IF s.has_order /\ m > n THEN TRUE ELSE s.order_stale
      /\ \A x \in DOMAIN its2 : x <= n => t.buckets[x] = s.buckets[x]
  BY <1>3 DEF AppendResult
<1> HIDE DEF n, m, k
<1>5. /\ n \in Nat /\ m \in Nat /\ DOMAIN s.buckets = 1 .. n /\ DOMAIN t.buckets = 1 .. m
      /\ s.has_order \in BOOLEAN /\ s.ordered_slots \in 0 .. n
  BY <1>1 DEF Typed
<1>6. \A x \in 1 .. n : t.buckets[x] = s.buckets[x]
  BY <1>2, <1>4, <1>5
<1>7. bucket_total(t) = k
  BY <1>4, SameTotal DEF k
<1>8. \A d : Placed(s, d) => Placed(t, d)
  <2>1. \A x \in 1 .. s.ordered_slots : x \in 1 .. n
    BY <1>5
  <2> QED
    BY <1>4, <1>6, <1>7, <2>1 DEF Placed, k
<1>9. PrefixesIn(s) => PrefixesIn(t)
  BY <1>4, <1>7 DEF PrefixesIn, k
<1>10. ASSUME t.has_order = TRUE, t.order_stale = FALSE
       PROVE  s.order_stale = FALSE /\ t.counts = s.counts
  <2>1. s.order_stale = FALSE /\ m = n
    BY <1>2, <1>4, <1>5, <1>10
  <2>2. CountsIn(s) /\ CountsIn(t)
    BY DEF Ready
  <2> QED
    BY <1>4, <1>5, <1>6, <2>1, <2>2, SameTally
<1> QED
  BY <1>4, <1>8, <1>9, <1>10 DEF GroupedIn

\* rekey notes the grouped slots it puts into another bucket.
LEMMA RekeyGroups ==
    ASSUME NEW s, NEW t, NEW its, NEW vl, NEW its2, NEW vl2, Ready(s, its, vl), GroupedIn(s),
           Ready(t, its2, vl2), Rekeyed(s, t, its, vl, its2, vl2)
    PROVE  GroupedIn(t)
<1> DEFINE n == Len(its)
           k == bucket_total(s)
<1>1. Typed(s, k, n) /\ Typed(t, bucket_total(t), n)
  BY ReadyTyped DEF Rekeyed
<1>2. PICK hit \in SUBSET DOMAIN its : t = rekey(s, hit, its, vl2)
  BY DEF Rekeyed
<1>3. DOMAIN its = 1 .. n
  BY DEF Rekeyed, Collection
<1>4. RekeyResult(t, s, hit, its)
  <2>1. DOMAIN s = KeyFields
    BY <1>1 DEF Typed
  <2> QED
    BY <1>2, <2>1, RekeyFields
<1> DEFINE placed == {x \in hit : s.has_order /\ x <= s.ordered_slots}
<1>5. /\ t.layouts = s.layouts
      /\ t.has_order = s.has_order /\ t.order = s.order /\ t.start = s.start
      /\ t.sorted_len = s.sorted_len /\ t.ordered_slots = s.ordered_slots
      /\ t.moved = s.moved \cup placed
      /\ t.order_stale = IF placed # {} THEN TRUE ELSE s.order_stale
      /\ \A x \in DOMAIN its : x \notin hit => t.buckets[x] = s.buckets[x]
  BY <1>4 DEF RekeyResult
<1> HIDE DEF n, k
<1>6. /\ n \in Nat /\ DOMAIN s.buckets = 1 .. n /\ DOMAIN t.buckets = 1 .. n
      /\ s.has_order \in BOOLEAN /\ s.ordered_slots \in 0 .. n /\ s.order_stale \in BOOLEAN
  BY <1>1 DEF Typed
<1>7. bucket_total(t) = k
  BY <1>5, SameTotal DEF k
<1>8. ASSUME s.has_order = TRUE, NEW x \in 1 .. s.ordered_slots
      PROVE  x \in t.moved \/ (x \notin s.moved /\ t.buckets[x] = s.buckets[x])
  <2>1. x \in DOMAIN its /\ x <= s.ordered_slots
    BY <1>3, <1>6
  <2>2. CASE x \in hit
    <3>1. x \in placed
      BY <1>8, <2>1, <2>2
    <3> QED
      BY <1>5, <3>1
  <2>3. CASE x \notin hit
    BY <1>5, <2>1, <2>3
  <2> QED
    BY <2>2, <2>3
<1> HIDE DEF placed
<1>9. ASSUME s.has_order = TRUE, NEW d, Placed(s, d)
      PROVE  Placed(t, d)
  <2>1. ASSUME NEW x \in 1 .. s.ordered_slots
        PROVE  d[x] \in 1 .. k /\ (x \in t.moved \/ d[x] = t.buckets[x])
    BY <1>8, <1>9 DEF Placed, k
  <2> QED
    BY <1>5, <1>7, <1>9, <2>1 DEF Placed, k
<1>10. PrefixesIn(s) => PrefixesIn(t)
  BY <1>5, <1>7 DEF PrefixesIn, k
<1>11. ASSUME t.has_order = TRUE, t.order_stale = FALSE
       PROVE  s.order_stale = FALSE /\ t.counts = s.counts
  <2>1. s.has_order = TRUE /\ s.order_stale = FALSE /\ placed = {}
    BY <1>5, <1>11
  <2>2. s.ordered_slots = n
    BY <2>1 DEF Ready, Consistent, FlagsIn, n
  <2>3. hit = {}
    <3>1. \A x \in hit : x <= s.ordered_slots
      BY <1>3, <1>6, <2>2
    <3> QED
      BY <2>1, <3>1 DEF placed
  <2>4. \A x \in 1 .. n : t.buckets[x] = s.buckets[x]
    BY <1>3, <1>5, <2>3
  <2>5. CountsIn(s) /\ CountsIn(t)
    BY DEF Ready
  <2> QED
    BY <1>5, <1>6, <2>1, <2>4, <2>5, SameTally
<1> QED
  BY <1>5, <1>9, <1>10, <1>11 DEF GroupedIn

\* r is q with every slot renumbered by the place it has among those kept.
Renumbered(r, q, kept) == r = [i \in 1 .. Len(q) |-> remap(kept, q[i])]

\* An arrangement of the slots kept, renumbered.
LEMMA RenumberedArranged ==
    ASSUME NEW k \in Nat, NEW n \in Nat, NEW m \in Nat, NEW kept \in [1 .. m -> 1 .. n],
           NEW d, NEW e, NEW q, NEW off, Arranged(q, off, k, ToSet(kept), d),
           \A i \in 1 .. m : e[i] = d[kept[i]],
           \A i, j \in 1 .. m : kept[i] = kept[j] => i = j,
           NEW r, Renumbered(r, q, kept)
    PROVE  Arranged(r, off, k, 1 .. m, e)
<1> DEFINE U == ToSet(kept)
           l == Len(q)
<1>1. U = {kept[i] : i \in 1 .. m}
  BY DEF ToSet
<1>2. /\ q \in Seq(U) /\ l \in Nat /\ \A p \in 1 .. l : q[p] \in U
      /\ \A i, j \in 1 .. l : q[i] = q[j] => i = j
      /\ \A x \in U : \E i \in 1 .. l : q[i] = x
  BY DEF Arranged, Lists
<1>3. ASSUME NEW x \in U
      PROVE  remap(kept, x) \in 1 .. m /\ kept[remap(kept, x)] = x
  <2>1. \E i \in DOMAIN kept : kept[i] = x
    BY <1>1
  <2> QED
    BY <2>1 DEF remap
<1> HIDE DEF U, l
<1>4. /\ r \in Seq(1 .. m) /\ Len(r) = l
      /\ \A p \in 1 .. l : r[p] \in 1 .. m /\ kept[r[p]] = q[p]
  <2>1. r = [p \in 1 .. l |-> remap(kept, q[p])]
    BY DEF Renumbered, l
  <2>2. \A p \in 1 .. l : remap(kept, q[p]) \in 1 .. m /\ kept[remap(kept, q[p])] = q[p]
    BY <1>2, <1>3
  <2>3. r \in [1 .. l -> 1 .. m]
    BY <2>1, <2>2
  <2>4. r \in Seq(1 .. m) /\ Len(r) = l
    BY <1>2, <2>3
  <2> QED
    BY <2>1, <2>2, <2>4
<1>5. \A i, j \in 1 .. l : r[i] = r[j] => i = j
  <2> SUFFICES ASSUME NEW i \in 1 .. l, NEW j \in 1 .. l, r[i] = r[j]
               PROVE  i = j
    OBVIOUS
  <2>1. q[i] = q[j]
    BY <1>4
  <2> QED
    BY <1>2, <2>1
<1>6. ASSUME NEW y \in 1 .. m
      PROVE  \E p \in 1 .. l : r[p] = y
  <2>1. kept[y] \in U
    BY <1>1
  <2>2. PICK p \in 1 .. l : q[p] = kept[y]
    BY <1>2, <2>1
  <2>3. r[p] \in 1 .. m /\ kept[r[p]] = kept[y]
    BY <1>4, <2>2
  <2>4. r[p] = y
    BY <2>3
  <2> QED
    BY <2>4
<1>7. Lists(r, 1 .. m)
  BY <1>4, <1>5, <1>6 DEF Lists
<1>8. Ladder(off, k) /\ off[k + 1] = l
  BY DEF Arranged, l
<1>9. ASSUME NEW b \in 1 .. k, NEW p \in off[b] + 1 .. off[b + 1]
      PROVE  e[r[p]] = b
  <2>1. /\ off[b] \in Nat /\ off[b + 1] \in Nat /\ off[k + 1] \in Nat
        /\ off[b + 1] <= off[k + 1]
    BY <1>8, LadderBounds
  <2>2. p \in 1 .. l
    BY <1>8, <2>1
  <2>3. d[q[p]] = b
    BY DEF Arranged
  <2>4. r[p] \in 1 .. m /\ kept[r[p]] = q[p]
    BY <1>4, <2>2
  <2> QED
    BY <2>3, <2>4
<1> QED
  BY <1>4, <1>7, <1>8, <1>9 DEF Arranged

\* What compact makes of the grouping of s by k buckets: the parts that stay of
\* each bucket, one behind the other, and then with the new slot numbers.
Survived(t, s, kept, k, n, m) ==
    LET parts == survivors_of(s, kept)
        all == joined(parts)
        staying == ToSet(kept)
    IN  /\ Arranged(all, t.start, k, staying, s.buckets)
        /\ Renumbered(t.order, all, kept)
        /\ Arranged(t.order, t.start, k, 1 .. m, t.buckets)
        /\ t.start = prefix_sums(lengths(parts, k))
        /\ t.sorted_len = surviving_prefix(s, staying)
        /\ Len(parts) = k /\ parts = [b \in 1 .. k |-> only(grouped(s, b), staying)]
        /\ staying \subseteq 1 .. n
        /\ \A b \in 1 .. k : /\ Lists(grouped(s, b), Class(1 .. n, s.buckets, b))
                             /\ Lists(parts[b], Class(staying, s.buckets, b))

\* compact filters the grouping and renumbers what is left.
LEMMA CompactParts ==
    ASSUME NEW s, NEW t, NEW its, NEW vl, NEW its2, NEW vl2, NEW l, NEW kept, NEW pl,
           Ready(s, its, vl), GroupedIn(s), s.has_order = TRUE, s.order_stale = FALSE,
           Reduction(its, vl, l, kept, its2, vl2), s.splitter_slots \subseteq ToSet(kept),
           t = compact(s, kept, its2, vl2, pl), Ready(t, its2, vl2)
    PROVE  Survived(t, s, kept, bucket_total(s), Len(its), Len(its2))
<1> DEFINE n == Len(its)
           m == Len(its2)
           k == bucket_total(s)
           U == 1 .. n
           off == s.start
           bs == s.buckets
<1>1. Typed(s, k, n)
  BY ReadyTyped
<1>2. Reduction(its, vl, l, kept, its2, vl2)
  OBVIOUS
<1>3. /\ n \in Nat /\ l \in 0 .. n /\ kept \in [1 .. l -> 1 .. n]
      /\ \A i, j \in 1 .. l : i < j => kept[i] < kept[j]
      /\ its2 = [i \in 1 .. l |-> its[kept[i]]]
  BY <1>2 DEF Reduction, Collection
<1>4. m = l /\ m \in Nat /\ DOMAIN kept = 1 .. m
  <2> HIDE DEF n
  <2>1. l \in Nat
    BY <1>3
  <2>2. Len(its2) = l
    BY <1>3, <2>1
  <2> QED
    BY <1>3, <2>1, <2>2
<1> HIDE DEF n, m
<1>5. CompactResult(t, s, kept, n, m)
  <2>1. DOMAIN s = KeyFields /\ DOMAIN s.buckets = 1 .. n
    BY <1>1 DEF Typed
  <2> QED
    BY <1>2, <1>3, <1>4, <2>1, CompactFields
<1> DEFINE parts == survivors_of(s, kept)
           all == joined(parts)
           staying == ToSet(kept)
<1>6. /\ t.layouts = s.layouts
      /\ t.has_order = s.has_order /\ t.order_stale = s.order_stale
      /\ t.buckets = [i \in 1 .. m |-> bs[kept[i]]]
      /\ t.order = [i \in DOMAIN all |-> remap(kept, all[i])]
      /\ t.start = prefix_sums([b \in DOMAIN parts |-> Len(parts[b])])
      /\ t.sorted_len = surviving_prefix(s, staying)
      /\ t.moved = {} /\ t.ordered_slots = m
  BY <1>5 DEF CompactResult
<1>8. /\ Arranged(s.order, off, k, U, bs) /\ PrefixesIn(s)
  BY CurrentGrouping DEF n
<1> HIDE DEF k
<1>10. /\ k \in Nat /\ \A x \in U : bs[x] \in 1 .. k
  BY <1>1 DEF Typed
<1>11. parts = [b \in 1 .. k |-> only(grouped(s, b), staying)]
  <2>1. Len(off) = k + 1
    BY <1>8 DEF Arranged, Ladder, Offsets
  <2>2. Len(off) - 1 = k
    BY <1>10, <2>1
  <2> QED
    BY <2>2 DEF survivors_of
<1> HIDE DEF parts
<1>12. DOMAIN parts = 1 .. k /\ Len(parts) = k
  BY <1>10, <1>11
<1>13. staying \subseteq U /\ \A x \in staying : bs[x] \in 1 .. k
  <2>1. staying = {kept[i] : i \in 1 .. m}
    BY <1>4 DEF ToSet
  <2>2. staying \subseteq U
    BY <1>3, <1>4, <2>1
  <2> QED
    BY <1>10, <2>2
<1>14. ASSUME NEW b \in 1 .. k
       PROVE  Lists(parts[b], Class(staying, bs, b)) /\ Lists(grouped(s, b), Class(U, bs, b))
  <2> DEFINE T == Class(U, bs, b)
             q == grouped(s, b)
  <2>1. q = segment(s.order, off, b)
    BY DEF grouped, segment
  <2>2. Lists(q, T)
    <3> DEFINE r == s.order
    <3>1. Arranged(r, off, k, U, bs) /\ q = segment(r, off, b)
      BY <1>8, <2>1
    <3> HIDE DEF r, off, U, bs, T, q
    <3>2. Lists(segment(r, off, b), Class(U, bs, b))
      BY <1>10, <3>1, SegmentLists
    <3> QED
      BY <3>1, <3>2 DEF T
  <2>3. T \cap staying = Class(staying, bs, b)
    BY <1>13 DEF Class
  <2> HIDE DEF T, q, staying
  <2>4. Lists(only(q, staying), T \cap staying)
    BY <2>2, ListsOnly
  <2>5. parts[b] = only(q, staying)
    BY <1>11 DEF q
  <2> QED
    BY <2>2, <2>3, <2>4, <2>5 DEF T, q
<1> HIDE DEF off, bs, U, staying, all
<1>15. Arranged(all, prefix_sums(lengths(parts, k)), k, staying, bs)
  BY <1>10, <1>12, <1>13, <1>14, JoinedArranged DEF all
<1>16. t.start = prefix_sums(lengths(parts, k))
  BY <1>6, <1>12 DEF lengths
<1>17. Arranged(t.order, t.start, k, 1 .. m, t.buckets) /\ Renumbered(t.order, all, kept)
  <2> DEFINE r == t.order
             e == t.buckets
             z == t.start
  <2>1. Renumbered(r, all, kept)
    <3>1. DOMAIN all = 1 .. Len(all)
      BY <1>15 DEF Arranged, Lists
    <3> QED
      BY <1>6, <3>1 DEF Renumbered
  <2>2. \A i \in 1 .. m : e[i] = bs[kept[i]]
    BY <1>6
  <2>3. \A i, j \in 1 .. m : kept[i] = kept[j] => i = j
    BY <1>3, <1>4, AscendingDistinct
  <2>4. Arranged(all, z, k, ToSet(kept), bs)
    BY <1>15, <1>16 DEF staying
  <2>5. kept \in [1 .. m -> 1 .. n]
    BY <1>3, <1>4
  <2> HIDE DEF r, e, z
  <2>6. Arranged(r, z, k, 1 .. m, e)
    <3>1. k \in Nat /\ n \in Nat /\ m \in Nat
      BY <1>3, <1>4, <1>10
    <3> QED
      BY <2>1, <2>2, <2>3, <2>4, <2>5, <3>1, RenumberedArranged
  <2> QED
    BY <2>1, <2>6 DEF r, e, z
<1>18. Arranged(all, t.start, k, staying, bs)
  BY <1>15, <1>16
<1>19. t.sorted_len = surviving_prefix(s, staying)
  BY <1>6
<1> QED
  BY <1>11, <1>12, <1>13, <1>14, <1>16, <1>17, <1>18, <1>19 DEF Survived, parts, all, staying, off, bs, U, k, n, m

\* So the grouping stays complete.
LEMMA CompactGroups ==
    ASSUME NEW s, NEW t, NEW its, NEW vl, NEW its2, NEW vl2, Ready(s, its, vl), GroupedIn(s),
           Ready(t, its2, vl2), Compacted(s, t, its, vl, its2, vl2)
    PROVE  GroupedIn(t)
<1> DEFINE n == Len(its)
           m == Len(its2)
           k == bucket_total(s)
           U == 1 .. n
           bs == s.buckets
<1>1. Typed(s, k, n) /\ Typed(t, bucket_total(t), m)
  BY ReadyTyped
<1>2. PICK l, kept, pl :
          /\ Reduction(its, vl, l, kept, its2, vl2)
          /\ ~ (s.has_order /\ s.order_stale)
          /\ s.splitter_slots \subseteq ToSet(kept)
          /\ t = compact(s, kept, its2, vl2, pl)
  BY DEF Compacted
<1>3. /\ n \in Nat /\ l \in 0 .. n /\ kept \in [1 .. l -> 1 .. n]
      /\ its2 = [i \in 1 .. l |-> its[kept[i]]]
  BY <1>2 DEF Reduction, Collection
<1>4. m = l /\ m \in Nat /\ DOMAIN kept = 1 .. m
  <2> HIDE DEF n
  <2>1. l \in Nat
    BY <1>3
  <2>2. Len(its2) = l
    BY <1>3, <2>1
  <2> QED
    BY <1>3, <2>1, <2>2
<1> HIDE DEF n, m
<1>5. /\ t.layouts = s.layouts /\ t.has_order = s.has_order
      /\ s.has_order = TRUE => t.moved = {} /\ t.ordered_slots = m
  <2>1. DOMAIN s = KeyFields /\ DOMAIN s.buckets = 1 .. n
    BY <1>1 DEF Typed
  <2>2. CompactResult(t, s, kept, n, m)
    BY <1>2, <1>3, <1>4, <2>1, CompactFields
  <2> QED
    BY <2>2 DEF CompactResult
<1> SUFFICES ASSUME s.has_order = TRUE
             PROVE  GroupedIn(t)
  BY <1>5 DEF GroupedIn
<1> DEFINE parts == survivors_of(s, kept)
           all == joined(parts)
           staying == ToSet(kept)
<1>7. s.order_stale = FALSE
  BY <1>1, <1>2 DEF Typed
<1>8. PrefixesIn(s)
  BY DEF GroupedIn
<1>9. bucket_total(t) = k
  BY <1>5, SameTotal
<1>10. k \in Nat
  BY <1>1 DEF Typed
<1>11. Survived(t, s, kept, k, n, m)
  BY <1>2, <1>7, CompactParts DEF n, m
<1>12. /\ Arranged(all, t.start, k, staying, bs) /\ Arranged(t.order, t.start, k, 1 .. m, t.buckets)
       /\ t.start = prefix_sums(lengths(parts, k)) /\ t.sorted_len = surviving_prefix(s, staying)
       /\ Len(parts) = k /\ staying \subseteq U
       /\ \A b \in 1 .. k : Lists(parts[b], Class(staying, bs, b))
  BY <1>11 DEF Survived
<1> HIDE DEF k, parts, all, staying
<1>18. /\ t.counts = tally(t.buckets, k) /\ DOMAIN t.buckets = 1 .. m /\ Typed(t, k, m)
  BY <1>1, <1>9 DEF Typed
<1>19. t.start = prefix_sums(t.counts)
  <2>1. \A b \in 1 .. k : Len(parts[b]) \in Nat
    BY <1>12, ListsCount
  <2>2. Arranged(t.order, prefix_sums(lengths(parts, k)), k, 1 .. m, t.buckets)
    BY <1>12
  <2>3. lengths(parts, k) = tally(t.buckets, k)
    BY <1>10, <1>12, <1>18, <2>1, <2>2, SumsOfTally
  <2> QED
    BY <1>12, <1>18, <2>3
<1>20. PrefixesIn(t)
  <2>1. ASSUME NEW b \in 1 .. k
        PROVE  t.sorted_len[b] \in 0 .. t.start[b + 1] - t.start[b]
    <3> DEFINE off == s.start
               z == t.start
    <3>1. Arranged(s.order, off, k, U, bs)
      BY <1>7, CurrentGrouping DEF k, n
    <3>2. t.sorted_len[b] \in 0 .. Cardinality(Class(U, bs, b) \cap staying)
      BY <1>8, <1>10, <1>12, <3>1, PrefixSurvives DEF k
    <3>3. Class(U, bs, b) \cap staying = Class(staying, bs, b)
      BY <1>12 DEF Class
    <3>4. Arranged(all, z, k, staying, bs)
      BY <1>12
    <3> HIDE DEF z, bs, U
    <3>5. Cardinality(Class(staying, bs, b)) = z[b + 1] - z[b]
      BY <1>10, <3>4, SegmentLists
    <3> QED
      BY <3>2, <3>3, <3>5 DEF z
  <2>2. DOMAIN t.sorted_len = 1 .. k
    BY <1>8, <1>12 DEF surviving_prefix, PrefixesIn, k
  <2> QED
    BY <1>9, <2>1, <2>2 DEF PrefixesIn
<1> QED
  BY <1>5, <1>9, <1>12, <1>18, <1>19, <1>20, GroupedBy

\* The change of the collection keeps the grouping complete.
LEMMA ChangedKeepsGrouping ==
    ASSUME NEW s, NEW t, NEW its, NEW vl, NEW its2, NEW vl2, Ready(s, its, vl), GroupedIn(s),
           Changed(s, t, its, vl, its2, vl2)
    PROVE  Ready(t, its2, vl2) /\ GroupedIn(t)
<1>1. Consistent(s, its, vl) /\ CountsIn(s) /\ LayoutsIn(s) /\ Collection(its, vl)
  BY DEF Ready
<1>2. Consistent(t, its2, vl2)
  BY DEF Changed
<1>3. CountsIn(t)
  BY <1>1, ChangedCounts
<1>4. KeyStateOK(s, Len(its))
  BY <1>1 DEF Consistent
<1>5. DOMAIN s = KeyFields /\ DOMAIN s.buckets = 1 .. Len(its)
  BY <1>4 DEF KeyStateOK
<1>6. CASE t = s /\ its2 = its /\ vl2 = vl
  BY <1>6
<1>7. CASE Appended(s, t, its, vl, its2, vl2)
  <2>1. AppendResult(t, s, Len(its), its2)
    BY <1>5, <1>7, AppendFields DEF Appended
  <2>2. t.layouts = s.layouts
    BY <2>1 DEF AppendResult
  <2>3. Ready(t, its2, vl2)
    BY <1>1, <1>2, <1>3, <1>7, <2>2 DEF Ready, LayoutsIn, Appended, Extends
  <2> QED
    BY <1>7, <2>3, AppendGroups
<1>8. CASE Rekeyed(s, t, its, vl, its2, vl2)
  <2>1. PICK hit \in SUBSET DOMAIN its : t = rekey(s, hit, its, vl2)
    BY <1>8 DEF Rekeyed
  <2>2. RekeyResult(t, s, hit, its)
    BY <1>5, <2>1, RekeyFields
  <2>3. t.layouts = s.layouts
    BY <2>2 DEF RekeyResult
  <2>4. Ready(t, its2, vl2)
    BY <1>1, <1>2, <1>3, <1>8, <2>3 DEF Ready, LayoutsIn, Rekeyed
  <2> QED
    BY <1>8, <2>4, RekeyGroups
<1>9. CASE Compacted(s, t, its, vl, its2, vl2)
  <2>1. PICK l, kept, pl :
            /\ Reduction(its, vl, l, kept, its2, vl2)
            /\ s.splitter_slots \subseteq ToSet(kept)
            /\ t = compact(s, kept, its2, vl2, pl)
    BY <1>9 DEF Compacted
  <2> DEFINE n == Len(its)
  <2>2. n \in Nat /\ l \in Nat /\ DOMAIN kept = 1 .. l /\ Collection(its2, vl2)
    BY <2>1 DEF Reduction, Collection
  <2>3. DOMAIN s.buckets = 1 .. n
    BY <1>5
  <2> HIDE DEF n
  <2>4. CompactResult(t, s, kept, n, l)
    BY <1>5, <2>1, <2>2, <2>3, CompactFields
  <2>5. t.layouts = s.layouts
    BY <2>4 DEF CompactResult
  <2>6. Ready(t, its2, vl2)
    BY <1>1, <1>2, <1>3, <2>2, <2>5 DEF Ready, LayoutsIn
  <2> QED
    BY <1>9, <2>6, CompactGroups
<1> QED
  BY <1>6, <1>7, <1>8, <1>9 DEF Changed
-----------------------------------------------------------------------------
(* The invariant                                                           *)

\* Every KeyState has its layouts and its grouping in order.
Groupings == \A i \in DOMAIN states : LayoutsIn(states[i]) /\ GroupedIn(states[i])

\* Every call keeps the groupings complete.
LEMMA GroupingsStep ==
    ASSUME IInv, IInv', Books, Books', Groupings, [Next]_vars
    PROVE  Groupings'
<1> SUFFICES ASSUME NEW j \in DOMAIN states'
             PROVE  LayoutsIn(states'[j]) /\ GroupedIn(states'[j])
  BY DEF Groupings
<1>1. IsPlan(plan) /\ IsPlan(plan')
  BY BucketIndexAssumption DEF IInv
<1>2. CASE LaidOut(states'[j], items', val', plan')
  <2>1. items' \in Seq(Handle)
    BY DEF IInv, Collection
  <2> QED
    BY <1>1, <1>2, <2>1, LaidOutLayouts, LaidOutForgets
<1>3. ASSUME NEW i \in DOMAIN states, Develops(states[i], states'[j]),
             ~ LaidOut(states'[j], items', val', plan')
      PROVE  LayoutsIn(states'[j]) /\ GroupedIn(states'[j])
  <2>1. PICK s1, s2, s3, s4 :
            Chain(states[i], s1, s2, s3, s4, states'[j], items, val, items', val', plan)
    BY <1>3 DEF Develops
  <2>2. Ready(states[i], items, val) /\ GroupedIn(states[i])
    BY DEF IInv, Books, BooksIn, Groupings, Ready
  <2>3. Ready(s1, items, val) /\ GroupedIn(s1)
    BY <1>1, <2>1, <2>2, TouchedKeepsGrouping DEF Chain
  <2>4. Ready(s2, items, val) /\ GroupedIn(s2)
    BY <1>1, <2>1, <2>3, TouchedKeepsGrouping DEF Chain
  <2>5. Ready(s3, items, val) /\ GroupedIn(s3)
    BY <1>1, <2>1, <2>4, TouchedKeepsGrouping DEF Chain
  <2>6. Ready(s4, items', val') /\ GroupedIn(s4)
    BY <2>1, <2>5, ChangedKeepsGrouping DEF Chain
  <2>7. Ready(states'[j], items', val') /\ GroupedIn(states'[j])
    BY <1>1, <2>1, <2>6, TouchedKeepsGrouping DEF Chain
  <2> QED
    BY <2>7 DEF Ready
<1> QED
  BY <1>2, <1>3, StateSteps DEF StateFrom

\* The groupings are complete in every reachable state.
LEMMA GroupingsInvariance == Spec => [](IInv /\ Books /\ Groupings)
<1>1. Init => Groupings
  BY DEF Init, Groupings
<1>2. IInv /\ IInv' /\ Books /\ Books' /\ Groupings /\ [Next]_vars => Groupings'
  BY GroupingsStep
<1> QED
  BY BooksInvariance, <1>1, <1>2, PTL DEF Spec

\* A grouping lists every slot it covers once, each in the segment of its bucket
\* unless it waits to be re-placed: whatever build_order, regroup, sort_bucket,
\* rekey and compact make of order and start, in whichever order they are called.
THEOREM GroupingStaysComplete == Spec => []GroupingComplete
<1>1. ASSUME IInv, Groupings, Books, NoSlotForgotten
      PROVE  GroupingComplete
  <2> SUFFICES ASSUME NEW i \in DOMAIN states, states[i].has_order
               PROVE  LET st == states[i] IN
                      /\ Len(st.order) = st.ordered_slots
                      /\ ToSet(st.order) = 1 .. st.ordered_slots
                      /\ \A b \in 1 .. Len(st.start) - 1 : \A x \in ToSet(grouped(st, b)) :
                            x \in st.moved \/ st.buckets[x] = b
                      /\ ~ st.order_stale => st.start = prefix_sums(st.counts)
    BY <1>1 DEF GroupingComplete
  <2>1. Ready(states[i], items, val) /\ GroupedIn(states[i])
    BY <1>1 DEF IInv, Books, BooksIn, Groupings, Ready
  <2> DEFINE st == states[i]
             k == bucket_total(st)
             o == st.ordered_slots
             U == 1 .. o
  <2>2. Ready(st, items, val) /\ GroupedIn(st)
    BY <2>1
  <2> HIDE DEF st
  <2>3. Typed(st, k, Len(items))
    BY <2>2, ReadyTyped
  <2>4. st.has_order = TRUE /\ st.order_stale \in BOOLEAN /\ k \in Nat /\ o \in Nat
    BY <2>3 DEF Typed, st
  <2>5. PICK d : Placed(st, d)
    BY <2>2, <2>4 DEF GroupedIn
  <2> HIDE DEF k, o
  <2>6. /\ Arranged(st.order, st.start, k, U, d)
        /\ \A x \in U : x \in st.moved \/ d[x] = st.buckets[x]
    BY <2>5 DEF Placed, k, o
  <2>7. Lists(st.order, U)
    BY <2>6 DEF Arranged
  <2>8. ToSet(st.order) = U
    <3>1. st.order \in Seq(U)
      BY <2>7 DEF Lists
    <3> QED
      BY <2>7, <3>1, ListsByElements
  <2>9. Len(st.order) = o
    <3>1. Cardinality(U) = Len(st.order)
      BY <2>7, ListsCount
    <3> QED
      BY <2>4, <3>1, CountUpTo
  <2>10. Len(st.start) - 1 = k
    <3>1. Len(st.start) = k + 1
      BY <2>6 DEF Arranged, Ladder, Offsets
    <3> QED
      BY <2>4, <3>1
  <2>11. ASSUME NEW b \in 1 .. k, NEW x \in ToSet(grouped(st, b))
         PROVE  x \in st.moved \/ st.buckets[x] = b
    <3> DEFINE r == st.order
               off == st.start
    <3>1. grouped(st, b) = segment(r, off, b) /\ Arranged(r, off, k, U, d)
      BY <2>6 DEF grouped, segment
    <3> HIDE DEF r, off, U
    <3>2. Lists(segment(r, off, b), Class(U, d, b))
      BY <2>4, <3>1, SegmentLists
    <3>3. ToSet(grouped(st, b)) = Class(U, d, b)
      <4>1. segment(r, off, b) \in Seq(Class(U, d, b))
        BY <3>2 DEF Lists
      <4> QED
        BY <3>1, <3>2, <4>1, ListsByElements
    <3>4. x \in U /\ d[x] = b
      BY <3>3 DEF Class
    <3> QED
      BY <2>6, <3>4
  <2>12. ~ st.order_stale => st.start = prefix_sums(st.counts)
    BY <2>2, <2>4 DEF GroupedIn
  <2> QED
    BY <2>8, <2>9, <2>10, <2>11, <2>12 DEF st, o
<1> QED
  BY GroupingsInvariance, NoSlotStaysForgotten, <1>1, PTL
-----------------------------------------------------------------------------
(* Bucket ids follow the exact order                                       *)

\* The split points of every group divide its values in the exact order.
LaddersIn(st, vl) ==
    st.name \in Ordering =>
        \A g \in DOMAIN st.layouts : SplitsOrdered(st.name, g, resolve(st.layouts[g], vl))

\* The values of a collection, with current keys, are what estimate expects.
LEMMA CollectionKeyed ==
    ASSUME NEW its, NEW vl, Collection(its, vl), NEW st, KeysIn(st, its, vl)
    PROVE  Keyed(st.name, values(its, vl), st.keys) /\ Len(values(its, vl)) = Len(its)
<1> DEFINE vals == values(its, vl)
           n == Len(its)
<1>1. n \in Nat /\ DOMAIN its = 1 .. n
  BY DEF Collection
<1>2. \A x \in 1 .. n : vl[its[x]] \in Value
  BY <1>1 DEF Collection, ToSet
<1>3. vals = [x \in 1 .. n |-> vl[its[x]]]
  BY <1>1 DEF values
<1> HIDE DEF vals, n
<1>4. vals \in Seq(Value) /\ Len(vals) = n
  BY <1>1, <1>2, <1>3
<1>5. \A x \in 1 .. n : st.keys[x] = key(st.name, vals[x])
  BY <1>1, <1>3 DEF KeysIn
<1> QED
  BY <1>4, <1>5 DEF Keyed, vals, n

\* What relayout makes of the estimated layouts resolves to them.
LEMMA LaidOutResolves ==
    ASSUME NEW its, NEW vl, Collection(its, vl), NEW u, DOMAIN u = KeyFields, NEW pl,
           NEW g \in 1 .. GroupCount[u.name],
           LayoutShape(estimate(u.name, values(its, vl), u.keys, per_group(u.name, pl), g))
    PROVE  Resolves(resolve(relayout(u, its, vl, pl).layouts[g], vl),
                    estimate(u.name, values(its, vl), u.keys, per_group(u.name, pl), g).splits,
                    values(its, vl))
<1> DEFINE vals == values(its, vl)
           estimated == estimate_layouts(u.name, vals, u.keys, pl)
           made == estimate(u.name, vals, u.keys, per_group(u.name, pl), g)
           splits == made.splits
           t == relayout(u, its, vl, pl)
           points == resolve(t.layouts[g], vl)
<1>1. t.layouts = [h \in DOMAIN estimated |->
          [splits |-> [i \in DOMAIN estimated[h].splits |->
              [key  |-> estimated[h].splits[i].key,
               elem |-> split_element(estimated[h].splits[i].pos, its, vl)]],
           expected |-> estimated[h].expected]]
  BY DEF relayout, with_layouts, with_buckets, with_counts, KeyFields
<1>2. g \in DOMAIN estimated /\ estimated[g] = made
  BY DEF estimate_layouts
<1>3. LayoutShape(made)
  OBVIOUS
<1>9. IsSequence(splits)
  BY <1>3 DEF LayoutShape
<1> HIDE DEF estimated, made, t
<1>4. t.layouts[g].splits = [i \in DOMAIN splits |->
          [key |-> splits[i].key, elem |-> split_element(splits[i].pos, its, vl)]]
  BY <1>1, <1>2
<1> HIDE DEF splits
<1>5. /\ DOMAIN points = DOMAIN splits
      /\ \A i \in DOMAIN splits : LET e == split_element(splits[i].pos, its, vl) IN
            /\ points[i].key = splits[i].key
            /\ points[i].elem = IF Aliasing /\ e # NoValue THEN vl[e] ELSE e
  BY <1>4 DEF resolve
<1> HIDE DEF points
<1>6. Len(vals) = Len(its) /\ DOMAIN its = 1 .. Len(its) /\ Len(its) \in Nat
  BY DEF Collection, values
<1>7. ASSUME NEW i \in DOMAIN splits
      PROVE  /\ splits[i].pos = no_element => points[i].elem = NoValue
             /\ splits[i].pos \in 1 .. Len(vals) => points[i].elem = vals[splits[i].pos]
  <2> DEFINE p == splits[i].pos
             e == split_element(p, its, vl)
  <2>1. points[i].elem = IF Aliasing /\ e # NoValue THEN vl[e] ELSE e
    BY <1>5
  <2> HIDE DEF p
  <2>2. ASSUME p = no_element
        PROVE  points[i].elem = NoValue
    <3>1. p \notin DOMAIN its
      BY <1>6, <2>2 DEF no_element
    <3> QED
      BY <2>1, <3>1 DEF split_element
  <2>3. ASSUME p \in 1 .. Len(vals)
        PROVE  points[i].elem = vals[p]
    <3>1. p \in DOMAIN its /\ its[p] # NoValue
      BY <1>6, <2>3, BucketIndexAssumption DEF Collection
    <3>2. vals[p] = vl[its[p]]
      BY <3>1 DEF values
    <3>3. e = IF Aliasing THEN its[p] ELSE vl[its[p]]
      BY <3>1 DEF split_element
    <3> QED
      BY <2>1, <3>1, <3>2, <3>3
  <2> QED
    BY <2>2, <2>3 DEF p
<1> HIDE DEF vals
<1>8. IsSequence(points) /\ Len(points) = Len(splits)
  BY <1>5, <1>9 DEF IsSequence
<1>10. Resolves(points, splits, vals)
  <2>1. DOMAIN splits = 1 .. Len(points)
    BY <1>8, <1>9 DEF IsSequence
  <2> QED
    BY <1>5, <1>7, <1>8, <2>1 DEF Resolves
<1> QED
  BY <1>10 DEF points, splits, vals, t, made

\* relayout makes such split points.
LEMMA LaidOutInOrder ==
    ASSUME NEW t, NEW its, NEW vl, NEW pl \in Plan, Collection(its, vl), Len(its) <= MaxItems,
           LaidOut(t, its, vl, pl)
    PROVE  LaddersIn(t, vl)
<1>1. PICK u : DOMAIN u = KeyFields /\ u.name \in Name /\ t = relayout(u, its, vl, pl)
  BY DEF LaidOut
<1> DEFINE k == u.name
           vals == values(its, vl)
<1>2. t.name = k /\ t.keys = u.keys /\ DOMAIN t.layouts = 1 .. GroupCount[k]
  <2> DEFINE r == relayout(u, its, vl, pl)
  <2>1. /\ DOMAIN r = KeyFields
        /\ r.name = u.name /\ r.keys = u.keys
        /\ DOMAIN r.buckets = DOMAIN its
        /\ DOMAIN r.layouts = 1 .. GroupCount[r.name]
        /\ r.churn = 0 /\ r.stale_checked_at = npos
        /\ r.splitter_changed = FALSE /\ r.has_order = FALSE /\ r.order_stale = FALSE
        /\ r.moved = {} /\ r.ordered_slots = 0
        /\ r.splitter_slots \subseteq DOMAIN its
    BY <1>1, RelayoutShape
  <2> HIDE DEF r
  <2> QED
    BY <1>1, <2>1 DEF r
<1>3. KeysIn(t, its, vl)
  BY DEF LaidOut, Consistent
<1>4. Keyed(k, vals, u.keys) /\ Len(vals) = Len(its)
  BY <1>2, <1>3, CollectionKeyed
<1>5. vals \in Seq(Value) /\ Len(vals) <= MaxItems
  BY <1>4 DEF Keyed
<1>6. IsPlan(per_group(k, pl))
  BY <1>1, BucketIndexAssumption, GroupPlan
<1> SUFFICES ASSUME k \in Ordering, NEW g \in 1 .. GroupCount[k]
             PROVE  SplitsOrdered(k, g, resolve(t.layouts[g], vl))
  BY <1>2 DEF LaddersIn
<1> DEFINE points == resolve(t.layouts[g], vl)
           made == estimate(k, vals, u.keys, per_group(k, pl), g)
<1> HIDE DEF vals
<1>7. LayoutShape(made)
  <2>1. Len(vals) \in Nat
    BY <1>5
  <2> QED
    BY <1>6, <2>1, EstimateShape
<1>8. Resolves(points, made.splits, vals)
  BY <1>1, <1>7, LaidOutResolves DEF vals
<1>9. Draws(per_group(k, pl), Len(members(k, vals, g)))
  <2>1. IsPlan(pl) /\ Draws(pl, MaxItems) /\ MaxItems \in Nat
    BY BucketIndexAssumption
  <2> QED
    BY <1>5, <2>1, GroupDraws
<1> HIDE DEF points, k
<1>10. SplitsOrdered(k, g, points)
  BY <1>4, <1>6, <1>8, <1>9, EstimateOrdered
<1> QED
  BY <1>10 DEF points

\* Whether split points divide a group in order depends on what they resolve to.
LEMMA SameLadders ==
    ASSUME NEW s, NEW t, NEW vl, NEW wl, LaddersIn(s, vl), t.name = s.name, t.layouts = s.layouts,
           \A g \in DOMAIN s.layouts : resolve(s.layouts[g], vl) = resolve(s.layouts[g], wl)
    PROVE  LaddersIn(t, wl)
  BY DEF LaddersIn

\* Split points resolve alike while the elements in splitter_slots keep their values.
LEMMA ResolvedAlike ==
    ASSUME NEW st, NEW its, NEW vl, NEW wl, SplittersIn(st, its),
           \A x \in st.splitter_slots : vl[its[x]] = wl[its[x]]
    PROVE  \A g \in DOMAIN st.layouts : resolve(st.layouts[g], vl) = resolve(st.layouts[g], wl)
  BY DEF resolve, SplittersIn

\* While the collection stays the same, the split points stay in order.
LEMMA TouchedKeepsLadders ==
    ASSUME NEW s, NEW t, NEW its, NEW vl, NEW pl \in Plan, Collection(its, vl),
           Len(its) <= MaxItems, Consistent(s, its, vl), LaddersIn(s, vl),
           Touched(s, t, its, vl, pl)
    PROVE  Consistent(t, its, vl) /\ LaddersIn(t, vl)
<1>1. DOMAIN s = KeyFields
  BY DEF Consistent, KeyStateOK
<1>2. Consistent(t, its, vl)
  BY DEF Touched
<1>3. CASE LaidOut(t, its, vl, pl)
  BY <1>2, <1>3, LaidOutInOrder
<1>4. CASE ~ LaidOut(t, its, vl, pl)
  <2>1. t.layouts = s.layouts
    BY <1>1, <1>4, TouchedBooks
  <2>2. CASE t = s
    BY <1>2, <2>2
  <2>3. CASE t = [s EXCEPT !.stale_checked_at = s.churn]
    <3>1. t.name = s.name
      BY <1>1, <2>3 DEF KeyFields
    <3> QED
      BY <1>2, <2>1, <3>1, SameLadders
  <2>4. CASE t = build_order(s, Len(its))
    <3>1. t.name = s.name
      BY <1>1, <2>4 DEF KeyFields, build_order
    <3> QED
      BY <1>2, <2>1, <3>1, SameLadders
  <2>5. CASE t = regroup(s, Len(its))
    <3>1. t.name = s.name
      BY <1>1, <2>5 DEF KeyFields, regroup
    <3> QED
      BY <1>2, <2>1, <3>1, SameLadders
  <2>6. ASSUME NEW bs, t = sort_buckets(s, bs, its, vl)
        PROVE  Consistent(t, its, vl) /\ LaddersIn(t, vl)
    <3>1. t.name = s.name
      BY <1>1, <2>6 DEF KeyFields, sort_buckets
    <3> QED
      BY <1>2, <2>1, <3>1, SameLadders
  <2> QED
    BY <1>4, <2>2, <2>3, <2>4, <2>5, <2>6 DEF Touched
<1> QED
  BY <1>3, <1>4

\* A change of the collection keeps them in order: no element a layout splits on
\* is changed or removed without a new layout.
LEMMA ChangedKeepsLadders ==
    ASSUME NEW s, NEW t, NEW its, NEW vl, NEW its2, NEW vl2, Consistent(s, its, vl),
           LaddersIn(s, vl), Changed(s, t, its, vl, its2, vl2)
    PROVE  Consistent(t, its2, vl2) /\ LaddersIn(t, vl2)
<1>1. DOMAIN s = KeyFields /\ s.splitter_slots \subseteq 1 .. Len(its) /\ SplittersIn(s, its)
      /\ DOMAIN s.buckets = 1 .. Len(its)
  BY DEF Consistent, KeyStateOK
<1>2. Consistent(t, its2, vl2)
  BY DEF Changed
<1>3. CASE t = s /\ its2 = its /\ vl2 = vl
  BY <1>2, <1>3
<1>4. CASE Appended(s, t, its, vl, its2, vl2)
  <2>1. t.name = s.name /\ t.layouts = s.layouts
    BY <1>1, <1>4 DEF Appended, append, KeyFields
  <2>2. \A x \in s.splitter_slots : vl[its[x]] = vl2[its[x]]
    BY <1>1, <1>4 DEF Appended, Extends, Collection
  <2> QED
    BY <1>1, <1>2, <2>1, <2>2, ResolvedAlike, SameLadders
<1>5. CASE Rekeyed(s, t, its, vl, its2, vl2)
  <2>1. PICK hit \in SUBSET DOMAIN its :
            /\ hit \cap s.splitter_slots = {}
            /\ \A x \in DOMAIN its : x \notin hit => vl2[its[x]] = vl[its[x]]
            /\ t = rekey(s, hit, its, vl2)
    BY <1>5 DEF Rekeyed
  <2>2. t.name = s.name /\ t.layouts = s.layouts
    BY <1>1, <2>1 DEF rekey, KeyFields
  <2>3. \A x \in s.splitter_slots : vl[its[x]] = vl2[its[x]]
    BY <1>1, <1>5, <2>1 DEF Rekeyed, Collection
  <2> QED
    BY <1>1, <1>2, <2>2, <2>3, ResolvedAlike, SameLadders
<1>6. CASE Compacted(s, t, its, vl, its2, vl2)
  <2>1. PICK m, kept, pl :
            /\ Reduction(its, vl, m, kept, its2, vl2)
            /\ s.splitter_slots \subseteq ToSet(kept)
            /\ t = compact(s, kept, its2, vl2, pl)
    BY <1>6 DEF Compacted
  <2>2. /\ m \in Nat /\ DOMAIN kept = 1 .. m
        /\ \A i \in 1 .. m : vl2[its[kept[i]]] = vl[its[kept[i]]]
    BY <2>1 DEF Reduction, Collection
  <2>3. t.name = s.name /\ t.layouts = s.layouts
    <3>1. s.splitter_slots \cap ((1 .. Len(s.buckets)) \ ToSet(kept)) = {}
      BY <2>1
    <3> QED
      BY <1>1, <2>1, <3>1 DEF compact, KeyFields
  <2>4. \A x \in s.splitter_slots : vl[its[x]] = vl2[its[x]]
    BY <2>1, <2>2 DEF ToSet
  <2> QED
    BY <1>1, <1>2, <2>3, <2>4, ResolvedAlike, SameLadders
<1> QED
  BY <1>3, <1>4, <1>5, <1>6 DEF Changed
-----------------------------------------------------------------------------
(* The invariant                                                           *)

\* Every KeyState of an ordering has split points in order.
Ladders == \A i \in DOMAIN states : LaddersIn(states[i], val)

\* Every call keeps them in order.
LEMMA LaddersStep ==
    ASSUME IInv, IInv', Ladders, [Next]_vars
    PROVE  Ladders'
<1> SUFFICES ASSUME NEW j \in DOMAIN states'
             PROVE  LaddersIn(states'[j], val')
  BY DEF Ladders
<1>1. /\ plan \in Plan /\ Collection(items, val) /\ Len(items) <= MaxItems
      /\ plan' \in Plan /\ Collection(items', val') /\ Len(items') <= MaxItems
  BY DEF IInv
<1>2. CASE LaidOut(states'[j], items', val', plan')
  BY <1>1, <1>2, LaidOutInOrder
<1>3. ASSUME NEW i \in DOMAIN states, Develops(states[i], states'[j]),
             ~ LaidOut(states'[j], items', val', plan')
      PROVE  LaddersIn(states'[j], val')
  <2>1. plan' = plan /\ \E s1, s2, s3, s4 :
            Chain(states[i], s1, s2, s3, s4, states'[j], items, val, items', val', plan)
    BY <1>3 DEF Develops
  <2>2. PICK s1, s2, s3, s4 :
            Chain(states[i], s1, s2, s3, s4, states'[j], items, val, items', val', plan)
    BY <2>1
  <2>3. Consistent(states[i], items, val) /\ LaddersIn(states[i], val)
    BY DEF IInv, Ladders
  <2>4. Consistent(s1, items, val) /\ LaddersIn(s1, val)
    BY <1>1, <2>2, <2>3, TouchedKeepsLadders DEF Chain
  <2>5. Consistent(s2, items, val) /\ LaddersIn(s2, val)
    BY <1>1, <2>2, <2>4, TouchedKeepsLadders DEF Chain
  <2>6. Consistent(s3, items, val) /\ LaddersIn(s3, val)
    BY <1>1, <2>2, <2>5, TouchedKeepsLadders DEF Chain
  <2>7. Consistent(s4, items', val') /\ LaddersIn(s4, val')
    BY <2>2, <2>6, ChangedKeepsLadders DEF Chain
  <2>8. Consistent(states'[j], items', val') /\ LaddersIn(states'[j], val')
    BY <1>1, <2>1, <2>2, <2>7, TouchedKeepsLadders DEF Chain
  <2> QED
    BY <2>8
<1> QED
  BY <1>2, <1>3, StateSteps DEF StateFrom

\* The split points are in order in every reachable state.
LEMMA LaddersInvariance == Spec => [](IInv /\ Groupings /\ Ladders)
<1>1. Init => Ladders
  BY DEF Init, Ladders
<1>2. IInv /\ IInv' /\ Ladders /\ [Next]_vars => Ladders'
  BY LaddersStep
<1> QED
  BY GroupingsInvariance, Invariance, <1>1, <1>2, PTL DEF Spec

\* The bucket id of an element is one of its group's layout, behind those of the
\* groups before.
LEMMA IdOfGroup ==
    ASSUME NEW st, st.name \in Name, DOMAIN st.layouts = 1 .. GroupCount[st.name],
           NEW v \in Value, NEW vk, NEW vl
    PROVE  LET g == group(st.name, v)
           IN  /\ g \in 1 .. GroupCount[st.name]
               /\ bucket_for(st, v, vk, vl) = group_offset(st)[g]
                      + bucket_of(st.name, resolve(st.layouts[g], vl), v, vk)
<1> DEFINE c == GroupCount[st.name]
           g == group(st.name, v)
<1>1. c \in Nat \ {0} /\ g \in 1 .. c
  <2>1. GroupCount \in [Name -> Nat \ {0}] /\ GroupOf[st.name] \in [Value -> 1 .. c]
    BY SortKeyAssumption
  <2> QED
    BY <2>1 DEF group
<1>2. Len(st.layouts) = c
  <2> HIDE DEF c
  <2> QED
    BY <1>1 DEF c
<1>3. g = IF Len(st.layouts) > 1 THEN g ELSE 1
  <2> HIDE DEF c, g
  <2> QED
    BY <1>1, <1>2
<1> HIDE DEF c
<1> QED
  BY <1>1, <1>3 DEF bucket_for, c

\* An element that is not behind another one has no later bucket.
LEMMA IdsFollowOrder ==
    ASSUME NEW st, NEW its, NEW vl, Collection(its, vl), Consistent(st, its, vl), LayoutsIn(st),
           LaddersIn(st, vl), st.name \in Ordering, NEW x \in DOMAIN its, NEW y \in DOMAIN its,
           compare(st.name, vl[its[x]], vl[its[y]]) <= 0
    PROVE  st.buckets[x] \in Nat /\ st.buckets[y] \in Nat /\ st.buckets[x] <= st.buckets[y]
<1> DEFINE k == st.name
           c == GroupCount[k]
           v == vl[its[x]]
           w == vl[its[y]]
           off == group_offset(st)
           g == group(k, v)
           h == group(k, w)
           points(a) == resolve(st.layouts[a], vl)
           bx == bucket_for(st, v, key(k, v), vl)
           by == bucket_for(st, w, key(k, w), vl)
           n == bucket_total(st)
<1>1. k \in Name /\ DOMAIN st.layouts = 1 .. c
  BY DEF Consistent, KeyStateOK
<1>2. v \in Value /\ w \in Value
  BY DEF Collection, ToSet
<1>3. st.buckets[x] = bx /\ st.buckets[y] = by
  BY DEF Consistent, BucketsIn, KeysIn
<1>4. bx \in 1 .. n /\ g \in 1 .. c /\ bx \in off[g] + 1 .. off[g + 1]
  <2> HIDE DEF n, c, off, bx, v
  <2> QED
    BY <1>1, <1>2, IdInRange DEF n, c, off, bx
<1>5. by \in 1 .. n /\ h \in 1 .. c /\ by \in off[h] + 1 .. off[h + 1]
  <2> HIDE DEF n, c, off, by, w
  <2> QED
    BY <1>1, <1>2, IdInRange DEF n, c, off, by
<1>6. c \in Nat \ {0}
  BY <1>1, SortKeyAssumption
<1>7. n \in Nat /\ Offsets(off, c, shares(st)) /\ \A a \in 1 .. c : shares(st)[a] \in Nat
  <2> HIDE DEF c
  <2> QED
    BY <1>1, <1>6, IdsOfGroups
<1>8. bx = off[g] + bucket_of(k, points(g), v, key(k, v))
  <2> HIDE DEF v
  <2> QED
    BY <1>1, <1>2, IdOfGroup
<1>9. by = off[h] + bucket_of(k, points(h), w, key(k, w))
  <2> HIDE DEF w
  <2> QED
    BY <1>1, <1>2, IdOfGroup
<1>10. compare(k, v, w) <= 0
  OBVIOUS
<1>11. SplitsOrdered(k, g, points(g))
  BY <1>1, <1>4 DEF LaddersIn
<1> HIDE DEF k, c, v, w, off, points, bx, by, n
<1>12. g <= h
  <2>1. CASE g = h
    BY <1>4, <2>1
  <2>2. CASE g # h
    <3>1. compare(k, v, w) = IF g < h THEN -1 ELSE 1
      BY <2>2 DEF compare
    <3> HIDE DEF g, h
    <3> QED
      BY <1>4, <1>5, <1>10, <3>1
  <2> QED
    BY <2>1, <2>2
<1>13. CASE g = h
  <2>1. v \in Members(k, g) /\ w \in Members(k, g)
    BY <1>2, <1>13 DEF Members
  <2> DEFINE d == bucket_of(k, points(g), v, key(k, v))
             e == bucket_of(k, points(g), w, key(k, w))
  <2>2. d <= e
    BY <1>10, <1>11, <2>1, BucketFollows
  <2>3. bx = off[g] + d /\ by = off[g] + e
    BY <1>8, <1>9, <1>13
  <2>4. d \in Nat /\ e \in Nat
    <3>1. IsSequence(points(g))
      BY <1>11 DEF SplitsOrdered
    <3>2. d \in 1 .. Len(points(g)) + 1 /\ e \in 1 .. Len(points(g)) + 1
      BY <3>1, BucketInLayout
    <3>3. Len(points(g)) \in Nat
      BY <3>1 DEF IsSequence
    <3> HIDE DEF d, e
    <3> QED
      BY <3>2, <3>3
  <2> HIDE DEF d, e, g, h
  <2>5. off[g] \in Nat
    BY <1>4, <1>6, <1>7 DEF Offsets
  <2> QED
    BY <1>3, <1>4, <1>5, <1>7, <2>2, <2>3, <2>4, <2>5
<1>14. CASE g < h
  <2> HIDE DEF g, h
  <2>1. g + 1 \in 1 .. c + 1 /\ h \in g + 1 .. c + 1 /\ h \in 1 .. c + 1
    BY <1>4, <1>5, <1>6, <1>14
  <2>2. off[g + 1] <= off[h]
    BY <1>6, <1>7, <2>1, OffsetsGrow
  <2>3. off[g + 1] \in Nat /\ off[h] \in Nat
    BY <1>6, <1>7, <2>1 DEF Offsets
  <2> QED
    BY <1>3, <1>4, <1>5, <1>7, <2>2, <2>3
<1> QED
  BY <1>4, <1>5, <1>12, <1>13, <1>14

\* Bucket ids follow the exact ascending order and ties share a bucket, in every
\* reachable state and for every sort key whose functions order the values: the
\* sample estimate draws, the runs of equal elements choose_split_positions moves
\* the splits to, the split points that store no element, and the elements that
\* are added, changed or removed behind a layout's back never put an element into
\* a bucket behind one it precedes.
THEOREM BucketsStayInOrder == Spec => []BucketsInOrder
<1>1. ASSUME IInv, Groupings, Ladders
      PROVE  BucketsInOrder
  <2> SUFFICES ASSUME NEW i \in DOMAIN states, states[i].name \in Ordering,
                      NEW x \in DOMAIN items, NEW y \in DOMAIN items
               PROVE  LET c == compare(states[i].name, val[items[x]], val[items[y]])
                      IN  /\ c < 0 => states[i].buckets[x] <= states[i].buckets[y]
                          /\ c = 0 => states[i].buckets[x] = states[i].buckets[y]
    BY DEF BucketsInOrder, Slots
  <2>1. /\ Collection(items, val) /\ Consistent(states[i], items, val)
        /\ LayoutsIn(states[i]) /\ LaddersIn(states[i], val)
    BY <1>1 DEF IInv, Groupings, Ladders
  <2> DEFINE st == states[i]
             k == st.name
             c == compare(k, val[items[x]], val[items[y]])
             d == compare(k, val[items[y]], val[items[x]])
  <2>2. val[items[x]] \in Value /\ val[items[y]] \in Value
    BY <2>1 DEF Collection, ToSet
  <2>3. c = 0 - d /\ c \in {-1, 0, 1} /\ d \in {-1, 0, 1}
    <3>1. k \in Ordering
      OBVIOUS
    <3> HIDE DEF k
    <3>2. c = 0 - d
      BY <2>2, <3>1 DEF Ordering
    <3>3. c \in {-1, 0, 1}
      BY <2>2, <3>1, CompareRange DEF Ordering
    <3>4. d \in {-1, 0, 1}
      BY <2>2, <3>1, CompareRange DEF Ordering
    <3> QED
      BY <3>2, <3>3, <3>4
  <2>4. c <= 0 => st.buckets[x] \in Nat /\ st.buckets[y] \in Nat /\ st.buckets[x] <= st.buckets[y]
    BY <2>1, IdsFollowOrder
  <2>5. d <= 0 => st.buckets[y] <= st.buckets[x]
    BY <2>1, IdsFollowOrder
  <2> HIDE DEF st, c, d
  <2>6. c < 0 => st.buckets[x] <= st.buckets[y]
    BY <2>3, <2>4
  <2>7. c = 0 => st.buckets[x] = st.buckets[y]
    BY <2>3, <2>4, <2>5
  <2> QED
    BY <2>6, <2>7 DEF st, c, k
<1> QED
  BY LaddersInvariance, <1>1, PTL
=============================================================================
