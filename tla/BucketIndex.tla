---------------------------- MODULE BucketIndex ----------------------------
(***************************************************************************)
(* The index itself (include/speedup/bucketization/bucket_index.hpp): the  *)
(* elements in insertion order and, for every registered sort key, a       *)
(* KeyState with the layout, the bucket of every slot and the cached       *)
(* grouping, whose buckets are sorted only when a position is read.        *)
(*                                                                         *)
(* An element is a handle; val gives the value behind it.  With Aliasing   *)
(* the element type is a pointer or id, so a split point that stores an    *)
(* element sees every later change of it; without, the split point keeps   *)
(* the value it copied.  val is defined on the elements of the collection  *)
(* only: looking behind a removed element is an error TLC reports.         *)
(*                                                                         *)
(* Slots, positions, buckets and groups start at 1 (in the code at 0);     *)
(* range keeps the code's half-open interval counted from 0.               *)
(***************************************************************************)
EXTENDS BucketLayout, FiniteSets

CONSTANTS
    Handle,       \* identities of elements
    Plan,         \* the plans a caller may set
    Aliasing,     \* is the element type a handle?
    MaxItems,     \* removed_slot: the most elements the index takes
    MaxBulk,      \* bound: elements per add_all and update_if
    MaxChurn,     \* bound: changes counted since a layout was made
    MaxKeys,      \* bound: sort keys registered at a time
    Directions    \* bound: the directions callers sort in

Direction == {"ascending", "descending"}

ASSUME BucketIndexAssumption ==
    /\ Directions \subseteq Direction
    /\ Aliasing \in BOOLEAN
    /\ NoValue \notin Handle
    /\ \A p \in Plan : IsPlan(p) /\ Draws(p, MaxItems)
    /\ MaxItems \in Nat /\ MaxBulk \in Nat /\ MaxChurn \in Nat /\ MaxKeys \in Nat

\* A comparator with cycles can make estimate read one element past the end of its
\* sample (bucket_layout.hpp:225, the run of MCSplitCyclic), unless there is one bucket
\* only and nothing is split.  What the index does after such a read is undefined.
ASSUME CyclesInOneBucket == \A k \in Name \ Ordering, p \in Plan : p.max_buckets = 1

VARIABLES
    items,      \* items_: the elements in insertion order
    val,        \* the value of every element
    states,     \* states_: one KeyState per registered sort key
    active,     \* active_: index of the active KeyState, or npos
    direction,  \* direction_
    plan,       \* plan_
    result      \* the last call: what it was and what it returned

vars == <<items, val, states, active, direction, plan, result>>

npos == -1

\* A call: its name, its numeric arguments, the elements and the number it
\* returned.  A thrown exception is the number npos.
Call(op, arg, out, num) == [op |-> op, arg |-> arg, out |-> out, num |-> num]
Void(op)   == Call(op, << >>, << >>, 0)
Thrown(op) == Call(op, << >>, << >>, npos)
-----------------------------------------------------------------------------
(* KeyState, its layouts and bucket ids                                    *)

values(its, vl) == [x \in DOMAIN its |-> vl[its[x]]]

\* Sums of the entries before each index, and the total.
prefix_sums(s) ==
    LET sums[i \in 0 .. Len(s)] ==
            IF i = 0 THEN <<0>> ELSE LET t == sums[i - 1] IN Append(t, Last(t) + s[i])
    IN  sums[Len(s)]

\* The sequences parts[1], parts[2], ... one behind the other.
joined(parts) ==
    LET upto[b \in 0 .. Len(parts)] == IF b = 0 THEN << >> ELSE upto[b - 1] \o parts[b]
    IN  upto[Len(parts)]

\* group_offset[g]: how many buckets the groups before g have.
group_offset(st) == prefix_sums([g \in DOMAIN st.layouts |-> Len(st.layouts[g].expected)])

bucket_total(st) == Last(group_offset(st))

expected(st) == joined([g \in DOMAIN st.layouts |-> st.layouts[g].expected])

\* The split points of a layout with the values their elements have now.
resolve(layout, vl) ==
    [i \in DOMAIN layout.splits |->
        [key  |-> layout.splits[i].key,
         elem |-> IF Aliasing /\ layout.splits[i].elem # NoValue
                  THEN vl[layout.splits[i].elem] ELSE layout.splits[i].elem]]

\* Global bucket id of an element with value v and normalized key vk.
bucket_for(st, v, vk, vl) ==
    LET g == IF Len(st.layouts) > 1 THEN group(st.name, v) ELSE 1
    IN  group_offset(st)[g] + bucket_of(st.name, resolve(st.layouts[g], vl), v, vk)

\* What a split point stores of the element in slot pos (none for no_element).  By
\* CyclesInOneBucket, pos is no_element or a slot.
split_element(pos, its, vl) ==
    IF pos \notin DOMAIN its THEN NoValue
    ELSE IF Aliasing THEN its[pos] ELSE vl[its[pos]]

tally(bs, k) == [b \in 1 .. k |-> Cardinality({x \in DOMAIN bs : bs[x] = b})]

\* Takes over estimated layouts and notes the slots they split on.
with_layouts(st, estimated, its, vl) ==
    [st EXCEPT
        !.layouts = [g \in DOMAIN estimated |->
            [splits |-> [i \in DOMAIN estimated[g].splits |->
                [key  |-> estimated[g].splits[i].key,
                 elem |-> split_element(estimated[g].splits[i].pos, its, vl)]],
             expected |-> estimated[g].expected]],
        !.splitter_slots = {x \in DOMAIN its : \E g \in DOMAIN estimated :
            \E i \in DOMAIN estimated[g].splits : estimated[g].splits[i].pos = x}]

\* Assigns the bucket of every slot under the present layouts.
with_buckets(st, its, vl) ==
    [st EXCEPT !.buckets = [x \in DOMAIN its |-> bucket_for(st, vl[its[x]], st.keys[x], vl)]]

\* Broken: the size the layout was made for is not noted.
with_counts_of_old_size(st, n) ==
    [st EXCEPT
        !.counts = tally(st.buckets, bucket_total(st)),
        !.splitter_changed = FALSE, !.churn = 0, !.stale_checked_at = npos,
        !.has_order = FALSE, !.order_stale = FALSE, !.order = << >>, !.start = << >>,
        !.sorted_len = << >>, !.moved = {}, !.ordered_slots = 0]

\* Broken: an unchanged collection keeps its cached grouping.
with_counts_of_changes_only(st, n) ==
    IF st.churn = 0 /\ st.ordered_slots = n /\ Len(st.start) = bucket_total(st) + 1
    THEN [st EXCEPT !.counts = tally(st.buckets, bucket_total(st)), !.splitter_changed = FALSE,
                    !.estimated_from = n, !.stale_checked_at = npos]
    ELSE [with_counts_of_old_size(st, n) EXCEPT !.estimated_from = n]

\* Counts the buckets and starts everything that was known of n slots anew.
with_counts(st, n) ==
    [st EXCEPT
        !.counts = tally(st.buckets, bucket_total(st)),
        !.splitter_changed = FALSE,
        !.estimated_from = n,
        !.churn = 0,
        !.stale_checked_at = npos,
        !.has_order = FALSE,
        !.order_stale = FALSE,
        !.order = << >>,
        !.start = << >>,
        !.sorted_len = << >>,
        !.moved = {},
        !.ordered_slots = 0]

\* Estimates the layouts from the elements and reassigns every bucket.
relayout(st, its, vl, pl) ==
    LET estimated == estimate_layouts(st.name, values(its, vl), st.keys, pl)
    IN  with_counts(with_buckets(with_layouts(st, estimated, its, vl), its, vl), Len(its))

\* A KeyState before its first relayout.
new_state(k, ks) ==
    [name |-> k, keys |-> ks, buckets |-> << >>, layouts |-> << >>, counts |-> << >>,
     splitter_slots |-> {}, splitter_changed |-> FALSE, estimated_from |-> 0, churn |-> 0,
     stale_checked_at |-> npos, has_order |-> FALSE, order_stale |-> FALSE, order |-> << >>,
     start |-> << >>, sorted_len |-> << >>, moved |-> {}, ordered_slots |-> 0]
-----------------------------------------------------------------------------
(* Rebalancing                                                             *)

skew_floor(st, b, pl) == max(max(expected(st)[b], pl.page_size), 1)

is_stale(st, n, pl) ==
    \/ n > 2 * max(st.estimated_from, pl.page_size)
    \/ \E b \in DOMAIN st.counts :
          st.counts[b] * pl.rebalance_skew[2] > pl.rebalance_skew[1] * skew_floor(st, b, pl)

\* Broken: buckets that outgrew their size do not count.
maybe_auto_rebalance_growth_only(st, its, vl, pl) ==
    IF ~ pl.auto_rebalance \/ st.churn = st.stale_checked_at THEN st
    ELSE LET checked == [st EXCEPT !.stale_checked_at = st.churn]
         IN  IF /\ st.churn >= max(pl.page_size, st.estimated_from \div 8)
                /\ Len(its) > 2 * max(st.estimated_from, pl.page_size)
             THEN relayout(checked, its, vl, pl) ELSE checked

\* Broken: does not wait until enough has changed.
maybe_auto_rebalance_at_once(st, its, vl, pl) ==
    IF ~ pl.auto_rebalance \/ st.churn = st.stale_checked_at THEN st
    ELSE LET checked == [st EXCEPT !.stale_checked_at = st.churn]
         IN  IF is_stale(st, Len(its), pl) THEN relayout(checked, its, vl, pl) ELSE checked

\* Waits until enough has changed, and checks once per value of churn.
maybe_auto_rebalance(st, its, vl, pl) ==
    IF ~ pl.auto_rebalance \/ st.churn = st.stale_checked_at THEN st
    ELSE LET checked == [st EXCEPT !.stale_checked_at = st.churn]
         IN  IF /\ st.churn >= max(pl.page_size, st.estimated_from \div 8)
                /\ is_stale(st, Len(its), pl)
             THEN relayout(checked, its, vl, pl) ELSE checked
-----------------------------------------------------------------------------
(* The cached grouping                                                     *)

\* The slots of bucket b in the cached grouping.
grouped(st, b) == SubSeq(st.order, st.start[b] + 1, st.start[b + 1])

\* The bucket of the cached grouping that position p lies in.
bucket_at(st, p) == first_above(Len(st.start), {i \in DOMAIN st.start : st.start[i] >= p})

interval(from, to) == [i \in 1 .. to - from |-> from + i]

\* Counting sort: the slots of the sequence q by ascending bucket dest[slot] of
\* k buckets, slots of one bucket in the order of q.
distribute(q, dest, k) == joined([b \in 1 .. k |-> only(q, {x \in DOMAIN dest : dest[x] = b})])

\* Groups all slots by bucket id; nothing is sorted yet.
build_order(st, n) ==
    [st EXCEPT
        !.start = prefix_sums(st.counts),
        !.order = distribute(interval(0, n), st.buckets, Len(st.counts)),
        !.sorted_len = [b \in DOMAIN st.counts |-> 0],
        !.moved = {},
        !.ordered_slots = n,
        !.has_order = TRUE,
        !.order_stale = FALSE]

\* Broken: slots are taken to have left from behind the prefixes.
surviving_prefix_whole(st, staying) ==
    [b \in DOMAIN st.sorted_len |->
        min(st.sorted_len[b], Cardinality(ToSet(grouped(st, b)) \cap staying))]

\* How much of the sorted prefix of every bucket is left when only the slots in
\* staying keep their place.
surviving_prefix(st, staying) ==
    [b \in DOMAIN st.sorted_len |->
        Cardinality({p \in 1 .. st.sorted_len[b] : grouped(st, b)[p] \in staying})]

\* Slots that stayed keep their bucket and their relative order at its front;
\* updated slots, then added ones, go to the unsorted back of theirs.
regroup(st, n) ==
    LET place(x) == CHOOSE i \in DOMAIN st.order : st.order[i] = x
        dest == [x \in 1 .. n |->
                    IF x \in st.moved \/ x > st.ordered_slots THEN st.buckets[x]
                    ELSE bucket_at(st, place(x))]
    IN  [st EXCEPT
            !.start = prefix_sums(st.counts),
            !.order = distribute(only(st.order, 1 .. n \ st.moved) \o only(st.order, st.moved)
                                     \o interval(st.ordered_slots, n), dest, Len(st.counts)),
            !.sorted_len = surviving_prefix(st, 1 .. n \ st.moved),
            !.moved = {},
            !.ordered_slots = n,
            !.order_stale = FALSE]

\* Broken: nothing waiting to be re-placed is applied before slots move.
settled_never(st, n) == st

\* What remove_if does first: apply what waits to be re-placed.
settled(st, n) == IF st.has_order /\ st.order_stale THEN regroup(st, n) ELSE st

\* Broken: every change starts the grouping from nothing.
grouping_from_nothing(st, n) ==
    IF ~ st.has_order \/ st.order_stale THEN build_order(st, n) ELSE st

\* The grouping of n slots, brought up to date.
grouping(st, n) ==
    IF ~ st.has_order THEN build_order(st, n)
    ELSE IF st.order_stale THEN regroup(st, n)
    ELSE st

\* Makes the grouping current; called before every sorted read.
prepare(st, its, vl, pl) == grouping(maybe_auto_rebalance(st, its, vl, pl), Len(its))

\* Broken: ties are left to the sort.
slot_less_without_slots(st, its, vl, a, b) ==
    IF has_key(st.name) /\ st.keys[a] # st.keys[b] THEN st.keys[a] < st.keys[b]
    ELSE IF has_key(st.name) THEN tie_break(st.name, vl[its[a]], vl[its[b]]) < 0
    ELSE compare(st.name, vl[its[a]], vl[its[b]]) < 0

\* The order inside a bucket: key, tie-breaker, insertion order.
slot_less(st, its, vl, a, b) ==
    IF has_key(st.name) /\ st.keys[a] # st.keys[b] THEN st.keys[a] < st.keys[b]
    ELSE LET c == IF has_key(st.name)
                  THEN tie_break(st.name, vl[its[a]], vl[its[b]])
                  ELSE compare(st.name, vl[its[a]], vl[its[b]])
         IN  IF c # 0 THEN c < 0 ELSE a < b

\* Broken: a slot is put behind as many places as there are slots less than it,
\* which is the same place for all slots of a cycle.
sorted_bucket_by_rank(st, b, its, vl) ==
    LET slots == grouped(st, b)
        ranked(p) == {x \in ToSet(slots) :
            Cardinality({y \in ToSet(slots) : slot_less(st, its, vl, y, x)}) = p - 1}
    IN  [p \in DOMAIN slots |-> IF ranked(p) = {} THEN slots[p] ELSE CHOOSE x \in ranked(p) : TRUE]

slot_order(st, its, vl) ==
    {p \in (DOMAIN its) \X (DOMAIN its) : slot_less(st, its, vl, p[1], p[2])}

\* The slots of bucket b with its unsorted tail sorted and merged into its
\* sorted prefix.
sorted_bucket(st, b, its, vl) ==
    LET less   == slot_order(st, its, vl)
        slots  == grouped(st, b)
        prefix == SubSeq(slots, 1, st.sorted_len[b])
        back   == SubSeq(slots, st.sorted_len[b] + 1, Len(slots))
        tail   == IF is_sorted(back, less) THEN back ELSE stable_sort(back, less)
    IN  IF back = << >> THEN slots
        ELSE IF prefix # << >> /\ <<tail[1], Last(prefix)>> \in less
             THEN inplace_merge(prefix, tail, less) ELSE prefix \o tail

\* sort_bucket for every bucket of the set bs.
sort_buckets(st, bs, its, vl) ==
    [st EXCEPT
        !.order = joined([b \in 1 .. Len(st.sorted_len) |->
                      IF b \in bs THEN sorted_bucket(st, b, its, vl) ELSE grouped(st, b)]),
        !.sorted_len = [b \in DOMAIN st.sorted_len |->
                      IF b \in bs THEN st.start[b + 1] - st.start[b] ELSE st.sorted_len[b]]]
-----------------------------------------------------------------------------
(* Applying changes to one KeyState                                        *)

\* Broken: the buckets the slots left keep counting them.
recounted_leaving_ignored(st, left, bs, placed) ==
    [b \in DOMAIN st.counts |-> st.counts[b] + Cardinality({x \in placed : bs[x] = b})]

\* counts after the slots in left gave up their bucket and the slots in placed
\* were put into the buckets bs.
recounted(st, left, bs, placed) ==
    [b \in DOMAIN st.counts |-> st.counts[b] - Cardinality({x \in left : st.buckets[x] = b})
                                            + Cardinality({x \in placed : bs[x] = b})]

\* append for the elements its[n+1], its[n+2], ... behind the first n.
append(st, n, its, vl) ==
    LET ks == [x \in DOMAIN its |-> IF x <= n THEN st.keys[x] ELSE key(st.name, vl[its[x]])]
        bs == [x \in DOMAIN its |-> IF x <= n THEN st.buckets[x]
                                    ELSE bucket_for(st, vl[its[x]], ks[x], vl)]
    IN  [st EXCEPT
            !.keys = ks,
            !.buckets = bs,
            !.counts = recounted(st, {}, bs, n + 1 .. Len(its)),
            !.churn = st.churn + (Len(its) - n),
            !.order_stale = IF st.has_order /\ Len(its) > n THEN TRUE ELSE st.order_stale]

\* rekey for every slot of the set hit, after their elements were changed.
rekey(st, hit, its, vl) ==
    LET ks == [x \in DOMAIN its |-> IF x \in hit THEN key(st.name, vl[its[x]]) ELSE st.keys[x]]
        bs == [x \in DOMAIN its |-> IF x \in hit THEN bucket_for(st, vl[its[x]], ks[x], vl)
                                    ELSE st.buckets[x]]
        placed == {x \in hit : st.has_order /\ x <= st.ordered_slots}
    IN  [st EXCEPT
            !.keys = ks,
            !.buckets = bs,
            !.counts = recounted(st, hit, bs, hit),
            !.churn = st.churn + Cardinality(hit),
            !.splitter_changed = IF hit \cap st.splitter_slots # {} THEN TRUE
                                 ELSE st.splitter_changed,
            !.moved = st.moved \cup placed,
            !.order_stale = IF placed # {} THEN TRUE ELSE st.order_stale]

\* A layout one of whose split elements has changed is estimated again.
resplit(st, its, vl, pl) == IF st.splitter_changed THEN relayout(st, its, vl, pl) ELSE st

\* Broken: only slots behind the new end get another number.
remap_only_behind_end(kept, x) == min(x, Len(kept))

\* The slot that slot x becomes when only the slots in kept survive.
remap(kept, x) == CHOOSE i \in DOMAIN kept : kept[i] = x

\* Applies a removal; kept lists the surviving slots, its and vl are the
\* collection after it.
compact(st, kept, its, vl, pl) ==
    LET n == Len(st.buckets)
        gone == 1 .. n \ ToSet(kept)
        filtered == [st EXCEPT
            !.keys = [i \in DOMAIN kept |-> st.keys[kept[i]]],
            !.buckets = [i \in DOMAIN kept |-> st.buckets[kept[i]]],
            !.counts = recounted(st, gone, << >>, {}),
            !.churn = st.churn + (n - Len(kept))]
        remapped == [filtered EXCEPT
            !.splitter_slots = {remap(kept, x) : x \in st.splitter_slots}]
        survivors == [b \in 1 .. Len(st.start) - 1 |-> only(grouped(st, b), ToSet(kept))]
    IN  IF st.splitter_slots \cap gone # {} THEN relayout(filtered, its, vl, pl)
        ELSE IF ~ st.has_order THEN remapped
        ELSE [remapped EXCEPT
                !.order = LET s == joined(survivors) IN [i \in DOMAIN s |-> remap(kept, s[i])],
                !.start = prefix_sums([b \in DOMAIN survivors |-> Len(survivors[b])]),
                !.sorted_len = surviving_prefix(st, ToSet(kept)),
                !.moved = {},
                !.ordered_slots = Len(kept)]
-----------------------------------------------------------------------------
(* Positions                                                               *)

\* Broken: descending order turns the whole order round, groups included.
to_ascending_across_groups(st, n, dir, p) == IF dir = "ascending" THEN p ELSE n + 1 - p

\* Ascending position of a position in the current order: descending order
\* reverses the positions inside each group.
to_ascending(st, n, dir, p) ==
    IF dir = "ascending" THEN p
    ELSE IF Len(st.layouts) = 1 THEN n + 1 - p
    ELSE LET first(g) == st.start[group_offset(st)[g] + 1]
             g == first_above(Len(st.layouts), {m \in DOMAIN st.layouts : first(m) >= p})
         IN  first(g) + first(g + 1) + 1 - p

\* The buckets range sorts to show the positions from + 1 .. to.
buckets_shown(st, n, dir, from, to) ==
    IF dir = "descending" /\ Len(st.layouts) > 1
    THEN {bucket_at(st, to_ascending(st, n, dir, p)) : p \in from + 1 .. to}
    ELSE LET lo == IF dir = "ascending" THEN from ELSE n - to
             hi == IF dir = "ascending" THEN to ELSE n - from
         IN  bucket_at(st, lo + 1) .. bucket_at(st, hi)
-----------------------------------------------------------------------------
(* The operations                                                          *)

find_state(k) == {i \in DOMAIN states : states[i].name = k}

Init ==
    /\ items = << >>
    /\ val = << >>
    /\ states = << >>
    /\ active = npos
    /\ direction = "ascending"
    /\ plan \in Plan
    /\ result = Void("init")

add_sort_key(k) ==
    /\ IF find_state(k) # {}
       THEN result' = Thrown("add_sort_key") /\ UNCHANGED states
       ELSE LET st == new_state(k, [x \in DOMAIN items |-> key(k, val[items[x]])])
            IN  states' = Append(states, relayout(st, items, val, plan)) /\ result' = Void("add_sort_key")
    /\ UNCHANGED <<items, val, active, direction, plan>>

\* Broken: removing any sort key returns to insertion order.
remove_sort_key_unselecting(k) ==
    /\ IF find_state(k) = {}
       THEN result' = Call("remove_sort_key", << >>, << >>, 0) /\ UNCHANGED <<states, active>>
       ELSE \E i \in find_state(k) :
              /\ states' = RemoveAt(states, i)
              /\ active' = npos
              /\ result' = Call("remove_sort_key", << >>, << >>, 1)
    /\ UNCHANGED <<items, val, direction, plan>>

remove_sort_key(k) ==
    /\ IF find_state(k) = {}
       THEN result' = Call("remove_sort_key", << >>, << >>, 0) /\ UNCHANGED <<states, active>>
       ELSE \E i \in find_state(k) :
              /\ states' = RemoveAt(states, i)
              /\ active' = IF active = i THEN npos
                           ELSE IF active # npos /\ active > i THEN active - 1 ELSE active
              /\ result' = Call("remove_sort_key", << >>, << >>, 1)
    /\ UNCHANGED <<items, val, direction, plan>>

sort_by(k, dir) ==
    /\ IF find_state(k) = {}
       THEN result' = Thrown("sort_by") /\ UNCHANGED <<states, active, direction>>
       ELSE \E i \in find_state(k) :
              /\ active' = i
              /\ direction' = dir
              /\ states' = [states EXCEPT ![i] = prepare(states[i], items, val, plan)]
              /\ result' = Void("sort_by")
    /\ UNCHANGED <<items, val, plan>>

unsort ==
    /\ active' = npos
    /\ result' = Void("unsort")
    /\ UNCHANGED <<items, val, states, direction, plan>>

at(p) ==
    /\ IF p > Len(items) THEN result' = Thrown("at") /\ UNCHANGED states
       ELSE IF active = npos
       THEN result' = Call("at", <<p>>, <<items[p]>>, 0) /\ UNCHANGED states
       ELSE \E st \in {prepare(states[active], items, val, plan)} :
            LET up == to_ascending(st, Len(items), direction, p)
                sorted == sort_buckets(st, {bucket_at(st, up)}, items, val)
            IN  /\ states' = [states EXCEPT ![active] = sorted]
                /\ result' = Call("at", <<p>>, <<items[sorted.order[up]]>>, 0)
    /\ UNCHANGED <<items, val, active, direction, plan>>

range(from, until) ==
    LET n  == Len(items)
        to == min(until, n)
    IN  /\ IF from >= to THEN result' = Call("range", <<from, until>>, << >>, 0) /\ UNCHANGED states
           ELSE IF active = npos
           THEN result' = Call("range", <<from, until>>, SubSeq(items, from + 1, to), 0) /\ UNCHANGED states
           ELSE \E st \in {prepare(states[active], items, val, plan)} :
                LET sorted == sort_buckets(st, buckets_shown(st, n, direction, from, to), items, val)
                IN  /\ states' = [states EXCEPT ![active] = sorted]
                    /\ result' = Call("range", <<from, until>>, [i \in 1 .. to - from |->
                          items[sorted.order[to_ascending(st, n, direction, from + i)]]], 0)
        /\ UNCHANGED <<items, val, active, direction, plan>>

first_page == range(0, plan.page_size)

\* matching: the slots whose element satisfies the caller's predicate.
position_if(matching) ==
    /\ IF matching = {} THEN result' = Void("position_if") /\ UNCHANGED states
       ELSE IF active = npos
       THEN result' = Call("position_if", <<Min(matching)>>, << >>, Min(matching)) /\ UNCHANGED states
       ELSE \E st \in {prepare(states[active], items, val, plan)} :
            LET slot == Min(matching)
                sorted == sort_buckets(st, {st.buckets[slot]}, items, val)
                up == CHOOSE i \in DOMAIN sorted.order : sorted.order[i] = slot
            IN  /\ states' = [states EXCEPT ![active] = sorted]
                /\ result' = Call("position_if", <<Min(matching)>>, << >>, to_ascending(st, Len(items), direction, up))
    /\ UNCHANGED <<items, val, active, direction, plan>>

\* Visits bucket by bucket: up through all of them, or, descending, group by
\* group and down through the buckets and the slots of each.
visited(st, dir) ==
    LET off == group_offset(st)
        downward(g) == joined([i \in 1 .. off[g + 1] - off[g] |->
                          Reverse(grouped(st, off[g + 1] + 1 - i))])
    IN  IF dir = "ascending"
        THEN joined([b \in 1 .. bucket_total(st) |-> grouped(st, b)])
        ELSE joined([g \in DOMAIN st.layouts |-> downward(g)])

for_each ==
    /\ IF active = npos THEN result' = Call("for_each", << >>, items, 0) /\ UNCHANGED states
       ELSE \E st \in {prepare(states[active], items, val, plan)} :
            LET sorted == sort_buckets(st, 1 .. bucket_total(st), items, val)
                order == visited(sorted, direction)
            IN  /\ states' = [states EXCEPT ![active] = sorted]
                /\ result' = Call("for_each", << >>, [i \in DOMAIN order |-> items[order[i]]], 0)
    /\ UNCHANGED <<items, val, active, direction, plan>>

sort_all ==
    /\ IF active = npos THEN UNCHANGED states
       ELSE \E st \in {prepare(states[active], items, val, plan)} :
              states' = [states EXCEPT ![active] =
                            sort_buckets(st, 1 .. bucket_total(st), items, val)]
    /\ result' = Void("sort_all")
    /\ UNCHANGED <<items, val, active, direction, plan>>

rebalance(k) ==
    /\ IF find_state(k) = {} THEN result' = Thrown("rebalance") /\ UNCHANGED states
       ELSE \E i \in find_state(k) :
              /\ states' = [states EXCEPT ![i] = relayout(states[i], items, val, plan)]
              /\ result' = Void("rebalance")
    /\ UNCHANGED <<items, val, active, direction, plan>>

rebalance_all ==
    /\ states' = [i \in DOMAIN states |-> relayout(states[i], items, val, plan)]
    /\ result' = Void("rebalance_all")
    /\ UNCHANGED <<items, val, active, direction, plan>>

set_plan(pl) ==
    /\ plan' = pl
    /\ states' = [i \in DOMAIN states |-> relayout(states[i], items, val, pl)]
    /\ result' = Void("set_plan")
    /\ UNCHANGED <<items, val, active, direction>>

\* The collection with hs, whose values are vs, behind its elements.
with_added(hs, vs) ==
    [h \in DOMAIN val \cup ToSet(hs) |-> IF h \in DOMAIN val THEN val[h] ELSE vs[h]]

add(h, v) ==
    /\ IF Len(items) >= MaxItems THEN result' = Thrown("add") /\ UNCHANGED <<items, val, states>>
       ELSE /\ items' = Append(items, h)
            /\ val' = with_added(<<h>>, [x \in {h} |-> v])
            /\ states' = [i \in DOMAIN states |-> append(states[i], Len(items), items', val')]
            /\ result' = Void("add")
    /\ UNCHANGED <<active, direction, plan>>

\* The elements that fit are appended; the first that does not ends the call
\* with an exception, before any rebalancing.
add_all(hs, vs) ==
    LET fit == SubSeq(hs, 1, min(Len(hs), MaxItems - Len(items)))
        full == Len(fit) < Len(hs)
        appended(i) == append(states[i], Len(items), items', val')
    IN  /\ items' = items \o fit
        /\ val' = with_added(fit, vs)
        /\ states' = [i \in DOMAIN states |->
              IF full THEN appended(i)
              ELSE maybe_auto_rebalance(appended(i), items', val', plan)]
        /\ result' = IF full THEN Thrown("add_all") ELSE Void("add_all")
        /\ UNCHANGED <<active, direction, plan>>

\* kept: the slots whose element does not match the caller's predicate.
remove_if(kept) ==
    LET n == Len(items)
    IN  /\ IF Len(kept) = n THEN UNCHANGED <<items, val, states>>
           ELSE /\ items' = [i \in DOMAIN kept |-> items[kept[i]]]
                /\ val' = [h \in {items[kept[i]] : i \in DOMAIN kept} |-> val[h]]
                /\ states' = [i \in DOMAIN states |->
                      compact(settled(states[i], n), kept, items', val', plan)]
        /\ result' = Call("remove_if", << >>, << >>, n - Len(kept))
        /\ UNCHANGED <<active, direction, plan>>

\* Broken: a changed splitter does not make a new layout.
update_if_keeping_layout(matching, change) ==
    LET hit == {items[x] : x \in matching}
    IN  /\ val' = [h \in DOMAIN val |-> IF h \in hit THEN change[h] ELSE val[h]]
        /\ states' = [i \in DOMAIN states |-> rekey(states[i], matching, items, val')]
        /\ result' = Call("update_if", << >>, << >>, Cardinality(matching))
        /\ UNCHANGED <<items, active, direction, plan>>

\* Broken: only the active sort key learns of the change.
update_if_active_only(matching, change) ==
    LET hit == {items[x] : x \in matching}
    IN  /\ val' = [h \in DOMAIN val |-> IF h \in hit THEN change[h] ELSE val[h]]
        /\ states' = [i \in DOMAIN states |->
              IF i = active THEN resplit(rekey(states[i], matching, items, val'), items, val', plan)
              ELSE states[i]]
        /\ result' = Call("update_if", << >>, << >>, Cardinality(matching))
        /\ UNCHANGED <<items, active, direction, plan>>

\* matching: the slots that match; change: the value mutate gives to each.
update_if(matching, change) ==
    LET hit == {items[x] : x \in matching}
    IN  /\ val' = [h \in DOMAIN val |-> IF h \in hit THEN change[h] ELSE val[h]]
        /\ states' = [i \in DOMAIN states |->
              resplit(rekey(states[i], matching, items, val'), items, val', plan)]
        /\ result' = Call("update_if", << >>, << >>, Cardinality(matching))
        /\ UNCHANGED <<items, active, direction, plan>>

\* Broken: the keys and buckets of the elements that are gone stay.
clear_keeping_keys ==
    /\ items' = << >>
    /\ val' = << >>
    /\ states' = [i \in DOMAIN states |-> relayout(states[i], << >>, << >>, plan)]
    /\ result' = Void("clear")
    /\ UNCHANGED <<active, direction, plan>>

clear ==
    /\ items' = << >>
    /\ val' = << >>
    /\ states' = [i \in DOMAIN states |->
          relayout([states[i] EXCEPT !.keys = << >>, !.buckets = << >>], << >>, << >>, plan)]
    /\ result' = Void("clear")
    /\ UNCHANGED <<active, direction, plan>>
-----------------------------------------------------------------------------
\* Strictly increasing sequences of slots: every outcome of a predicate.
Ascending ==
    {s \in UNION {[1 .. m -> 1 .. MaxItems] : m \in 0 .. MaxItems} :
        \A i, j \in DOMAIN s : i < j => s[i] < s[j]}

Selections(n) == {s \in Ascending : Len(s) <= n /\ \A i \in DOMAIN s : s[i] <= n}

Fresh == Handle \ ToSet(items)

\* Bound: no more than MaxChurn changes of a layout are counted.
Bounded(m) == \A i \in DOMAIN states : states[i].churn + m <= MaxChurn

\* The same for m elements to add: those that do not fit are refused and not counted.
Room(m) == Bounded(min(m, MaxItems - Len(items)))

Read ==
    \/ \E p \in 1 .. Len(items) + 1 : at(p)
    \/ \E from \in 0 .. Len(items) : \E until \in from .. Len(items) + 1 : range(from, until)
    \/ first_page
    \/ \E x \in 1 .. Len(items) + 1 : position_if(x .. Len(items))
    \/ for_each
    \/ sort_all

Select ==
    \/ Len(states) < MaxKeys /\ \E k \in Name : add_sort_key(k)
    \/ \E k \in Name : remove_sort_key(k)
    \/ \E k \in Name, dir \in Directions : sort_by(k, dir)
    \/ unsort

Tune ==
    \/ \E k \in Name : rebalance(k)
    \/ rebalance_all
    \/ \E pl \in Plan : set_plan(pl)

Change ==
    \/ \E h \in Fresh, v \in Value : Room(1) /\ add(h, v)
    \/ \E m \in 0 .. MaxBulk : \E hs \in [1 .. m -> Fresh] :
          Room(m) /\ IsInjective(hs) /\ \E vs \in [ToSet(hs) -> Value] : add_all(hs, vs)
    \/ \E kept \in Selections(Len(items)) : Bounded(Len(items) - Len(kept)) /\ remove_if(kept)
    \/ \E matching \in {S \in SUBSET DOMAIN items : Cardinality(S) <= MaxBulk} :
          Bounded(Cardinality(matching)) /\ \E change \in [{items[x] : x \in matching} -> Value] : update_if(matching, change)
    \/ clear

Next == Read \/ Select \/ Tune \/ Change

Spec == Init /\ [][Next]_vars
-----------------------------------------------------------------------------
(* Correctness                                                             *)

Slots == DOMAIN items

KeyFields ==
    {"name", "keys", "buckets", "layouts", "counts", "splitter_slots", "splitter_changed",
     "estimated_from", "churn", "stale_checked_at", "has_order", "order_stale", "order",
     "start", "sorted_len", "moved", "ordered_slots"}

\* The shape of one KeyState over n slots.
KeyStateOK(st, n) ==
    /\ DOMAIN st = KeyFields
    /\ st.name \in Name
    /\ DOMAIN st.keys = 1 .. n /\ DOMAIN st.buckets = 1 .. n
    /\ DOMAIN st.layouts = 1 .. GroupCount[st.name]
    /\ st.churn \in Nat /\ st.stale_checked_at \in Nat \cup {npos}
    /\ st.has_order \in BOOLEAN /\ st.order_stale \in BOOLEAN
    /\ st.splitter_changed \in BOOLEAN
    /\ st.ordered_slots \in 0 .. n
    /\ st.moved \subseteq 1 .. n /\ st.splitter_slots \subseteq 1 .. n

\* Type invariant: the parallel arrays of every KeyState (keys, buckets) have one
\* entry per element and its slot numbers stay inside the collection.
TypeOK ==
    /\ items \in Seq(Handle) /\ Len(items) <= MaxItems
    /\ val \in [ToSet(items) -> Value]
    /\ Len(states) \in Nat /\ DOMAIN states = 1 .. Len(states)
    /\ \A i \in DOMAIN states : KeyStateOK(states[i], Len(items))
    /\ active \in {npos} \cup DOMAIN states
    /\ direction \in Direction
    /\ plan \in Plan

\* The cached normalized key and bucket id of every slot are what the sort key
\* and the current layout give for the element's present value, although a
\* layout can split on elements that are later changed or removed.
BucketsCurrent ==
    \A i \in DOMAIN states : \A x \in Slots :
        /\ states[i].keys[x] = key(states[i].name, val[items[x]])
        /\ states[i].buckets[x] = bucket_for(states[i], val[items[x]], states[i].keys[x], val)

\* Bucket ids follow the exact ascending order, and elements that compare equal
\* share a bucket, so sorting the bucket of a position is enough to read it: also
\* after elements a layout splits on were changed or removed, and whatever the
\* sample was that the layout was made from.
BucketsInOrder ==
    \A i \in DOMAIN states : LET st == states[i] IN st.name \in Ordering =>
        \A x, y \in Slots :
            LET c == compare(st.name, val[items[x]], val[items[y]])
            IN  /\ c < 0 => st.buckets[x] <= st.buckets[y]
                /\ c = 0 => st.buckets[x] = st.buckets[y]

\* bucket_sizes: the incrementally kept counts are the true bucket sizes.
CountsExact ==
    \A i \in DOMAIN states :
        states[i].counts = [b \in 1 .. bucket_total(states[i]) |->
                Cardinality({x \in Slots : states[i].buckets[x] = b})]

\* A grouping that is not marked stale covers every slot and has none waiting to
\* be re-placed, so a read that trusts it misses no change.
NoSlotForgotten ==
    \A i \in DOMAIN states :
        states[i].has_order /\ ~ states[i].order_stale =>
            states[i].moved = {} /\ states[i].ordered_slots = Len(items)

\* Every slot the grouping claims to hold is in it once; a slot not waiting to
\* be re-placed lies in the segment of its bucket; and no slot is forgotten.
GroupingComplete ==
    /\ NoSlotForgotten
    /\ \A i \in DOMAIN states : LET st == states[i] IN st.has_order =>
        /\ Len(st.order) = st.ordered_slots
        /\ ToSet(st.order) = 1 .. st.ordered_slots
        /\ \A b \in 1 .. Len(st.start) - 1 : \A x \in ToSet(grouped(st, b)) :
              x \in st.moved \/ st.buckets[x] = b
        /\ ~ st.order_stale => st.start = prefix_sums(st.counts)

\* The sorted prefix of every bucket, without the slots waiting to be re-placed,
\* is in exact order for the present values, unless the comparator has cycles:
\* adds, updates, removals and compactions between two reads never leave a prefix
\* trusted but unsorted.
PrefixesSorted ==
    \A i \in DOMAIN states : LET st == states[i] IN st.has_order /\ st.name \in Ordering =>
        \A b \in 1 .. Len(st.start) - 1 :
            LET s == only(SubSeq(grouped(st, b), 1, st.sorted_len[b]), Slots \ st.moved)
            IN  \A p, q \in DOMAIN s : p < q => slot_less(st, items, val, s[p], s[q])

\* Every element a layout splits on is in the collection, in a slot that
\* is_splitter recognises: no split point outlives its element.
SplittersLive ==
    Aliasing => \A i \in DOMAIN states : \A g \in DOMAIN states[i].layouts :
        \A j \in DOMAIN states[i].layouts[g].splits :
            \/ states[i].layouts[g].splits[j].elem = NoValue
            \/ \E x \in states[i].splitter_slots : states[i].layouts[g].splits[j].elem = items[x]

\* Skipping the automatic check because churn has not moved since the last one
\* never skips a rebalance that is due.
SkippedChecksAreIdle ==
    \A i \in DOMAIN states :
        (plan.auto_rebalance /\ states[i].churn = states[i].stale_checked_at)
        => ~ ( /\ states[i].churn >= max(plan.page_size, states[i].estimated_from \div 8)
               /\ is_stale(states[i], Len(items), plan) )

\* A sorted read of everything leaves the next one nothing to do but note its check
\* for staleness: a layout that was just estimated, from a sample or not, is kept and
\* no sorted work is thrown away, although the layout may be stale at once.
SettledAfterRead(st, its, vl, pl) ==
    LET ready == prepare(st, its, vl, pl)
        read  == sort_buckets(ready, 1 .. bucket_total(ready), its, vl)
        again == prepare(read, its, vl, pl)
    IN  again = [read EXCEPT !.stale_checked_at = again.stale_checked_at]

ReadCalls == {"sort_by", "unsort", "at", "range", "position_if", "for_each", "sort_all",
              "add_sort_key", "remove_sort_key"}

\* No call but a rebalance loses sorted work: selecting, reading, and adding or
\* removing sort keys keep every surviving sorted prefix of every sort key.
SortedWorkKept ==
    [][ result'.op \in ReadCalls =>
        \A i \in DOMAIN states, j \in DOMAIN states' :
            ( /\ states[i].name = states'[j].name
              /\ states[i].has_order /\ states'[j].churn = states[i].churn )
            => /\ states'[j].has_order
               /\ \A b \in DOMAIN states[i].sorted_len :
                     states'[j].sorted_len[b] >=
                        Cardinality({p \in 1 .. states[i].sorted_len[b] :
                            grouped(states[i], b)[p] \notin states[i].moved}) ]_vars

\* docs/bucketization: if a comparator has cycles, every element is still returned
\* exactly once, whatever was changed since it was sorted with that comparator.
EveryElementOnce ==
    [][ \/ result'.op = "for_each"
        \/ result'.op = "range" /\ result'.arg = <<0, Len(items)>>
        => Len(result'.out) = Len(items) /\ ToSet(result'.out) = ToSet(items) ]_vars

ActiveKey == IF active = npos THEN "" ELSE states[active].name

\* The active sort key changes only when the caller selects another, returns to
\* insertion order or removes the active one: registering or removing any other
\* key, which moves the states the index active_ points into, does not.
ActiveKeyKept ==
    [][ \/ ActiveKey' = ActiveKey
        \/ result'.op \in {"sort_by", "unsort"}
        \/ result'.op = "remove_sort_key" /\ ActiveKey' = ""
           /\ \A i \in DOMAIN states' : states'[i].name # ActiveKey ]_vars
-----------------------------------------------------------------------------
(* The index implements the collection it promises                         *)

List == INSTANCE BucketedList WITH
    names    <- [i \in DOMAIN states |-> states[i].name],
    active   <- ActiveKey,
    page     <- plan.page_size,
    PageSize <- {p.page_size : p \in Plan},
    Capacity <- MaxItems

\* Whatever was added, changed, removed, rebalanced or read before, every call
\* returns what the promised collection returns: reads are exact, in both
\* directions, with groups and with ties in insertion order.
ImplementsList == List!Spec
=============================================================================
