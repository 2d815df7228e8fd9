---------------------------- MODULE IndexQueries ----------------------------
(***************************************************************************)
(* What the index tells its caller about buckets without changing          *)
(* anything (bucket_index.hpp: stats, needs_rebalance), as functions of    *)
(* the KeyState that was asked for.  max_skew is a fraction like           *)
(* rebalance_skew: <<elements, size they are measured against>>.           *)
(***************************************************************************)
EXTENDS BucketIndex

exceeds(a, b) == a[1] * b[2] > b[1] * a[2]

\* Broken: the cheaper end of the order is charged in both directions.
first_page_cost_one_way(st, dir, page) ==
    LET charged[b \in 0 .. bucket_total(st)] ==
            IF b = 0 THEN 0
            ELSE IF charged[b - 1] < page THEN charged[b - 1] + st.counts[b] ELSE charged[b - 1]
    IN  charged[bucket_total(st)]

\* The sizes of the buckets that show the first page, up from the first bucket
\* or, descending, group by group and down through the buckets of each.
first_page_cost(st, dir, page) ==
    LET off == group_offset(st)
        downward(g) == [i \in 1 .. off[g + 1] - off[g] |-> off[g + 1] + 1 - i]
        order == IF dir = "ascending" THEN interval(0, bucket_total(st))
                 ELSE FlattenSeq([g \in DOMAIN st.layouts |-> downward(g)])
    IN  FoldLeft(LAMBDA cost, b : IF cost < page THEN cost + st.counts[b] ELSE cost, 0, order)

stats(st) ==
    LET skews == {<<st.counts[b], skew_floor(st, b, plan)>> : b \in DOMAIN st.counts}
        page  == min(plan.page_size, Len(items))
    IN  [ size            |-> Len(items),
          bucket_count    |-> bucket_total(st),
          actual_sizes    |-> st.counts,
          expected_sizes  |-> expected(st),
          empty_buckets   |-> Cardinality({b \in DOMAIN st.counts : st.counts[b] = 0}),
          sorted_buckets  |-> Cardinality({b \in DOMAIN st.counts :
                st.has_order /\ ~ st.order_stale /\ st.sorted_len[b] = st.counts[b]}),
          max_skew        |-> CHOOSE s \in skews : \A t \in skews : ~ exceeds(t, s),
          first_page_cost |-> [dir \in Direction |-> first_page_cost(st, dir, page)],
          needs_rebalance |-> is_stale(st, Len(items), plan) ]
-----------------------------------------------------------------------------
\* bucketed_list.hpp: first_page_cost counts the elements to sort before the first
\* page shows.  Unless the read estimates a new layout first, those are the buckets
\* range() sorts for it, for pages of any size, in both directions and whatever was
\* changed since the buckets were last grouped; and when all buckets are reported
\* sorted, no read has any work left.
StatsTrue ==
    \A i \in DOMAIN states : \A ready \in {prepare(states[i], items, val, plan)} :
        LET st   == states[i]
            told == stats(st)
            size == [b \in DOMAIN ready.sorted_len |-> Len(grouped(ready, b))]
        IN  ready.churn = st.churn =>
                /\ \A dir \in Direction, page \in DOMAIN items :
                      first_page_cost(st, dir, page) =
                          SumFunctionOnSet(size, buckets_shown(ready, Len(items), dir, 0, page))
                /\ told.sorted_buckets = told.bucket_count =>
                      sort_buckets(ready, 1 .. bucket_total(st), items, val) =
                          [st EXCEPT !.stale_checked_at = ready.stale_checked_at]
=============================================================================
