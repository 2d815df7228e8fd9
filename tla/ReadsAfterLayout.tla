-------------------------- MODULE ReadsAfterLayout --------------------------
(***************************************************************************)
(* Sorted reads of the index for the collections, sort keys and plans of   *)
(* LayoutEstimation: they are large enough for samples that miss elements, *)
(* which those of the index runs are not.                                  *)
(***************************************************************************)
EXTENDS LayoutEstimation

\* The elements are handles, named by their slots.
slots(m) == [x \in 1 .. m |-> x]

Index == INSTANCE BucketIndex WITH
    Handle <- 1 .. MaxItems, Aliasing <- TRUE,
    MaxBulk <- MaxItems, MaxChurn <- MaxItems, MaxKeys <- 1, Directions <- {"ascending"},
    items <- slots(Len(vals)), val <- vals, states <- << >>, active <- -1,
    direction <- "ascending", result <- << >>

\* The plan of the collection, with a sample that misses an element and a low limit,
\* so that a layout is stale at once when the missed one is in the wrong bucket.
thrifty == [plan EXCEPT !.sample_size = max(1, Len(vals) - 1), !.rebalance_skew = <<3, 2>>]

\* The sort key's state when its layout was estimated for the first half of the
\* elements and the others were added since.
grown ==
    LET m == Len(vals) \div 2
        first == SubSeq(vals, 1, m)
        laid_out == Index!relayout(Index!new_state(k, keys(first)), slots(m), first, thrifty)
    IN  Index!append(laid_out, m, slots(Len(vals)), vals)

\* bucketed_list.hpp:77-79: what one sorted read has sorted, the next finds sorted.
\* The first may estimate a new layout, and one from a sample can be stale at once; that
\* automatic rebalancing does not estimate it again at every read, and throw all sorted
\* work away, rests on waiting for enough changes (maybe_auto_rebalance).
ReadsSettle ==
    plan \in Plan => Index!SettledAfterRead(grown, slots(Len(vals)), vals, thrifty)
=============================================================================
