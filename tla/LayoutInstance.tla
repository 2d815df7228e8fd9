--------------------------- MODULE LayoutInstance ---------------------------
(***************************************************************************)
(* Values, sort keys and plans the layout runs use: five values under four *)
(* sort keys that together have exact keys, colliding keys with a          *)
(* tie-breaker, ties, a comparator, and groups; plans of every kind.       *)
(***************************************************************************)
EXTENDS Integers

MCValue == 1 .. 5

sign(x) == IF x < 0 THEN -1 ELSE IF x > 0 THEN 1 ELSE 0

MCName == {"exact", "prefix", "compare", "folders"}

MCHasKey == [n \in MCName |-> n # "compare"]

\* "exact": a number, with ties between 1 and 2.  "prefix": a string prefix, equal
\* for 1..3.  "folders": 1 and 2 are folders; 3 and 4 collide.
MCKeyOf ==
    [n \in MCName |->
        CASE n = "exact"   -> <<1, 1, 2, 3, 4>>
          [] n = "prefix"  -> <<1, 1, 1, 2, 2>>
          [] n = "compare" -> <<0, 0, 0, 0, 0>>
          [] n = "folders" -> <<2, 1, 1, 1, 2>>]

MCRank ==
    [n \in MCName |->
        CASE n = "exact"   -> <<0, 0, 0, 0, 0>>
          [] n = "prefix"  -> <<1, 2, 3, 4, 5>>
          [] n = "compare" -> <<3, 1, 1, 2, 4>>
          [] n = "folders" -> <<1, 2, 3, 4, 5>>]

MCCompareOf ==
    [n \in MCName |-> [v \in MCValue |-> [w \in MCValue |->
        sign(MCRank[n][v] - MCRank[n][w])]]]

MCGroupCount == [n \in MCName |-> IF n = "folders" THEN 2 ELSE 1]

MCGroupOf ==
    [n \in MCName |-> [v \in MCValue |->
        IF n = "folders" /\ v > 2 THEN 2 ELSE 1]]

MCRng == <<[j \in 1 .. 8 |-> 0], [j \in 1 .. 8 |-> j]>>

base == [kind |-> "geometric", page_size |-> 1, growth |-> <<2, 1>>, max_buckets |-> 4,
         symmetric |-> TRUE, sizes |-> << >>, sample_size |-> 2048, seed |-> 1,
         rebalance_skew |-> <<4, 1>>, auto_rebalance |-> TRUE]

MCPlan ==
    { base,
      [base EXCEPT !.growth = <<3, 2>>, !.symmetric = FALSE],
      [base EXCEPT !.sample_size = 3, !.seed = 2, !.growth = <<1, 1>>],
      [base EXCEPT !.kind = "first_page", !.page_size = 2],
      [base EXCEPT !.kind = "uniform", !.max_buckets = 3],
      [base EXCEPT !.kind = "sizes", !.page_size = 2, !.sizes = <<2, 1, 5>>] }

\* What callers pass to the factories and the with_... functions.
MCGrowths == {<<1, 2>>, <<1, 1>>, <<3, 2>>, <<2, 1>>}
MCSizeLists == {<< >>, <<2, 0, 1>>, <<2, 1, 5>>, <<1, 1, 1, 1>>}
MCSkews == {<<1, 1>>, <<2, 1>>}
=============================================================================
