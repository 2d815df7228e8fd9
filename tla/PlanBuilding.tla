---------------------------- MODULE PlanBuilding ----------------------------
(***************************************************************************)
(* How callers come by a plan (bucket_plan.hpp): a factory makes one, the  *)
(* with_... functions make changed copies of it, both refuse what would    *)
(* make no sense, and target_sizes is asked for any number of elements.    *)
(*                                                                         *)
(* size_t holds the numbers below Word.  Of a double only this matters:    *)
(* from Word / 2 on, where the code has 2^63, doubles are Ulp apart, so    *)
(* that a page size close to Word becomes Word itself.                     *)
(***************************************************************************)
EXTENDS BucketPlan

CONSTANTS
    Word,                 \* size_t is 0 .. Word - 1
    Ulp,                  \* distance of the doubles between Word / 2 and Word
    default_page_size,
    default_max_buckets,
    max_bucket_limit,
    max_sample_size,
    PageSizes,            \* bound: the arguments callers pass, valid or not
    Growths,
    BucketCounts,
    SizeLists,
    SampleSizes,
    Seeds,
    Skews,
    MaxElements           \* bound: the largest collection target_sizes is asked for

VARIABLE plan

\* The plan every factory starts from: the initialisers of the fields.
initial(kind) ==
    [kind |-> kind, page_size |-> default_page_size, growth |-> <<2, 1>>,
     max_buckets |-> default_max_buckets, symmetric |-> TRUE, sizes |-> << >>,
     sample_size |-> 2048, seed |-> 1, rebalance_skew |-> <<4, 1>>,
     auto_rebalance |-> TRUE]

positive(S) == {x \in S : x > 0}

at_least(q, x) == q[1] >= x * q[2]

first_page == {[initial("first_page") EXCEPT !.page_size = p] : p \in positive(PageSizes)}

geometric_plan(p, g) == [initial("geometric") EXCEPT !.page_size = p, !.growth = g]

geometric ==
    {geometric_plan(p, g) : p \in positive(PageSizes), g \in {q \in Growths : at_least(q, 1)}}

uniform ==
    {[initial("uniform") EXCEPT !.max_buckets = min(m, max_bucket_limit)] :
        m \in positive(BucketCounts)}

of_sizes ==
    {[initial("sizes") EXCEPT !.page_size = s[1], !.sizes = s] :
        s \in {t \in SizeLists : t # << >> /\ \A i \in DOMAIN t : t[i] > 0}}

Init == plan \in first_page \cup geometric \cup uniform \cup of_sizes

\* A copy of the plan, unless the argument is refused.
copy(accepted, changed) == plan' = IF accepted THEN changed ELSE plan

with_page_size(p) == copy(p > 0, [plan EXCEPT !.page_size = p])

with_max_buckets_of(m) == copy(m > 0, with_max_buckets(plan, m, max_bucket_limit))

with_symmetric(s) == copy(TRUE, [plan EXCEPT !.symmetric = s])

with_sample_size(s) == copy(s > 0, [plan EXCEPT !.sample_size = min(s, max_sample_size)])

with_seed(s) == copy(TRUE, [plan EXCEPT !.seed = s])

with_rebalance_skew(q) == copy(q[1] > q[2], [plan EXCEPT !.rebalance_skew = q])

with_auto_rebalance(a) == copy(TRUE, [plan EXCEPT !.auto_rebalance = a])

Build ==
    \/ \E p \in PageSizes : with_page_size(p)
    \/ \E m \in BucketCounts : with_max_buckets_of(m)
    \/ \E s \in BOOLEAN : with_symmetric(s)
    \/ \E s \in SampleSizes : with_sample_size(s)
    \/ \E s \in Seeds : with_seed(s)
    \/ \E q \in Skews : with_rebalance_skew(q)
    \/ \E a \in BOOLEAN : with_auto_rebalance(a)

BuildSpec == Init /\ [][Build]_plan
-----------------------------------------------------------------------------
(* Target sizes with the widths of the code                                *)

\* The double nearest to x, ties to the even one.
double(x) ==
    LET below == x \div Ulp
        rest  == 2 * (x % Ulp)
    IN  IF x < Word \div 2 THEN x
        ELSE IF rest < Ulp \/ (rest = Ulp /\ below % 2 = 0) THEN below * Ulp
        ELSE (below + 1) * Ulp

\* Converting a double that is no size_t back is undefined: any step may come out.
\* The size of the next bucket is the number of elements then.
sizes_from_any_step(n) ==
    {geometric_rest(plan, n, [geometric_step(plan, n, [geometric_start(plan, n) EXCEPT !.num = step])
                                 EXCEPT !.num = n, !.den = 1]) : step \in 0 .. Word - 1}

\* What target_sizes may return for n elements.
possible_sizes(n) ==
    IF n > 0 /\ plan.kind = "geometric" /\ plan.max_buckets > 1 /\ double(plan.page_size) >= Word
    THEN sizes_from_any_step(n) ELSE {target_sizes(plan, n)}
-----------------------------------------------------------------------------
(* Correctness                                                             *)

\* bucket_plan.hpp: whatever a caller built, the target sizes are positive, add
\* up to n and keep to the bucket limit.  The layout code reads the sample behind
\* every target but the last and relies on the last one being positive.
BuiltPlansPartition ==
    \A n \in 0 .. MaxElements : \A t \in possible_sizes(n) :
        /\ Len(t) \in 1 .. plan.max_buckets
        /\ n > 0 => \A i \in DOMAIN t : t[i] > 0
        /\ total(t) = n

\* bucket_plan.hpp: geometric buckets "start one page long", and a symmetric plan
\* makes descending order as cheap as ascending: its last bucket is one page too.
EndsOnePageLong ==
    (plan.kind \in {"geometric", "first_page"} /\ plan.max_buckets >= 3) =>
        \A n \in 1 .. MaxElements : \A t \in possible_sizes(n) :
            /\ t[1] = min(plan.page_size, n)
            /\ plan.symmetric /\ n >= 2 * plan.page_size => Last(t) = plan.page_size
=============================================================================
