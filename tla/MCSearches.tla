----------------------------- MODULE MCSearches -----------------------------
(***************************************************************************)
(* An instance of SimdSearch.  The lengths are on either side of where a   *)
(* SIMD search starts, and long enough that each of the two narrows the    *)
(* range twice before it hands it over.                                    *)
(***************************************************************************)
EXTENDS SimdSearch

\* What decides the course of a search of a sorted array: how many elements are
\* smaller than the key and how many are equal.
stepped(n, smaller, equal) ==
    [i \in 0 .. n - 1 |-> IF i < smaller THEN 1 ELSE IF i < smaller + equal THEN 2 ELSE 3]

MCLongCalls ==
    {[size |-> n, array |-> stepped(n, smaller, equal), key |-> 2] :
        n \in {31, 32, 33, 80, 141}, smaller \in 0 .. 141, equal \in 0 .. 2}
=============================================================================
