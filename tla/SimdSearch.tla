----------------------------- MODULE SimdSearch -----------------------------
(***************************************************************************)
(* The two AVX2 searches of the Windows benchmark (legacy/benchmark_win.c).*)
(* A round compares four elements of the range at once, the last of them   *)
(* being the last of the range, and keeps what lies between the two the    *)
(* key is between.  When the range is short, one hands over to the loop of *)
(* the C search, the other to the pipelined loop.  Half as the sum of two  *)
(* bounds is l + (r - l) / 2 as long as the sum fits a register, which     *)
(* TypeOK of BinarySearch says it does.                                    *)
(***************************************************************************)
EXTENDS BinarySearch

CONSTANTS
    LongCalls,  \* bound: the arrays and keys SIMD searches are called with
    Preceding   \* bound: the lengths of the arrays searched right before

ASSUME SimdSearchAssumption ==
    \A c \in LongCalls : c.size \in 0 .. MaxSize /\ c.array \in Arrays(c.size) /\ c.key \in Element

\* Shorter arrays are left to the C search.
shortest == 32

\* A range that is no longer than that is searched element by element.
scalar_range(r) == IF r = "simd" THEN 16 ELSE 32
-----------------------------------------------------------------------------
simd_binary_search(r, n, a, k) ==
    /\ begin(IF n < shortest THEN "ref" ELSE r, n, a, k)
    /\ pc' = IF n < shortest THEN "loop" ELSE "narrow"

\* The four elements a round looks at.
probes ==
    LET quarter == (right - left + 1) \div 4
    IN  <<left + quarter, left + quarter * 2, left + quarter * 3, right>>

\* Broken: the lanes are filled in the order the intrinsic lists its arguments,
\* the highest first.
lanes_from_the_highest(pos) == [i \in 1 .. 4 |-> array[pos[5 - i]]]

\* The vector of the elements there.
lanes(pos) == [i \in 1 .. 4 |-> array[pos[i]]]

\* How many probes are smaller when it is the first ones; none of the code's cases
\* matches another set, which is then treated like the empty one.
leading(less) ==
    IF \E c \in 1 .. 4 : less = 1 .. c THEN CHOOSE c \in 1 .. 4 : less = 1 .. c ELSE 0

\* One round: the first probe that is equal is the answer; else the probes that
\* are smaller, the first c of them, bound what remains.
narrow ==
    LET pos   == probes
        value == lanes(pos)
        equal == {i \in 1 .. 4 : value[i] = key}
        c     == leading({i \in 1 .. 4 : value[i] < key})
    IN  /\ pc = "narrow" /\ right - left > scalar_range(routine)
        /\ IF equal # {} THEN return(pos[CHOOSE i \in equal : \A j \in equal : i <= j])
           ELSE /\ left'  = IF c > 0 THEN pos[c] + 1 ELSE left
                /\ right' = IF c < 4 THEN pos[c + 1] - 1 ELSE right
                /\ UNCHANGED <<preference, call, mid, loaded, pc, answer>>

\* The loop for what remains: that of the C search, or the pipelined one with its
\* read ahead of the loop.
hand_over ==
    /\ pc = "narrow" /\ right - left <= scalar_range(routine)
    /\ routine' = IF routine = "simd" THEN "ref" ELSE "pipelined"
    /\ pc' = IF routine = "simd" THEN "loop" ELSE "enter"
    /\ UNCHANGED <<preference, array, size, key, left, right, mid, loaded, answer>>

SimdNext ==
    \/ Next
    \/ /\ size \in Preceding
       /\ \E c \in LongCalls, r \in Simd : simd_binary_search(r, c.size, c.array, c.key)
    \/ narrow
    \/ hand_over

\* A running routine is not suspended forever.
SimdSpec == Init /\ [][SimdNext]_vars /\ WF_vars(Run \/ narrow \/ hand_over)
=============================================================================
