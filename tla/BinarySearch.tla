---------------------------- MODULE BinarySearch ----------------------------
(***************************************************************************)
(* The searches in sorted arrays of int64_t: the C function with its       *)
(* choice of a backend (src/algorithms/binary_search, src/core/dispatch.c) *)
(* and the three assembly routines (binary_search_win64.asm).  They differ *)
(* in how they compute the middle and in when they load the element: the   *)
(* pipelined routine loads the next one before it jumps back and compares  *)
(* a register that was filled in the iteration before.                     *)
(*                                                                         *)
(* Arrays are functions on 0 .. size - 1, so a read outside the array is   *)
(* an evaluation error.  One step is one iteration of a loop.              *)
(***************************************************************************)
EXTENDS Integers

CONSTANTS
    Half,     \* a register holds 2 * Half values: 2^63 for int64_t
    Element,  \* what arrays hold and callers look for
    MaxSize,  \* bound: the longest array
    Sizes     \* bound: the lengths of which every array is searched

ASSUME BinarySearchAssumption ==
    /\ Half \in Nat \ {0}
    /\ Element \subseteq Int
    /\ MaxSize \in Nat /\ MaxSize < Half
    /\ Sizes \subseteq 0 .. MaxSize

VARIABLES
    preference,  \* g_pref
    routine,     \* the code that runs
    array, size, key,
    left, right, mid,
    loaded,      \* rdx of the pipelined routine
    pc,          \* "done" between calls, "enter" before the loop, "loop" in it,
                 \* "narrow" in the loop of a SIMD search (module SimdSearch)
    answer

vars == <<preference, routine, array, size, key, left, right, mid, loaded, pc, answer>>

call == <<routine, array, size, key>>

Preference == {"AUTO", "FORCE_CPU", "FORCE_CUDA", "FORCE_OPENCL"}
Assembly   == {"branching", "branchless", "pipelined"}
Simd       == {"simd", "simd_optimized"}
Routine    == {"ref"} \cup Assembly \cup Simd

not_found == -1

Arrays(n) == [0 .. n - 1 -> Element]
-----------------------------------------------------------------------------
(* The choice of a backend                                                 *)

cuda_available == FALSE
opencl_available == FALSE
cuda_binary_search_stub == -1
opencl_binary_search_stub == -1

\* Broken: a stub that fails counts as an answer.
dispatched_to_failing_stub(pref) ==
    IF \/ pref = "FORCE_CUDA" /\ cuda_binary_search_stub # 0
       \/ pref = "FORCE_OPENCL" /\ opencl_binary_search_stub # 0
    THEN "gpu" ELSE "ref"

\* The routine that answers a call of speedup_binary_search_i64.
dispatched(pref) ==
    IF \/ pref \in {"FORCE_CUDA", "AUTO"} /\ cuda_available /\ cuda_binary_search_stub = 0
       \/ pref \in {"FORCE_OPENCL", "AUTO"} /\ opencl_available /\ opencl_binary_search_stub = 0
    THEN "gpu" ELSE "ref"

set_backend_preference(pref) ==
    /\ pc = "done"
    /\ preference' = pref
    /\ UNCHANGED <<call, left, right, mid, loaded, pc, answer>>
-----------------------------------------------------------------------------
(* The searches                                                            *)

\* What add leaves in a register, read as an unsigned number.
wrapped(x) == IF x >= 2 * Half THEN x - 2 * Half ELSE x

midpoint(l, r) ==
    IF routine = "ref" THEN l + (r - l) \div 2 ELSE wrapped(l + r) \div 2

Init ==
    /\ preference = "AUTO"
    /\ routine = "ref"
    /\ size = 0 /\ array \in Arrays(0) /\ key \in Element
    /\ left = 0 /\ right = -1 /\ mid = 0
    /\ loaded = key
    /\ pc = "done"
    /\ answer = not_found

\* Broken: the right end starts behind the last element.
begin_past_the_end(r, n, a, k) ==
    /\ pc = "done"
    /\ routine' = r /\ size' = n /\ array' = a /\ key' = k
    /\ left' = 0 /\ right' = n
    /\ mid' = 0 /\ loaded' = k
    /\ answer' = not_found
    /\ UNCHANGED preference

\* The registers a routine starts with; it writes mid, loaded and answer before
\* it reads them.
begin(r, n, a, k) ==
    /\ pc = "done"
    /\ routine' = r /\ size' = n /\ array' = a /\ key' = k
    /\ left' = 0 /\ right' = n - 1
    /\ mid' = 0 /\ loaded' = k
    /\ answer' = not_found
    /\ UNCHANGED preference

\* The C function: a backend that takes the call answers -1.
speedup_binary_search_i64(n, a, k) ==
    /\ begin("ref", n, a, k)
    /\ pc' = IF dispatched(preference) = "gpu" THEN "done" ELSE "loop"

\* A direct call of an assembly routine.
binary_search_win64(r, n, a, k) == begin(r, n, a, k) /\ pc' = "enter"

return(x) ==
    /\ answer' = x
    /\ pc' = "done"
    /\ UNCHANGED <<preference, call, left, right, mid, loaded>>

\* Up to the first jump to the top of the loop.
enter ==
    /\ pc = "enter"
    /\ IF routine # "pipelined"
       THEN /\ pc' = "loop"
            /\ UNCHANGED <<preference, call, left, right, mid, loaded, answer>>
       ELSE IF left > right THEN return(not_found)
       ELSE /\ mid' = midpoint(left, right)
            /\ loaded' = array[midpoint(left, right)]
            /\ pc' = "loop"
            /\ UNCHANGED <<preference, call, left, right, answer>>

\* Broken: the left end is moved to the middle and not behind it.
iterate_without_progress ==
    LET m == midpoint(left, right)
    IN  /\ pc = "loop" /\ routine # "pipelined"
        /\ IF left > right THEN return(not_found)
           ELSE IF array[m] = key THEN return(m)
           ELSE /\ left'  = IF array[m] < key THEN m ELSE left
                /\ right' = IF array[m] > key THEN m - 1 ELSE right
                /\ mid' = m
                /\ UNCHANGED <<preference, call, loaded, pc, answer>>

\* The loop of the C function, the branching and the branchless routine.
iterate ==
    LET m == midpoint(left, right)
    IN  /\ pc = "loop" /\ routine # "pipelined"
        /\ IF left > right THEN return(not_found)
           ELSE IF array[m] = key THEN return(m)
           ELSE /\ left'  = IF array[m] < key THEN m + 1 ELSE left
                /\ right' = IF array[m] > key THEN m - 1 ELSE right
                /\ mid' = m
                /\ UNCHANGED <<preference, call, loaded, pc, answer>>

\* The loop of the pipelined routine: compare what was loaded, then load ahead.
pipeline ==
    LET l == IF loaded < key THEN mid + 1 ELSE left
        r == IF loaded > key THEN mid - 1 ELSE right
    IN  /\ pc = "loop" /\ routine = "pipelined"
        /\ IF loaded = key THEN return(mid)
           ELSE IF l > r THEN return(not_found)
           ELSE /\ left' = l /\ right' = r
                /\ mid' = midpoint(l, r)
                /\ loaded' = array[midpoint(l, r)]
                /\ UNCHANGED <<preference, call, pc, answer>>

Run == enter \/ iterate \/ pipeline

Next ==
    \/ \E pref \in Preference : set_backend_preference(pref)
    \/ \E n \in Sizes, k \in Element : \E a \in Arrays(n) :
          \/ speedup_binary_search_i64(n, a, k)
          \/ \E r \in Assembly : binary_search_win64(r, n, a, k)
    \/ Run

\* A running routine is not suspended forever.
Spec == Init /\ [][Next]_vars /\ WF_vars(Run)
-----------------------------------------------------------------------------
(* Correctness                                                             *)

Sorted == \A i, j \in 0 .. size - 1 : i <= j => array[i] <= array[j]

Occurs(x) == \E i \in 0 .. size - 1 : array[i] = x

\* Type invariant: the bounds stay inside the registers and within one of the
\* array, also when the search runs off either end.
TypeOK ==
    /\ preference \in Preference /\ routine \in Routine
    /\ size \in 0 .. MaxSize /\ array \in Arrays(size) /\ key \in Element
    /\ left \in 0 .. size /\ right \in -1 .. size - 1
    /\ mid \in 0 .. MaxSize
    /\ loaded \in Element
    /\ pc \in {"enter", "loop", "narrow", "done"}
    /\ answer \in {not_found} \cup 0 .. MaxSize - 1

\* Every routine, whatever the backend preference, answers with a place of the
\* key, and with -1 only if a sorted array does not hold it.
FindsKey ==
    pc = "done" /\ answer # not_found => answer < size /\ array[answer] = key
MissesOnlyAbsent ==
    pc = "done" /\ answer = not_found /\ Sorted => ~ Occurs(key)

\* The answer is right, as the reference search of the tests has it.
AnswersRight == FindsKey /\ MissesOnlyAbsent

\* Every call returns, also when the array is not sorted.
EveryCallReturns == pc # "done" ~> pc = "done"
=============================================================================
