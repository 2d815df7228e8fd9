------------------------------ MODULE SortKey ------------------------------
(***************************************************************************)
(* A sort key of the library (include/speedup/bucketization/sort_key.hpp): *)
(* an optional normalized key, an optional comparator and an optional      *)
(* group function, all supplied by the caller.  The model describes them   *)
(* by constant functions on the values an element can have, so that one    *)
(* specification covers keyed, comparator-only and grouped sort keys.      *)
(* Groups are numbered from 1 here and from 0 in the code.                 *)
(***************************************************************************)
EXTENDS Integers

CONSTANTS
    Value,      \* what a sort key can see of an element
    Name,       \* names of the sort keys a caller may register
    HasKey,     \* HasKey[k]: of_key rather than of_comparator
    KeyOf,      \* KeyOf[k][v]: the caller's key function
    CompareOf,  \* CompareOf[k][v][w] in {-1, 0, 1}: tie-breaker or comparator
    GroupCount, \* GroupCount[k]: with_groups' first argument, 1 without groups
    GroupOf     \* GroupOf[k][v]: the caller's group function

ASSUME SortKeyAssumption ==
    /\ "" \notin Name    \* the constructor refuses an empty name
    /\ HasKey \in [Name -> BOOLEAN]
    /\ KeyOf \in [Name -> [Value -> Nat]]
    /\ CompareOf \in [Name -> [Value -> [Value -> {-1, 0, 1}]]]
    /\ GroupCount \in [Name -> Nat \ {0}]
    /\ \A k \in Name : GroupOf[k] \in [Value -> 1 .. GroupCount[k]]

has_key(k) == HasKey[k]

\* The normalized key; 0 for a comparator-only sort key, where callers pass 0.
key(k, v) == IF HasKey[k] THEN KeyOf[k][v] ELSE 0

group(k, v) == GroupOf[k][v]

tie_break(k, v, w) == CompareOf[k][v][w]

\* The exact ascending order: group, then key, then tie-breaker.
compare(k, v, w) ==
    IF group(k, v) # group(k, w)
    THEN IF group(k, v) < group(k, w) THEN -1 ELSE 1
    ELSE IF key(k, v) # key(k, w)
         THEN IF key(k, v) < key(k, w) THEN -1 ELSE 1
         ELSE tie_break(k, v, w)

\* The sort keys whose functions order the values: asked both ways round they
\* agree, and "no greater than" is transitive.
Ordering ==
    {k \in Name : \A u, v, w \in Value :
        /\ compare(k, u, v) = 0 - compare(k, v, u)
        /\ compare(k, u, v) <= 0 /\ compare(k, v, w) <= 0 => compare(k, u, w) <= 0}
=============================================================================
