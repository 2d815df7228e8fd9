----------------------------- MODULE SortKeyOf -----------------------------
(***************************************************************************)
(* The sort key SortKey::of makes of a projection, and ofString and        *)
(* ofStringIgnoreCase of the Java library: its keys are those of           *)
(* NumericKeys and TextKeys; a number has no tie-breaker because its key   *)
(* is taken to be the whole value, a text has the order of whole texts.    *)
(* Pairs of elements are compared one after the other.                     *)
(***************************************************************************)
EXTENDS NumericKeys, TextKeys

VARIABLES
    type,  \* what the projection returns
    x, y   \* the projections of two elements

vars == <<type, x, y>>

\* is_exact_v: SortKey::of adds no tie-breaker.
is_exact(t) == t \in Number

key(t, v) == IF t \in Coding THEN text_key(t, v) ELSE normalize(t, v)

\* Keys as unsigned numbers: -1, 0 or 1.
key_compare(t, k, l) ==
    IF t \in Coding THEN lexicographic(k, l) ELSE IF k < l THEN -1 ELSE IF k > l THEN 1 ELSE 0

\* Keys first, then the tie-breaker if there is one.
compare(t, v, w) ==
    IF key(t, v) # key(t, w) THEN key_compare(t, key(t, v), key(t, w))
    ELSE IF is_exact(t) THEN 0 ELSE full(t, v, w)
-----------------------------------------------------------------------------
Init ==
    /\ type \in Number \cup Coding
    /\ x \in (IF type \in Number THEN Values(type) ELSE {<< >>})
    /\ y = x

\* A number is compared with every other number.
compare_with(w) == y' = w /\ UNCHANGED <<type, x>>

Letters == IF type = "bytes" THEN Byte ELSE Char

\* Texts are compared as they grow.
append_x(c) == Len(x) < MaxLength /\ x' = Append(x, c) /\ UNCHANGED <<type, y>>
append_y(c) == Len(y) < MaxLength /\ y' = Append(y, c) /\ UNCHANGED <<type, x>>
another_pair == x' = << >> /\ y' = << >> /\ UNCHANGED type

Next ==
    \/ type \in Number /\ \E w \in Values(type) : compare_with(w)
    \/ type \in Coding /\ (another_pair \/ \E c \in Letters : append_x(c) \/ append_y(c))

Spec == Init /\ [][Next]_vars
-----------------------------------------------------------------------------
(* Correctness                                                             *)

\* Integers and doubles are encoded exactly: their keys, compared as unsigned
\* numbers, are ordered as they are, and only equal ones share a key.
NumbersInOrder ==
    type \in Number \ {"long_double"} =>
        /\ normalize(type, x) \in Bits
        /\ (place(type, x) < place(type, y)) <=> (normalize(type, x) < normalize(type, y))

\* No number is put before a smaller one, long doubles included.
NeverInverted ==
    type \in Number /\ place(type, x) < place(type, y) => compare(type, x, y) <= 0

\* "Numbers are encoded exactly": a sort key without a tie-breaker tells any two
\* values of its type apart.
ExactTellsApart ==
    is_exact(type) /\ place(type, x) < place(type, y) => compare(type, x, y) < 0

\* The order by prefix key and tie-breaker is the order of the whole texts: no
\* key puts a text before a smaller one, wherever the key is cut off.
PrefixKeysFaithful == type \in Coding => compare(type, x, y) = full(type, x, y)

IsAscii(text) == \A i \in DOMAIN text : 0 < text[i] /\ text[i] < 128

folded(how, text) == [i \in DOMAIN text |-> IF how = "ignore_case" THEN Fold[text[i]] ELSE text[i]]

KeyHead(text) == SubSeq(text, 1, IF Len(text) < KeyBytes THEN Len(text) ELSE KeyBytes)

\* "The key covers the first eight ASCII characters": ASCII texts that differ
\* there have different keys, so the tie-breaker is not asked.
AsciiPrefixDecides ==
    type \in Coding =>
        LET a == folded(type, x)
            b == folded(type, y)
        IN  IsAscii(a) /\ IsAscii(b) /\ KeyHead(a) # KeyHead(b) => key(type, x) # key(type, y)
=============================================================================
