--------------------------- MODULE NaturalCompare ---------------------------
(***************************************************************************)
(* The comparator of the file browser's "natural" sort key                 *)
(* (examples/bucketization/file_browser.cpp): numbers inside names are     *)
(* compared by value, letters without case, and equal names by their       *)
(* bytes.  A sort key made of a comparator has no key: the index sorts     *)
(* with it alone, so it has to be a total order of names.                  *)
(***************************************************************************)
EXTENDS SortKeyOf

digit(c) == c \in 48 .. 57
zero(c) == c = 48

\* tolower in the "C" locale.
lower(c) == IF c \in 65 .. 90 THEN c + 32 ELSE c

sign(m, n) == IF m < n THEN -1 ELSE IF m > n THEN 1 ELSE 0

\* The first place from i on where the text is not in the class, or its end.
skip(text, i, Class(_)) ==
    CHOOSE e \in i .. Len(text) + 1 :
        /\ e <= Len(text) => ~ Class(text[e])
        /\ \A k \in i .. e - 1 : Class(text[k])

\* Broken: leading zeros count as digits of the number.
significant_with_zeros(text, i) == SubSeq(text, i, skip(text, i, digit) - 1)

\* The number at i without its leading zeros.
significant(text, i) ==
    LET s == skip(text, i, zero) IN SubSeq(text, s, skip(text, s, digit) - 1)

natural_compare(a, b) ==
    LET from[i \in 1 .. Len(a) + 1, j \in 1 .. Len(b) + 1] ==
            IF i > Len(a) \/ j > Len(b)
            THEN IF Len(a) - i # Len(b) - j THEN sign(Len(a) - i, Len(b) - j)
                 ELSE lexicographic(a, b)
            ELSE IF digit(a[i]) /\ digit(b[j])
            THEN LET m == significant(a, i)
                     n == significant(b, j)
                 IN  IF Len(m) # Len(n) THEN sign(Len(m), Len(n))
                     ELSE IF m # n THEN lexicographic(m, n)
                     ELSE from[skip(a, i, digit), skip(b, j, digit)]
            ELSE IF lower(a[i]) # lower(b[j]) THEN sign(lower(a[i]), lower(b[j]))
            ELSE from[i + 1, j + 1]
    IN  from[1, 1]
-----------------------------------------------------------------------------
(* Correctness                                                             *)

\* A name as the numbers and the letters it is made of, a number behind a mark
\* that sorts among the letters as digits do.
Parts(text) ==
    FlattenSeq([i \in DOMAIN text |->
        IF ~ digit(text[i]) THEN <<lower(text[i])>>
        ELSE IF i > 1 /\ digit(text[i - 1]) THEN << >>
        ELSE <<48, FoldLeft(LAMBDA value, c : 10 * value + c - 48, 0,
                            SubSeq(text, i, skip(text, i, digit) - 1))>>])

\* "Equal names fall back to byte order so the order is total": natural_compare
\* orders names by their parts and then by their bytes, so it is transitive and
\* tells any two names apart, however zeros, case and numbers are mixed.
NaturalIsTotal ==
    type = "bytes" =>
        natural_compare(x, y) =
            LET c == lexicographic(Parts(x), Parts(y)) IN IF c # 0 THEN c ELSE lexicographic(x, y)
=============================================================================
