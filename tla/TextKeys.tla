------------------------------ MODULE TextKeys ------------------------------
(***************************************************************************)
(* Texts as sort keys: the prefix of a text packed into the bytes of a     *)
(* 64-bit key, from bytes in keys.hpp, from UTF-16 code units in Keys.java *)
(* (with and without folding of case), and the sort key made of it, whose  *)
(* tie-breaker compares the whole texts.                                   *)
(*                                                                         *)
(* A key is the sequence of its bytes, first the most significant one, so  *)
(* unsigned comparison of keys is lexicographic comparison of sequences of *)
(* the same length.                                                        *)
(***************************************************************************)
EXTENDS Integers, Sequences, SequencesExt

CONSTANTS
    Byte,       \* the bytes C++ strings are made of
    Char,       \* the code units Java strings are made of
    Fold,       \* Fold[c]: toLowerCase(toUpperCase(c))
    KeyBytes,   \* a key has that many bytes: 8
    MaxLength   \* bound: the longest text

numbers_below(n) == {c \in Nat : c < n}

ASSUME TextKeysAssumption ==
    /\ Byte \subseteq numbers_below(256) /\ Char \subseteq numbers_below(65536)
    /\ Fold \in [Char -> numbers_below(65536)]
    /\ KeyBytes \in Nat \ {0} /\ MaxLength \in Nat

\* How texts are encoded and compared.
Coding == {"bytes", "chars", "ignore_case"}

\* Lexicographic order of sequences of numbers, a prefix first: -1, 0 or 1.
lexicographic(a, b) ==
    LET differ == {i \in 1 .. (IF Len(a) < Len(b) THEN Len(a) ELSE Len(b)) : a[i] # b[i]}
    IN  IF differ = {}
        THEN IF Len(a) < Len(b) THEN -1 ELSE IF Len(a) > Len(b) THEN 1 ELSE 0
        ELSE LET i == CHOOSE i \in differ : \A j \in differ : i <= j
             IN  IF a[i] < b[i] THEN -1 ELSE 1
-----------------------------------------------------------------------------
(* The encodings                                                           *)

\* Broken: short texts are packed to the right.
from_bytes_unpadded(text) ==
    [i \in 1 .. KeyBytes |->
        IF i > KeyBytes - Len(text) THEN text[i - (KeyBytes - Len(text))] ELSE 0]

\* The first bytes of the text, padded with zeros.
from_bytes(text) == [i \in 1 .. KeyBytes |-> IF i <= Len(text) THEN text[i] ELSE 0]

\* Broken: every code unit takes two bytes.
encoded_in_two(c) == <<c \div 256, c % 256>>

\* One code unit in one to three bytes, surrogates like any other.
encoded(c) ==
    IF c < 128 THEN <<c>>
    ELSE IF c < 2048 THEN <<192 + (c \div 64), 128 + (c % 64)>>
    ELSE <<224 + (c \div 4096), 128 + ((c \div 64) % 64), 128 + (c % 64)>>

\* The bytes of all code units, cut off inside the last one if need be.
packChars(text, ignoreCase) ==
    from_bytes(FlattenSeq([i \in DOMAIN text |->
        encoded(IF ignoreCase THEN Fold[text[i]] ELSE text[i])]))

text_key(how, text) ==
    IF how = "bytes" THEN from_bytes(text) ELSE packChars(text, how = "ignore_case")

compareIgnoreCase(a, b) ==
    lexicographic([i \in DOMAIN a |-> Fold[a[i]]], [i \in DOMAIN b |-> Fold[b[i]]])

\* The whole order: string_view::compare, String.compareTo or IGNORE_CASE_ORDER.
full(how, a, b) == IF how = "ignore_case" THEN compareIgnoreCase(a, b) ELSE lexicographic(a, b)
=============================================================================
