---------------------------- MODULE MCSortKeyOf ----------------------------
(***************************************************************************)
(* An instance of SortKeyOf with the code units on either side of the      *)
(* encoding's boundaries, and some that fold across them.                  *)
(***************************************************************************)
EXTENDS NaturalCompare

\* NUL, 0, 1, A, a, and the ends of the bytes above ASCII.
MCByte == {0, 48, 49, 65, 97, 128, 255}

\* K, k, the Kelvin sign, U+07FF, U+0800, and the last code unit.
MCChar == {0, 75, 107, 2047, 2048, 8490, 65535}

\* K and the Kelvin sign fold to k.
MCFold == [c \in MCChar |-> IF c \in {75, 8490} THEN 107 ELSE c]
=============================================================================
