---------------------------- MODULE NumericKeys ----------------------------
(***************************************************************************)
(* Numbers as 64-bit keys: the encodings of keys.hpp, and the order of the *)
(* numbers they are to keep.                                               *)
(*                                                                         *)
(* A floating-point value is its bit pattern, sign bit first, so that its  *)
(* magnitude grows with the lower bits; those above Infinity are NaNs.  A  *)
(* long double has FinerBits more patterns between two doubles.            *)
(***************************************************************************)
EXTENDS Integers

CONSTANTS
    sign_bit,   \* 2^63: keys are below twice that
    Infinity,   \* the pattern of +infinity
    Finer       \* patterns of a long double for one of a double

ASSUME NumericKeysAssumption ==
    /\ sign_bit \in Nat \ {0}
    /\ Infinity \in 0 .. sign_bit - 2  \* there are quiet NaNs
    /\ Finer \in Nat \ {0}

Number == {"bool", "unsigned", "signed", "double", "long_double"}

Bits == 0 .. 2 * sign_bit - 1

\* The values a projection of type t returns.
Values(t) ==
    CASE t = "bool"        -> {0, 1}
      [] t = "unsigned"    -> Bits
      [] t = "signed"      -> 0 - sign_bit .. sign_bit - 1
      [] t = "double"      -> Bits
      [] t = "long_double" -> 0 .. 2 * sign_bit * Finer - 1
-----------------------------------------------------------------------------
(* The encodings                                                           *)

from_unsigned(v) == v

\* Two's complement with the sign bit flipped.
from_signed(v) == IF v < 0 THEN (v + 2 * sign_bit) - sign_bit ELSE v + sign_bit

magnitude(bits) == IF bits >= sign_bit THEN bits - sign_bit ELSE bits

isnan(bits) == magnitude(bits) > Infinity

\* 0xFFF8...: the pattern of a quiet negative NaN, read as a key.
canonical_nan == sign_bit + Infinity + (sign_bit - Infinity) \div 2

\* Broken: NaNs are encoded like numbers.
from_double_without_nan(bits) ==
    IF bits >= sign_bit THEN 2 * sign_bit - 1 - bits ELSE bits + sign_bit

from_double(bits) ==
    IF isnan(bits) THEN canonical_nan
    ELSE IF bits >= sign_bit THEN 2 * sign_bit - 1 - bits ELSE bits + sign_bit

\* Broken: the pattern is cut off without its sign.
rounded_unsigned(bits) ==
    (IF bits >= sign_bit * Finer THEN bits - sign_bit * Finer ELSE bits) \div Finer

\* long double to double: the nearest pattern, the even one of two; the sign
\* stays, NaNs stay NaNs.  Only the finer mantissa is modelled; a long double also
\* has exponents a double has not, and those become infinity or zero.
rounded(bits) ==
    LET negative == bits >= sign_bit * Finer
        m == IF negative THEN bits - sign_bit * Finer ELSE bits
        q == m \div Finer
        r == m % Finer
        n == IF 2 * r > Finer \/ (2 * r = Finer /\ q % 2 = 1) THEN q + 1 ELSE q
        nan == m > Infinity * Finer
    IN  (IF negative THEN sign_bit ELSE 0) + (IF nan THEN Infinity + 1 ELSE n)

\* The encoding for the type of the projection.
normalize(t, v) ==
    CASE t = "bool"        -> IF v = 1 THEN 1 ELSE 0
      [] t = "unsigned"    -> from_unsigned(v)
      [] t = "signed"      -> from_signed(v)
      [] t = "double"      -> from_double(v)
      [] t = "long_double" -> from_double(rounded(v))
-----------------------------------------------------------------------------
\* The place of a value in the order the header documents: -inf < negatives
\* < -0.0 < +0.0 < positives < +inf < NaN.
place(t, v) ==
    LET half == IF t = "long_double" THEN sign_bit * Finer ELSE sign_bit
        inf  == IF t = "long_double" THEN Infinity * Finer ELSE Infinity
        m    == IF v >= half THEN v - half ELSE v
    IN  IF t \in {"bool", "unsigned", "signed"} THEN v
        ELSE IF m > inf THEN half ELSE IF v >= half THEN -1 - m ELSE m
=============================================================================
