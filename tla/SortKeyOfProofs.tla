-------------------------- MODULE SortKeyOfProofs --------------------------
(***************************************************************************)
(* Proofs about the keys SortKey::of makes, for every register width and   *)
(* length of a key: the encodings of integers and doubles are exact,       *)
(* rounding long doubles inverts none, and the bytes of a text are ordered *)
(* as its code units, wherever a key cuts them off.                        *)
(***************************************************************************)
EXTENDS SortKeyOf, WellFoundedInduction, TLAPS

\* Projections to numbers are values of the type.
ProjectionsOK == type \in Number => x \in Values(type) /\ y \in Values(type)

\* The encoding of NaN is a key between that of +infinity and the end.
LEMMA CanonicalNanLast ==
    /\ canonical_nan \in Bits
    /\ sign_bit + Infinity < canonical_nan
<1> DEFINE half == (sign_bit - Infinity) \div 2
<1>1. half \in Int /\ 1 <= half /\ half < sign_bit - Infinity
  BY NumericKeysAssumption
<1> HIDE DEF half
<1>2. canonical_nan = sign_bit + Infinity + half
  BY DEF canonical_nan, half
<1> QED
  BY <1>1, <1>2, NumericKeysAssumption DEF Bits

\* Doubles: flipping all bits of negative ones and the sign bit of the others
\* puts the patterns in the documented order.
LEMMA DoublesInOrder ==
    ASSUME NEW v \in Bits, NEW w \in Bits
    PROVE  /\ from_double(v) \in Bits
           /\ (place("double", v) < place("double", w)) <=> (from_double(v) < from_double(w))
<1>1. /\ place("double", v) = IF isnan(v) THEN sign_bit
                              ELSE IF v >= sign_bit THEN -1 - magnitude(v) ELSE magnitude(v)
      /\ place("double", w) = IF isnan(w) THEN sign_bit
                              ELSE IF w >= sign_bit THEN -1 - magnitude(w) ELSE magnitude(w)
  BY DEF place, isnan, magnitude
<1>2. canonical_nan \in Int /\ 0 <= canonical_nan /\ canonical_nan < 2 * sign_bit
      /\ sign_bit + Infinity < canonical_nan
  BY CanonicalNanLast, NumericKeysAssumption DEF Bits
<1> QED
  BY <1>1, <1>2, NumericKeysAssumption, SMTT(30) DEF Bits, from_double, isnan, magnitude

\* Both projections stay values of the type.
LEMMA ProjectionsStayOK == Spec => []ProjectionsOK
<1>1. Init => ProjectionsOK
  BY DEF Init, ProjectionsOK
<1>2. ProjectionsOK /\ [Next]_vars => ProjectionsOK'
  BY DEF ProjectionsOK, Next, compare_with, append_x, append_y, another_pair, vars, Number, Coding
<1> QED
  BY <1>1, <1>2, PTL DEF Spec

\* from_signed, from_unsigned and from_double are exact for every register width
\* and every place of infinity: the unsigned order of the keys is the order of
\* the numbers, with -0.0 before +0.0 and every NaN last.
THEOREM KeysExact == Spec => []NumbersInOrder
<1>1. ProjectionsOK => NumbersInOrder
  <2> SUFFICES ASSUME ProjectionsOK, type \in Number, type # "long_double"
               PROVE  /\ normalize(type, x) \in Bits
                      /\ (place(type, x) < place(type, y))
                            <=> (normalize(type, x) < normalize(type, y))
    BY DEF NumbersInOrder
  <2>1. CASE type = "bool"
    <3>1. x \in {0, 1} /\ y \in {0, 1}
      BY <2>1 DEF ProjectionsOK, Values
    <3>2. /\ normalize(type, x) = (IF x = 1 THEN 1 ELSE 0)
          /\ normalize(type, y) = (IF y = 1 THEN 1 ELSE 0)
      BY <2>1 DEF normalize
    <3>3. place(type, x) = x /\ place(type, y) = y
      BY <2>1 DEF place
    <3>4. sign_bit \in Int /\ 1 <= sign_bit
      BY NumericKeysAssumption
    <3>5. normalize(type, x) = x /\ normalize(type, y) = y
      BY <3>1, <3>2
    <3>6. x \in 0 .. 1 /\ y \in 0 .. 1
      BY <3>1
    <3> QED
      BY <3>3, <3>4, <3>5, <3>6 DEF Bits
  <2>2. CASE type = "unsigned"
    <3>1. x \in Bits /\ y \in Bits
      BY <2>2 DEF ProjectionsOK, Values
    <3>2. /\ normalize(type, x) = x /\ normalize(type, y) = y
          /\ place(type, x) = x /\ place(type, y) = y
      BY <2>2 DEF normalize, place, from_unsigned
    <3> QED
      BY <3>1, <3>2
  <2>3. CASE type = "signed"
    <3>1. x \in 0 - sign_bit .. sign_bit - 1 /\ y \in 0 - sign_bit .. sign_bit - 1
      BY <2>3 DEF ProjectionsOK, Values
    <3>2. /\ normalize(type, x) = from_signed(x) /\ normalize(type, y) = from_signed(y)
          /\ place(type, x) = x /\ place(type, y) = y
      BY <2>3 DEF normalize, place
    <3>3. sign_bit \in Int
      BY NumericKeysAssumption
    <3>4. /\ x \in Int /\ y \in Int /\ 0 <= x + sign_bit /\ x + sign_bit <= 2 * sign_bit - 1
      BY <3>1, <3>3
    <3>5. from_signed(x) = x + sign_bit /\ from_signed(y) = y + sign_bit
      BY <3>3, <3>4 DEF from_signed
    <3> QED
      BY <3>2, <3>3, <3>4, <3>5 DEF Bits
  <2>4. CASE type = "double"
    <3>1. x \in Bits /\ y \in Bits
      BY <2>4 DEF ProjectionsOK, Values
    <3>2. normalize(type, x) = from_double(x) /\ normalize(type, y) = from_double(y)
      BY <2>4 DEF normalize
    <3> QED
      BY <2>4, <3>1, <3>2, DoublesInOrder
  <2> QED
    BY <2>1, <2>2, <2>3, <2>4 DEF Number
<1> QED
  BY <1>1, ProjectionsStayOK, PTL
-----------------------------------------------------------------------------
(* Long doubles                                                            *)

\* Multiplying by a positive number keeps an order.
LEMMA ProductAtMost ==
    ASSUME NEW a \in Int, NEW b \in Int, NEW c \in Nat, a <= b
    PROVE  a * c \in Int /\ b * c \in Int /\ a * c <= b * c
OBVIOUS

\* What division leaves.
LEMMA Quotient ==
    ASSUME NEW a \in Nat, NEW c \in Nat \ {0}
    PROVE  /\ a \div c \in Nat /\ a % c \in 0 .. c - 1
           /\ a = (a \div c) * c + (a % c)
<1> DEFINE q == a \div c
           r == a % c
<1>1. q \in Int /\ r \in 0 .. c - 1 /\ a = q * c + r
  OBVIOUS
<1>2. q >= 0
  <2> HIDE DEF q, r
  <2> SUFFICES ASSUME q <= -1
               PROVE  FALSE
    BY <1>1
  <2>1. q * c <= (-1) * c
    BY <1>1, ProductAtMost
  <2> QED
    BY <1>1, <2>1
<1> QED
  BY <1>1, <1>2

\* A larger number has a larger quotient, or the same and a larger rest.
LEMMA QuotientsInOrder ==
    ASSUME NEW a \in Nat, NEW b \in Nat, NEW c \in Nat \ {0}, a <= b
    PROVE  a \div c < b \div c \/ (a \div c = b \div c /\ a % c <= b % c)
<1> DEFINE q == a \div c
           r == a % c
           u == b \div c
           w == b % c
<1>1. q \in Nat /\ r \in 0 .. c - 1 /\ a = q * c + r
  BY Quotient
<1>2. u \in Nat /\ w \in 0 .. c - 1 /\ b = u * c + w
  BY Quotient
<1> HIDE DEF q, r, u, w
<1>3. ~ (u < q)
  <2> SUFFICES ASSUME u + 1 <= q
               PROVE  FALSE
    BY <1>1, <1>2
  <2>1. (u + 1) * c <= q * c /\ (u + 1) * c = u * c + c
    BY <1>1, <1>2, ProductAtMost
  <2> QED
    BY <1>1, <1>2, <2>1
<1>4. q = u => r <= w
  BY <1>1, <1>2
<1>5. q < u \/ (q = u /\ r <= w)
  BY <1>1, <1>2, <1>3, <1>4
<1> QED
  BY <1>5 DEF q, r, u, w

\* The magnitude of a double next to that of a long double.
nearest(m) ==
    LET q == m \div Finer
        r == m % Finer
    IN  IF 2 * r > Finer \/ (2 * r = Finer /\ q % 2 = 1) THEN q + 1 ELSE q

\* Rounding keeps the order of magnitudes.
LEMMA NearestInOrder ==
    ASSUME NEW m \in Nat, NEW n \in Nat, m <= n
    PROVE  nearest(m) \in Nat /\ nearest(n) \in Nat /\ nearest(m) <= nearest(n)
<1> DEFINE q == m \div Finer
           r == m % Finer
           u == n \div Finer
           w == n % Finer
<1>1. Finer \in Nat \ {0}
  BY NumericKeysAssumption
<1>2. q \in Nat /\ r \in Nat /\ u \in Nat /\ w \in Nat
  BY <1>1, Quotient
<1>3. q < u \/ (q = u /\ r <= w)
  BY <1>1, QuotientsInOrder
<1>4. /\ nearest(m) = IF 2 * r > Finer \/ (2 * r = Finer /\ q % 2 = 1) THEN q + 1 ELSE q
      /\ nearest(n) = IF 2 * w > Finer \/ (2 * w = Finer /\ u % 2 = 1) THEN u + 1 ELSE u
  BY DEF nearest
<1> HIDE DEF q, r, u, w
<1>5. CASE q < u
  BY <1>2, <1>4, <1>5
<1>6. CASE q = u /\ r <= w
  BY <1>1, <1>2, <1>4, <1>6
<1> QED
  BY <1>3, <1>5, <1>6

\* Infinity is rounded to infinity, and nothing smaller to more.
LEMMA NearestAtMost ==
    ASSUME NEW m \in Nat, m <= Infinity * Finer
    PROVE  nearest(m) \in 0 .. Infinity
<1> DEFINE n == Infinity * Finer
           u == n \div Finer
           w == n % Finer
<1>1. Finer \in Nat \ {0} /\ Infinity \in Nat
  BY NumericKeysAssumption
<1>2. n \in Nat
  BY <1>1
<1>3. u \in Nat /\ w \in 0 .. Finer - 1 /\ Infinity * Finer = u * Finer + w
  BY <1>1, <1>2, Quotient
<1>4. nearest(n) = IF 2 * w > Finer \/ (2 * w = Finer /\ u % 2 = 1) THEN u + 1 ELSE u
  BY DEF nearest
<1>5. nearest(m) \in Nat /\ nearest(n) \in Nat /\ nearest(m) <= nearest(n)
  BY <1>2, NearestInOrder
<1> HIDE DEF n, u, w
<1>6. u = Infinity
  <2>1. ~ (u + 1 <= Infinity)
    <3> SUFFICES ASSUME u + 1 <= Infinity
                 PROVE  FALSE
      OBVIOUS
    <3>1. (u + 1) * Finer <= Infinity * Finer /\ (u + 1) * Finer = u * Finer + Finer
      BY <1>1, <1>3, ProductAtMost
    <3> QED
      BY <1>1, <1>3, <3>1
  <2>2. ~ (Infinity + 1 <= u)
    <3> SUFFICES ASSUME Infinity + 1 <= u
                 PROVE  FALSE
      OBVIOUS
    <3>1. (Infinity + 1) * Finer <= u * Finer
          /\ (Infinity + 1) * Finer = Infinity * Finer + Finer
      BY <1>1, <1>3, ProductAtMost
    <3> QED
      BY <1>1, <1>3, <3>1
  <2> QED
    BY <1>1, <1>3, <2>1, <2>2
<1>7. w = 0
  BY <1>1, <1>3, <1>6
<1> QED
  BY <1>1, <1>4, <1>5, <1>6, <1>7

\* The double a long double is rounded to, in the order of doubles.
LEMMA RoundedPlace ==
    ASSUME NEW v \in Values("long_double")
    PROVE  LET half == sign_bit * Finer
               m    == IF v >= half THEN v - half ELSE v
           IN  /\ m \in Nat /\ v \in Nat
               /\ rounded(v) \in Bits
               /\ place("long_double", v) =
                      IF m > Infinity * Finer THEN half ELSE IF v >= half THEN -1 - m ELSE m
               /\ place("double", rounded(v)) =
                      IF m > Infinity * Finer THEN sign_bit
                      ELSE IF v >= half THEN -1 - nearest(m) ELSE nearest(m)
<1> DEFINE half == sign_bit * Finer
           m    == IF v >= half THEN v - half ELSE v
           n    == nearest(m)
<1>1. /\ sign_bit \in Nat /\ sign_bit # 0 /\ Finer \in Nat \ {0}
      /\ Infinity \in Nat /\ Infinity + 2 <= sign_bit
  BY NumericKeysAssumption
<1>2. half \in Nat /\ v \in Nat
  BY <1>1 DEF Values
<1>3. m \in Nat
  BY <1>2
<1>4. place("long_double", v) =
          IF m > Infinity * Finer THEN half ELSE IF v >= half THEN -1 - m ELSE m
  BY DEF place
<1>5. rounded(v) = (IF v >= half THEN sign_bit ELSE 0) + (IF m > Infinity * Finer THEN Infinity + 1 ELSE n)
  BY DEF rounded, nearest
<1>6. m <= Infinity * Finer => n \in 0 .. Infinity
  BY <1>3, NearestAtMost
<1>7. Infinity * Finer \in Nat
  BY <1>1
<1>8. \A b : place("double", b) =
          LET o == IF b >= sign_bit THEN b - sign_bit ELSE b
          IN  IF o > Infinity THEN sign_bit ELSE IF b >= sign_bit THEN -1 - o ELSE o
  BY DEF place
<1> HIDE DEF half, n
<1>9. /\ rounded(v) \in Bits
      /\ place("double", rounded(v)) =
             IF m > Infinity * Finer THEN sign_bit ELSE IF v >= half THEN -1 - n ELSE n
  <2> DEFINE d == IF m > Infinity * Finer THEN Infinity + 1 ELSE n
             b == rounded(v)
  <2> HIDE DEF m
  <2>1. d \in Nat /\ d <= Infinity + 1 /\ (d > Infinity <=> m > Infinity * Finer)
        /\ (~ (m > Infinity * Finer) => d = n)
    <3>1. CASE m > Infinity * Finer
      BY <1>1, <3>1
    <3>2. CASE m <= Infinity * Finer
      <4>1. n \in 0 .. Infinity /\ ~ (m > Infinity * Finer)
        BY <1>3, <1>6, <1>7, <3>2
      <4> QED
        BY <1>1, <4>1
    <3> QED
      BY <1>3, <1>7, <3>1, <3>2
  <2>2. b = (IF v >= half THEN sign_bit ELSE 0) + d
    BY <1>5
  <2>3. /\ place("double", b) =
             IF (IF b >= sign_bit THEN b - sign_bit ELSE b) > Infinity THEN sign_bit
             ELSE IF b >= sign_bit THEN -1 - (b - sign_bit) ELSE b
    BY <1>1, <1>8, <2>1, <2>2
  <2> HIDE DEF d, b, m
  <2>4. b \in Nat /\ b <= 2 * sign_bit - 1 /\ (b >= sign_bit <=> v >= half)
        /\ (b >= sign_bit => b - sign_bit = d) /\ (~ (b >= sign_bit) => b = d)
    BY <1>1, <1>2, <2>1, <2>2
  <2>5. b \in Bits
    BY <1>1, <2>4 DEF Bits
  <2>6. place("double", b) = IF m > Infinity * Finer THEN sign_bit ELSE IF v >= half THEN -1 - n ELSE n
    BY <2>1, <2>3, <2>4
  <2> QED
    BY <2>5, <2>6 DEF b
<1> QED
  BY <1>2, <1>3, <1>4, <1>9 DEF half, n

\* Rounding puts no number before a smaller one.
LEMMA RoundedInOrder ==
    ASSUME NEW v \in Values("long_double"), NEW w \in Values("long_double"),
           place("long_double", v) < place("long_double", w)
    PROVE  place("double", rounded(v)) <= place("double", rounded(w))
<1> DEFINE half  == sign_bit * Finer
           inf   == Infinity * Finer
           a     == IF v >= half THEN v - half ELSE v
           b     == IF w >= half THEN w - half ELSE w
<1>1. /\ sign_bit \in Nat /\ Finer \in Nat \ {0} /\ Infinity \in Nat /\ Infinity + 2 <= sign_bit
  BY NumericKeysAssumption
<1>2. half \in Nat /\ inf \in Nat /\ inf < half
  <2>1. (Infinity + 2) * Finer <= sign_bit * Finer /\ (Infinity + 2) * Finer = Infinity * Finer + 2 * Finer
    BY <1>1, ProductAtMost
  <2> QED
    BY <1>1, <2>1
<1>3. /\ a \in Nat /\ v \in Nat
      /\ place("long_double", v) = IF a > inf THEN half ELSE IF v >= half THEN -1 - a ELSE a
      /\ place("double", rounded(v)) =
             IF a > inf THEN sign_bit ELSE IF v >= half THEN -1 - nearest(a) ELSE nearest(a)
  BY RoundedPlace
<1>4. /\ b \in Nat /\ w \in Nat
      /\ place("long_double", w) = IF b > inf THEN half ELSE IF w >= half THEN -1 - b ELSE b
      /\ place("double", rounded(w)) =
             IF b > inf THEN sign_bit ELSE IF w >= half THEN -1 - nearest(b) ELSE nearest(b)
  BY RoundedPlace
<1>5. a <= inf => nearest(a) \in 0 .. Infinity
  BY <1>3, NearestAtMost
<1>6. b <= inf => nearest(b) \in 0 .. Infinity
  BY <1>4, NearestAtMost
<1>7. a <= b => nearest(a) <= nearest(b)
  BY <1>3, <1>4, NearestInOrder
<1>8. b <= a => nearest(b) <= nearest(a)
  BY <1>3, <1>4, NearestInOrder
<1> HIDE DEF half, inf, a, b
<1>9. CASE b > inf
  <2>1. place("long_double", w) = half /\ place("double", rounded(w)) = sign_bit
    BY <1>4, <1>9
  <2>2. CASE a > inf
    <3>1. place("long_double", v) = half
      BY <1>3, <2>2
    <3> QED
      BY <1>2, <2>1, <3>1
  <2>3. CASE a <= inf
    <3>1. place("double", rounded(v)) = IF v >= half THEN -1 - nearest(a) ELSE nearest(a)
      BY <1>2, <1>3, <2>3
    <3>2. nearest(a) \in Int /\ 0 <= nearest(a) /\ nearest(a) <= Infinity
      BY <1>1, <1>5, <2>3
    <3> QED
      BY <1>1, <2>1, <3>1, <3>2
  <2> QED
    BY <1>2, <1>3, <2>2, <2>3
<1>10. CASE b <= inf
  <2>1. a <= inf
    BY <1>1, <1>2, <1>3, <1>4, <1>10
  <2>2. /\ place("long_double", v) = IF v >= half THEN -1 - a ELSE a
        /\ place("double", rounded(v)) = IF v >= half THEN -1 - nearest(a) ELSE nearest(a)
    BY <1>2, <1>3, <2>1
  <2>3. /\ place("long_double", w) = IF w >= half THEN -1 - b ELSE b
        /\ place("double", rounded(w)) = IF w >= half THEN -1 - nearest(b) ELSE nearest(b)
    BY <1>2, <1>4, <1>10
  <2>4. nearest(a) \in Int /\ nearest(b) \in Int /\ 0 <= nearest(a) /\ 0 <= nearest(b)
    BY <1>1, <1>5, <1>6, <1>10, <2>1
  <2> QED
    BY <1>2, <1>3, <1>4, <1>7, <1>8, <2>2, <2>3, <2>4
<1> QED
  BY <1>2, <1>4, <1>9, <1>10

\* Whatever a projection returns, long doubles included, no number is sorted before
\* a smaller one: rounding them to doubles may make two equal, but turns none round.
THEOREM NumbersStayInOrder == Spec => []NeverInverted
<1>1. ProjectionsOK /\ NumbersInOrder => NeverInverted
  <2> SUFFICES ASSUME ProjectionsOK, NumbersInOrder, type \in Number, place(type, x) < place(type, y)
               PROVE  compare(type, x, y) <= 0
    BY DEF NeverInverted
  <2>1. type \notin Coding
    BY DEF Number, Coding
  <2> DEFINE p == normalize(type, x)
             q == normalize(type, y)
  <2>2. compare(type, x, y) = IF p # q THEN IF p < q THEN -1 ELSE IF p > q THEN 1 ELSE 0 ELSE 0
    BY <2>1 DEF compare, key, key_compare, is_exact
  <2>3. CASE type # "long_double"
    <3>1. p < q
      BY <2>3 DEF NumbersInOrder
    <3> HIDE DEF p, q
    <3> QED
      BY <2>2, <3>1
  <2>4. CASE type = "long_double"
    <3>1. x \in Values("long_double") /\ y \in Values("long_double")
      BY <2>4 DEF ProjectionsOK
    <3>2. place("double", rounded(x)) <= place("double", rounded(y))
      BY <2>4, <3>1, RoundedInOrder
    <3>3. rounded(x) \in Bits /\ rounded(y) \in Bits
      BY <3>1, RoundedPlace
    <3>4. /\ from_double(rounded(x)) \in Bits /\ from_double(rounded(y)) \in Bits
          /\ (place("double", rounded(y)) < place("double", rounded(x)))
                <=> (from_double(rounded(y)) < from_double(rounded(x)))
      BY <3>3, DoublesInOrder
    <3>5. place("double", rounded(x)) \in Int /\ place("double", rounded(y)) \in Int
      BY <3>3, NumericKeysAssumption DEF place, Bits
    <3>6. p = from_double(rounded(x)) /\ q = from_double(rounded(y))
      BY <2>4 DEF normalize
    <3>7. p \in Int /\ q \in Int /\ ~ (q < p)
      BY <3>2, <3>4, <3>5, <3>6, NumericKeysAssumption DEF Bits
    <3> HIDE DEF p, q
    <3> QED
      BY <2>2, <3>7
  <2> QED
    BY <2>3, <2>4
<1> QED
  BY <1>1, ProjectionsStayOK, KeysExact, PTL
-----------------------------------------------------------------------------
(* Induction and recursion, as in LayoutProofs                             *)

\* Every set of natural numbers that is not empty has a least element.
LEMMA Least ==
    ASSUME NEW T \in SUBSET Nat, T # {}
    PROVE  \E least \in T : \A other \in T : least <= other
<1> DEFINE R == OpToRel(<, Nat)
<1>1. IsWellFoundedOn(R, Nat)
  BY NatLessThanWellFounded
<1>2. PICK least \in T : \A other \in T : <<other, least>> \notin R
  <2> HIDE DEF R
  <2> QED
    BY <1>1, WFMin
<1>3. \A other \in T : ~ (other < least)
  BY <1>2 DEF OpToRel
<1>4. \A other \in T : least <= other
  <2> TAKE other \in T
  <2>1. least \in Nat /\ other \in Nat /\ ~ (other < least)
    BY <1>3
  <2> QED
    BY <2>1
<1> QED
  BY <1>4

\* Induction, with a set for the property.
LEMMA SetInduction ==
    ASSUME NEW n \in Nat, NEW S, 0 \in S, \A i \in 1 .. n : i - 1 \in S => i \in S
    PROVE  0 .. n \subseteq S
<1> SUFFICES ASSUME (0 .. n) \ S # {} PROVE FALSE
  OBVIOUS
<1> DEFINE T == (0 .. n) \ S
<1>1. PICK least \in T : \A other \in T : least <= other
  <2>1. T \in SUBSET Nat /\ T # {}
    OBVIOUS
  <2> HIDE DEF T
  <2> QED
    BY <2>1, Least
<1>2. least \in 1 .. n /\ least - 1 \in 0 .. n /\ least - 1 \in S
  BY <1>1
<1> QED
  BY <1>1, <1>2

\* f starts with a and takes the step G[i] at i.
Iterates(f, n, V, a, G) ==
    /\ f \in [0 .. n -> V]
    /\ f[0] = a
    /\ \A i \in 1 .. n : f[i] = G[i][f[i - 1]]

\* Such a function exists when all of that stays in V.
LEMMA Recursion ==
    ASSUME NEW V, NEW a \in V, NEW n \in Nat, NEW G \in [1 .. n -> [V -> V]]
    PROVE  \E f : Iterates(f, n, V, a, G)
<1> DEFINE S == {m \in 0 .. n : \E f : Iterates(f, m, V, a, G)}
<1>1. 0 \in S
  <2>1. Iterates([i \in 0 .. 0 |-> a], 0, V, a, G)
    BY DEF Iterates
  <2> QED
    BY <2>1
<1>2. ASSUME NEW m \in 1 .. n, m - 1 \in S
      PROVE  m \in S
  <2>1. PICK f : Iterates(f, m - 1, V, a, G)
    BY <1>2
  <2> DEFINE g == [i \in 0 .. m |-> IF i = m THEN G[m][f[m - 1]] ELSE f[i]]
  <2>2. f[m - 1] \in V /\ G[m][f[m - 1]] \in V
    BY <2>1 DEF Iterates
  <2>3. Iterates(g, m, V, a, G)
    BY <2>1, <2>2 DEF Iterates
  <2> HIDE DEF g
  <2> QED
    BY <2>3
<1>3. n \in S
  <2> HIDE DEF S
  <2>1. 0 .. n \subseteq S
    BY <1>1, <1>2, SetInduction
  <2> QED
    BY <2>1
<1> QED
  BY <1>3

\* What a function takes over from its value one place before, it has everywhere.
LEMMA Throughout ==
    ASSUME NEW n \in Nat, NEW V, NEW r, r[0] \in V, \A i \in 1 .. n : r[i - 1] \in V => r[i] \in V
    PROVE  \A i \in 0 .. n : r[i] \in V
<1> DEFINE S == {i \in 0 .. n : r[i] \in V}
<1>1. 0 \in S
  OBVIOUS
<1>2. \A i \in 1 .. n : i - 1 \in S => i \in S
  OBVIOUS
<1>3. 0 .. n \subseteq S
  <2> HIDE DEF S
  <2> QED
    BY <1>1, <1>2, SetInduction
<1> QED
  BY <1>3
-----------------------------------------------------------------------------
(* The lexicographic order                                                 *)

\* a and b differ at i and not before.
DifferFirst(a, b, i) ==
    /\ i \in 1 .. Len(a) /\ i \in 1 .. Len(b)
    /\ \A j \in 1 .. i - 1 : a[j] = b[j]
    /\ a[i] # b[i]

\* b starts with a.
Leads(a, b) == Len(a) <= Len(b) /\ \A j \in 1 .. Len(a) : b[j] = a[j]

\* A position before one that two texts have is a position of both.
LEMMA EarlierPosition ==
    ASSUME NEW m \in Nat, NEW k \in Nat, NEW i \in Nat,
           i \in 1 .. m, i \in 1 .. k, NEW j \in 1 .. i - 1
    PROVE  j \in Nat /\ j \in 1 .. m /\ j \in 1 .. k /\ ~ (i <= j)
  OBVIOUS

\* Two sequences differ somewhere first or one of them leads the other.
LEMMA FirstDifference ==
    ASSUME NEW a \in Seq(Nat), NEW b \in Seq(Nat)
    PROVE  (\E i \in Nat : DifferFirst(a, b, i)) \/ Leads(a, b) \/ Leads(b, a)
<1> DEFINE T == {i \in Nat : i \in 1 .. Len(a) /\ i \in 1 .. Len(b) /\ a[i] # b[i]}
<1>1. Len(a) \in Nat /\ Len(b) \in Nat
  OBVIOUS
<1>2. CASE T = {}
  <2>1. \A j \in Nat : j \in 1 .. Len(a) /\ j \in 1 .. Len(b) => a[j] = b[j]
    BY <1>2
  <2> HIDE DEF T
  <2>2. ASSUME Len(a) <= Len(b) PROVE Leads(a, b)
    <3>1. \A j \in 1 .. Len(a) : j \in Nat /\ j \in 1 .. Len(b)
      BY <1>1, <2>2
    <3> QED
      BY <2>1, <2>2, <3>1 DEF Leads
  <2>3. ASSUME Len(b) <= Len(a) PROVE Leads(b, a)
    <3>1. \A j \in 1 .. Len(b) : j \in Nat /\ j \in 1 .. Len(a)
      BY <1>1, <2>3
    <3> QED
      BY <2>1, <2>3, <3>1 DEF Leads
  <2> QED
    BY <1>1, <2>2, <2>3
<1>3. CASE T # {}
  <2>1. T \in SUBSET Nat
    OBVIOUS
  <2> HIDE DEF T
  <2>2. PICK i \in T : \A j \in T : i <= j
    BY <1>3, <2>1, Least
  <2>3. i \in Nat /\ i \in 1 .. Len(a) /\ i \in 1 .. Len(b) /\ a[i] # b[i]
    BY DEF T
  <2>4. ASSUME NEW j \in 1 .. i - 1
        PROVE  a[j] = b[j]
    <3>1. j \in Nat /\ j \in 1 .. Len(a) /\ j \in 1 .. Len(b) /\ ~ (i <= j)
      BY <1>1, <2>3, EarlierPosition
    <3> QED
      BY <2>2, <3>1 DEF T
  <2>5. DifferFirst(a, b, i)
    BY <2>3, <2>4 DEF DifferFirst
  <2> QED
    BY <2>3, <2>5
<1> QED
  BY <1>2, <1>3

\* The first difference decides.
LEMMA DifferenceDecides ==
    ASSUME NEW a \in Seq(Nat), NEW b \in Seq(Nat), NEW i \in Nat, DifferFirst(a, b, i)
    PROVE  /\ lexicographic(a, b) = IF a[i] < b[i] THEN -1 ELSE 1
           /\ lexicographic(a, b) # 0
<1> DEFINE m == IF Len(a) < Len(b) THEN Len(a) ELSE Len(b)
           D == {l \in 1 .. m : a[l] # b[l]}
           c == CHOOSE l \in D : \A j \in D : l <= j
<1>1. Len(a) \in Nat /\ Len(b) \in Nat
  OBVIOUS
<1>2. m \in Nat /\ i \in 1 .. m /\ a[i] # b[i] /\ \A j \in 1 .. i - 1 : a[j] = b[j]
  BY <1>1 DEF DifferFirst
<1>3. lexicographic(a, b) =
          IF D = {} THEN IF Len(a) < Len(b) THEN -1 ELSE IF Len(a) > Len(b) THEN 1 ELSE 0
          ELSE IF a[c] < b[c] THEN -1 ELSE 1
  BY DEF lexicographic
<1> HIDE DEF m
<1>4. i \in D /\ D \subseteq Nat
  BY <1>2
<1>5. \A j \in D : i <= j
  BY <1>2
<1> HIDE DEF D
<1>6. c \in D /\ \A j \in D : c <= j
  BY <1>4, <1>5
<1> HIDE DEF c
<1>7. c = i
  BY <1>4, <1>5, <1>6
<1> QED
  BY <1>3, <1>4, <1>7

\* Without a difference the shorter one is first.
LEMMA LengthDecides ==
    ASSUME NEW a \in Seq(Nat), NEW b \in Seq(Nat), Leads(a, b)
    PROVE  /\ lexicographic(a, b) = IF Len(a) < Len(b) THEN -1 ELSE 0
           /\ lexicographic(b, a) = IF Len(a) < Len(b) THEN 1 ELSE 0
<1>1. Len(a) \in Nat /\ Len(b) \in Nat /\ Len(a) <= Len(b)
  BY DEF Leads
<1>2. {l \in 1 .. (IF Len(a) < Len(b) THEN Len(a) ELSE Len(b)) : a[l] # b[l]} = {}
  BY <1>1 DEF Leads
<1>3. {l \in 1 .. (IF Len(b) < Len(a) THEN Len(b) ELSE Len(a)) : b[l] # a[l]} = {}
  BY <1>1 DEF Leads
<1> QED
  BY <1>1, <1>2, <1>3 DEF lexicographic

\* Sequences that lead the others' way.
LEMMA SameWay ==
    ASSUME NEW a \in Seq(Nat), NEW b \in Seq(Nat), NEW i \in Nat, DifferFirst(a, b, i)
    PROVE  DifferFirst(b, a, i)
BY DEF DifferFirst
-----------------------------------------------------------------------------
(* Cutting off                                                             *)

\* Keys have one length and consist of what they were made from, or zeros.
LEMMA KeyBytesOf ==
    ASSUME NEW a \in Seq(Nat)
    PROVE  /\ from_bytes(a) \in Seq(Nat) /\ Len(from_bytes(a)) = KeyBytes
           /\ KeyBytes \in Nat
           /\ \A i \in 1 .. KeyBytes : from_bytes(a)[i] = IF i <= Len(a) THEN a[i] ELSE 0
<1>1. KeyBytes \in Nat
  BY TextKeysAssumption
<1>2. from_bytes(a) = [i \in 1 .. KeyBytes |-> IF i <= Len(a) THEN a[i] ELSE 0]
  BY DEF from_bytes
<1>3. \A i \in 1 .. KeyBytes : (IF i <= Len(a) THEN a[i] ELSE 0) \in Nat
  OBVIOUS
<1>4. from_bytes(a) \in [1 .. KeyBytes -> Nat]
  BY <1>2, <1>3
<1>5. from_bytes(a) \in Seq(Nat) /\ Len(from_bytes(a)) = KeyBytes
  BY <1>1, <1>4
<1> QED
  BY <1>1, <1>2, <1>5

\* Different keys are ordered as what they were cut from.
LEMMA CutKeepsOrder ==
    ASSUME NEW a \in Seq(Nat), NEW b \in Seq(Nat), from_bytes(a) # from_bytes(b)
    PROVE  lexicographic(from_bytes(a), from_bytes(b)) = lexicographic(a, b)
<1> DEFINE p == from_bytes(a)
           q == from_bytes(b)
<1>1. /\ p \in Seq(Nat) /\ q \in Seq(Nat) /\ Len(p) = KeyBytes /\ Len(q) = KeyBytes /\ KeyBytes \in Nat
      /\ \A i \in 1 .. KeyBytes : p[i] = IF i <= Len(a) THEN a[i] ELSE 0
      /\ \A i \in 1 .. KeyBytes : q[i] = IF i <= Len(b) THEN b[i] ELSE 0
  BY KeyBytesOf
<1>2. p # q
  OBVIOUS
<1>3. Len(a) \in Nat /\ Len(b) \in Nat
  OBVIOUS
<1> HIDE DEF p, q
<1>4. PICK i \in Nat : DifferFirst(p, q, i)
  <2>1. CASE Leads(p, q) \/ Leads(q, p)
    <3>1. \A j \in 1 .. KeyBytes : p[j] = q[j]
      BY <1>1, <2>1 DEF Leads
    <3>2. p = q
      BY <1>1, <3>1
    <3> QED
      BY <1>2, <3>2
  <2> QED
    BY <1>1, <2>1, FirstDifference
<1>5. /\ i \in 1 .. KeyBytes /\ p[i] # q[i] /\ \A j \in 1 .. i - 1 : p[j] = q[j]
      /\ lexicographic(p, q) = IF p[i] < q[i] THEN -1 ELSE 1
  BY <1>1, <1>4, DifferenceDecides DEF DifferFirst
<1>6. CASE i <= Len(a) /\ i <= Len(b)
  <2>1. ASSUME NEW j \in 1 .. i
        PROVE  p[j] = a[j] /\ q[j] = b[j]
    <3>1. j \in 1 .. KeyBytes /\ j <= Len(a) /\ j <= Len(b)
      BY <1>1, <1>3, <1>5, <1>6
    <3> QED
      BY <1>1, <3>1
  <2>2. p[i] = a[i] /\ q[i] = b[i]
    BY <1>5, <2>1
  <2>3. \A j \in 1 .. i - 1 : a[j] = b[j]
    BY <1>5, <2>1
  <2>4. DifferFirst(a, b, i)
    BY <1>3, <1>5, <1>6, <2>2, <2>3 DEF DifferFirst
  <2>5. lexicographic(a, b) = IF a[i] < b[i] THEN -1 ELSE 1
    BY <2>4, DifferenceDecides
  <2> QED
    BY <1>5, <2>5, <2>2 DEF p, q
<1>7. CASE i > Len(a) /\ i <= Len(b)
  <2>1. p[i] = 0 /\ q[i] = b[i] /\ b[i] \in Nat
    BY <1>1, <1>3, <1>5, <1>7
  <2>2. ASSUME NEW j \in 1 .. Len(a)
        PROVE  p[j] = a[j] /\ q[j] = b[j] /\ p[j] = q[j]
    <3>1. j \in 1 .. KeyBytes /\ j <= Len(a) /\ j <= Len(b) /\ j \in 1 .. i - 1
      BY <1>1, <1>3, <1>5, <1>7
    <3> QED
      BY <1>1, <1>5, <3>1
  <2>3. Leads(a, b) /\ Len(a) < Len(b)
    BY <1>3, <1>5, <1>7, <2>2 DEF Leads
  <2>4. lexicographic(a, b) = -1
    BY <2>3, LengthDecides
  <2>5. p[i] < q[i]
    BY <1>5, <2>1
  <2> QED
    BY <1>5, <2>4, <2>5 DEF p, q
<1>8. CASE i <= Len(a) /\ i > Len(b)
  <2>1. p[i] = a[i] /\ q[i] = 0 /\ a[i] \in Nat
    BY <1>1, <1>3, <1>5, <1>8
  <2>2. ASSUME NEW j \in 1 .. Len(b)
        PROVE  p[j] = a[j] /\ q[j] = b[j] /\ p[j] = q[j]
    <3>1. j \in 1 .. KeyBytes /\ j <= Len(a) /\ j <= Len(b) /\ j \in 1 .. i - 1
      BY <1>1, <1>3, <1>5, <1>8
    <3> QED
      BY <1>1, <1>5, <3>1
  <2>3. Leads(b, a) /\ Len(b) < Len(a)
    BY <1>3, <1>5, <1>8, <2>2 DEF Leads
  <2>4. lexicographic(a, b) = 1
    BY <2>3, LengthDecides
  <2>5. ~ (p[i] < q[i])
    BY <1>5, <2>1
  <2> QED
    BY <1>5, <2>4, <2>5 DEF p, q
<1>9. CASE i > Len(a) /\ i > Len(b)
  <2>1. p[i] = 0 /\ q[i] = 0
    BY <1>1, <1>3, <1>5, <1>9
  <2> QED
    BY <1>5, <2>1
<1> QED
  BY <1>3, <1>4, <1>6, <1>7, <1>8, <1>9
-----------------------------------------------------------------------------
(* Code units                                                              *)

\* The bytes of a code unit.
LEMMA EncodedBytes ==
    ASSUME NEW c \in Nat
    PROVE  encoded(c) \in Seq(Nat) /\ Len(encoded(c)) \in 1 .. 3
<1>1. CASE c < 128
  <2>1. encoded(c) = <<c>>
    BY <1>1 DEF encoded
  <2> QED
    BY <2>1
<1>2. CASE c >= 128 /\ c < 2048
  <2>1. encoded(c) = <<192 + (c \div 64), 128 + (c % 64)>>
    BY <1>2 DEF encoded
  <2>2. 192 + (c \div 64) \in Nat /\ 128 + (c % 64) \in Nat
    OBVIOUS
  <2> QED
    BY <2>1, <2>2
<1>3. CASE c >= 2048
  <2>1. encoded(c) = <<224 + (c \div 4096), 128 + ((c \div 64) % 64), 128 + (c % 64)>>
    BY <1>3 DEF encoded
  <2>2. 224 + (c \div 4096) \in Nat /\ 128 + ((c \div 64) % 64) \in Nat /\ 128 + (c % 64) \in Nat
    OBVIOUS
  <2> QED
    BY <2>1, <2>2
<1> QED
  BY <1>1, <1>2, <1>3

\* Bytes of different code units differ before either ends, and in their order.
LEMMA EncodedInOrder ==
    ASSUME NEW c \in Nat, NEW d \in Nat, c < d
    PROVE  \E i \in Nat : DifferFirst(encoded(c), encoded(d), i) /\ encoded(c)[i] < encoded(d)[i]
<1> DEFINE a == encoded(c)
           b == encoded(d)
<1>1. CASE d < 128
  <2>1. a = <<c>> /\ b = <<d>>
    BY <1>1 DEF encoded
  <2> HIDE DEF a, b
  <2>2. DifferFirst(a, b, 1) /\ a[1] < b[1]
    BY <2>1 DEF DifferFirst
  <2> QED
    BY <2>2 DEF a, b
<1>2. CASE c < 128 /\ d >= 128
  <2>1. a = <<c>> /\ 1 \in 1 .. Len(b) /\ b[1] \in Int /\ b[1] > 127
    <3>1. CASE d < 2048
      <4>1. b = <<192 + (d \div 64), 128 + (d % 64)>>
        BY <1>2, <3>1 DEF encoded
      <4> QED
        BY <1>2, <4>1 DEF encoded
    <3>2. CASE d >= 2048
      <4>1. b = <<224 + (d \div 4096), 128 + ((d \div 64) % 64), 128 + (d % 64)>>
        BY <3>2 DEF encoded
      <4> QED
        BY <1>2, <4>1 DEF encoded
    <3> QED
      BY <3>1, <3>2
  <2> HIDE DEF a, b
  <2>2. DifferFirst(a, b, 1) /\ a[1] < b[1]
    BY <1>2, <2>1 DEF DifferFirst
  <2> QED
    BY <2>2 DEF a, b
<1>3. CASE c >= 128 /\ c < 2048 /\ d < 2048
  <2>1. /\ a = <<192 + (c \div 64), 128 + (c % 64)>>
        /\ b = <<192 + (d \div 64), 128 + (d % 64)>>
    BY <1>3 DEF encoded
  <2>2. c \div 64 < d \div 64 \/ (c \div 64 = d \div 64 /\ c % 64 < d % 64)
    OBVIOUS
  <2>3. Len(a) = 2 /\ Len(b) = 2 /\ a[1] = 192 + (c \div 64) /\ a[2] = 128 + (c % 64)
        /\ b[1] = 192 + (d \div 64) /\ b[2] = 128 + (d % 64)
    BY <2>1
  <2> HIDE DEF a, b
  <2>4. (DifferFirst(a, b, 1) /\ a[1] < b[1]) \/ (DifferFirst(a, b, 2) /\ a[2] < b[2])
    BY <2>2, <2>3 DEF DifferFirst
  <2> QED
    BY <2>4 DEF a, b
<1>4. CASE c >= 128 /\ c < 2048 /\ d >= 2048
  <2>1. /\ a = <<192 + (c \div 64), 128 + (c % 64)>>
        /\ b = <<224 + (d \div 4096), 128 + ((d \div 64) % 64), 128 + (d % 64)>>
    BY <1>4 DEF encoded
  <2>2. 192 + (c \div 64) < 224 + (d \div 4096)
    BY <1>4
  <2>3. Len(a) = 2 /\ Len(b) = 3 /\ a[1] = 192 + (c \div 64) /\ b[1] = 224 + (d \div 4096)
    BY <2>1
  <2> HIDE DEF a, b
  <2>4. DifferFirst(a, b, 1) /\ a[1] < b[1]
    BY <2>2, <2>3 DEF DifferFirst
  <2> QED
    BY <2>4 DEF a, b
<1>5. CASE c >= 2048 /\ d >= 2048
  <2>1. /\ a = <<224 + (c \div 4096), 128 + ((c \div 64) % 64), 128 + (c % 64)>>
        /\ b = <<224 + (d \div 4096), 128 + ((d \div 64) % 64), 128 + (d % 64)>>
    BY <1>5 DEF encoded
  <2>2. \/ c \div 4096 < d \div 4096
        \/ c \div 4096 = d \div 4096 /\ (c \div 64) % 64 < (d \div 64) % 64
        \/ c \div 4096 = d \div 4096 /\ (c \div 64) % 64 = (d \div 64) % 64 /\ c % 64 < d % 64
    OBVIOUS
  <2>3. /\ Len(a) = 3 /\ Len(b) = 3 /\ a[1] = 224 + (c \div 4096) /\ b[1] = 224 + (d \div 4096)
        /\ a[2] = 128 + ((c \div 64) % 64) /\ b[2] = 128 + ((d \div 64) % 64)
        /\ a[3] = 128 + (c % 64) /\ b[3] = 128 + (d % 64)
    BY <2>1
  <2> HIDE DEF a, b
  <2>4. \/ DifferFirst(a, b, 1) /\ a[1] < b[1]
        \/ DifferFirst(a, b, 2) /\ a[2] < b[2]
        \/ DifferFirst(a, b, 3) /\ a[3] < b[3]
    <3>1. CASE c \div 4096 < d \div 4096
      BY <2>3, <3>1 DEF DifferFirst
    <3>2. CASE c \div 4096 = d \div 4096 /\ (c \div 64) % 64 < (d \div 64) % 64
      BY <2>3, <3>2 DEF DifferFirst
    <3>3. CASE c \div 4096 = d \div 4096 /\ (c \div 64) % 64 = (d \div 64) % 64 /\ c % 64 < d % 64
      <4>1. a[1] = b[1] /\ a[2] = b[2]
        BY <2>3, <3>3
      <4>2. \A j \in 1 .. 2 : a[j] = b[j]
        <5>1. \A j \in 1 .. 2 : j = 1 \/ j = 2
          OBVIOUS
        <5> QED
          BY <4>1, <5>1
      <4> QED
        BY <2>3, <3>3, <4>2 DEF DifferFirst
    <3> QED
      BY <2>2, <3>1, <3>2, <3>3
  <2> QED
    BY <2>4 DEF a, b
<1> QED
  BY <1>1, <1>2, <1>3, <1>4, <1>5
-----------------------------------------------------------------------------
(* One sequence behind the other                                           *)

\* f[i] is what the first i of the sequences e make.
Joins(f, e, n) ==
    /\ f \in [0 .. n -> Seq(Nat)]
    /\ f[0] = << >>
    /\ \A i \in 1 .. n : f[i] = f[i - 1] \o e[i]

\* FlattenSeq joins.
LEMMA FlattenJoins ==
    ASSUME NEW n \in Nat, NEW e \in [1 .. n -> Seq(Nat)]
    PROVE  \E f : Joins(f, e, n) /\ FlattenSeq(e) = f[n]
<1>1. e \in Seq(Seq(Nat)) /\ Len(e) = n
  OBVIOUS
<1>2. CASE n = 0
  <2> DEFINE f == [i \in 0 .. 0 |-> << >>]
  <2>1. e = << >>
    BY <1>1, <1>2
  <2>2. FlattenSeq(e) = f[0]
    BY <1>1, <1>2, <2>1 DEF FlattenSeq
  <2>3. Joins(f, e, 0)
    BY DEF Joins
  <2> QED
    BY <1>2, <2>2, <2>3
<1>3. CASE n # 0
  <2> DEFINE V == Seq(Nat)
             Body(g) == [i \in 1 .. n |-> IF i = 1 THEN e[i] ELSE g[i - 1] \o e[i]]
             flatten[i \in 1 .. n] == IF i = 1 THEN e[i] ELSE flatten[i - 1] \o e[i]
             G == [i \in 1 .. n |-> [p \in V |-> p \o e[i]]]
             f == [i \in 0 .. n |-> IF i = 0 THEN << >> ELSE flatten[i]]
  <2>1. FlattenSeq(e) = flatten[n] /\ flatten = CHOOSE g : g = Body(g)
    BY <1>1, <1>3 DEF FlattenSeq
  <2>2. << >> \in V /\ \A i \in 1 .. n, p \in V : p \o e[i] \in V
    OBVIOUS
  <2>3. \A i \in 1 .. n : e[i] \in V /\ << >> \o e[i] = e[i]
    OBVIOUS
  <2> HIDE DEF V, flatten
  <2>4. G \in [1 .. n -> [V -> V]] /\ \A i \in 1 .. n, p \in V : G[i][p] = p \o e[i]
    BY <2>2
  <2> HIDE DEF G
  <2>5. PICK g : Iterates(g, n, V, << >>, G)
    BY <2>2, <2>4, Recursion
  <2>6. flatten = Body(flatten)
    <3> DEFINE h == [i \in 1 .. n |-> g[i]]
    <3>1. \A i \in 1 .. n : g[i] = g[i - 1] \o e[i]
      <4> TAKE i \in 1 .. n
      <4>1. i - 1 \in 0 .. n
        OBVIOUS
      <4>2. g[i - 1] \in V /\ g[i] = G[i][g[i - 1]]
        BY <2>5, <4>1 DEF Iterates
      <4> QED
        BY <2>4, <4>2
    <3>2. g[1] = e[1]
      <4>1. 1 \in 1 .. n /\ 1 - 1 = 0 /\ g[0] = << >>
        BY <1>3, <2>5 DEF Iterates
      <4>2. g[1] = g[1 - 1] \o e[1]
        BY <3>1, <4>1
      <4> QED
        BY <2>3, <4>1, <4>2
    <3>3. h = Body(h)
      <4>1. ASSUME NEW i \in 1 .. n
            PROVE  h[i] = IF i = 1 THEN e[i] ELSE h[i - 1] \o e[i]
        <5>1. CASE i = 1
          BY <3>2, <5>1
        <5>2. CASE i # 1
          <6>1. i - 1 \in 1 .. n
            BY <5>2
          <6>2. h[i - 1] = g[i - 1] /\ h[i] = g[i]
            BY <6>1
          <6> HIDE DEF h
          <6> QED
            BY <3>1, <5>2, <6>2
        <5> QED
          BY <5>1, <5>2
      <4>2. h = [i \in 1 .. n |-> h[i]]
        OBVIOUS
      <4> HIDE DEF h
      <4>3. h = [i \in 1 .. n |-> IF i = 1 THEN e[i] ELSE h[i - 1] \o e[i]]
        BY <4>1, <4>2
      <4> QED
        BY <4>3
    <3> HIDE DEF Body
    <3> QED
      BY <2>1, <3>3
  <2>7. flatten[1] = e[1] /\ \A i \in 1 .. n : i # 1 => flatten[i] = flatten[i - 1] \o e[i]
    <3>1. \A i \in 1 .. n : flatten[i] = IF i = 1 THEN e[i] ELSE flatten[i - 1] \o e[i]
      <4>1. flatten = [i \in 1 .. n |-> IF i = 1 THEN e[i] ELSE flatten[i - 1] \o e[i]]
        BY <2>6
      <4> QED
        BY <4>1
    <3>2. 1 \in 1 .. n
      BY <1>3
    <3> QED
      BY <3>1, <3>2
  <2>8. f[0] = << >> /\ \A i \in 1 .. n : f[i] = f[i - 1] \o e[i]
    <3>1. f[0] = << >>
      OBVIOUS
    <3>2. ASSUME NEW i \in 1 .. n
          PROVE  f[i] = f[i - 1] \o e[i]
      <4>1. CASE i = 1
        BY <2>3, <2>7, <3>1, <4>1
      <4>2. CASE i # 1
        <5>1. i - 1 \in 0 .. n /\ i \in 0 .. n /\ i - 1 # 0 /\ i # 0
          BY <4>2
        <5>2. f[i - 1] = flatten[i - 1] /\ f[i] = flatten[i]
          BY <5>1
        <5> HIDE DEF f
        <5> QED
          BY <2>7, <4>2, <5>2
      <4> QED
        BY <4>1, <4>2
    <3> QED
      BY <3>1, <3>2
  <2>9. \A i \in 0 .. n : f[i] \in V
    <3>1. f[0] \in V /\ \A i \in 1 .. n : f[i - 1] \in V => f[i] \in V
      BY <2>2, <2>8
    <3> HIDE DEF f
    <3> QED
      BY <3>1, Throughout
  <2>10. Joins(f, e, n)
    BY <2>8, <2>9 DEF Joins, V
  <2>11. f[n] = flatten[n]
    BY <1>3
  <2> QED
    BY <2>1, <2>10, <2>11
<1> QED
  BY <1>2, <1>3

\* What is in a sequence of numbers.
LEMMA ElementOf ==
    ASSUME NEW a \in Seq(Nat)
    PROVE  Len(a) \in Nat /\ \A i \in 1 .. Len(a) : a[i] \in Nat
OBVIOUS

\* Concatenation puts one sequence behind another.
LEMMA Concatenation ==
    ASSUME NEW a \in Seq(Nat), NEW b \in Seq(Nat)
    PROVE  /\ a \o b \in Seq(Nat) /\ Len(a \o b) = Len(a) + Len(b)
           /\ \A i \in 1 .. Len(a) : (a \o b)[i] = a[i]
           /\ \A i \in 1 .. Len(b) : (a \o b)[Len(a) + i] = b[i]
<1>1. \A i \in 1 .. Len(a) : (a \o b)[i] = a[i]
  OBVIOUS
<1>2. ASSUME NEW i \in 1 .. Len(b)
      PROVE  (a \o b)[Len(a) + i] = b[i]
  OBVIOUS
<1> QED
  BY <1>1, <1>2

\* What the first sequences make leads what all make.
LEMMA JoinsLead ==
    ASSUME NEW n \in Nat, NEW e \in [1 .. n -> Seq(Nat)], NEW f, Joins(f, e, n), NEW m \in 0 .. n
    PROVE  Leads(f[m], f[n])
<1> DEFINE S == {i \in 0 .. n : i >= m => Leads(f[m], f[i])}
<1>1. \A i \in 0 .. n : f[i] \in Seq(Nat) /\ Len(f[i]) \in Nat
  <2>1. \A i \in 0 .. n : f[i] \in Seq(Nat)
    BY DEF Joins
  <2> QED
    BY <2>1
<1>2. Leads(f[m], f[m])
  BY <1>1 DEF Leads
<1>3. 0 \in S
  BY <1>2
<1>4. ASSUME NEW i \in 1 .. n, i - 1 \in S
      PROVE  i \in S
  <2>1. CASE m < i
    <3>1. i - 1 \in 0 .. n /\ Leads(f[m], f[i - 1])
      BY <1>4, <2>1
    <3>2. f[i] = f[i - 1] \o e[i] /\ f[i - 1] \in Seq(Nat) /\ e[i] \in Seq(Nat)
      BY <1>1, <3>1 DEF Joins
    <3>3. Len(f[i - 1]) <= Len(f[i]) /\ \A j \in 1 .. Len(f[i - 1]) : f[i][j] = f[i - 1][j]
      BY <3>2, Concatenation
    <3>4. Leads(f[m], f[i])
      BY <1>1, <3>1, <3>3 DEF Leads
    <3> QED
      BY <3>4
  <2>2. CASE m = i
    BY <1>2, <2>2
  <2>3. CASE m > i
    BY <2>3
  <2> QED
    BY <2>1, <2>2, <2>3
<1>5. n \in S
  <2> HIDE DEF S
  <2>1. 0 .. n \subseteq S
    BY <1>3, <1>4, SetInduction
  <2> QED
    BY <2>1
<1> QED
  BY <1>5

\* Equal sequences make the same.
LEMMA JoinsAlike ==
    ASSUME NEW m \in Nat, NEW e, NEW g, NEW f, NEW h, NEW n \in Nat, NEW l \in Nat,
           Joins(f, e, n), Joins(h, g, l), m <= n, m <= l, \A i \in 1 .. m : e[i] = g[i]
    PROVE  f[m] = h[m]
<1> DEFINE S == {i \in 0 .. m : f[i] = h[i]}
<1>1. 0 \in S
  BY DEF Joins
<1>2. ASSUME NEW i \in 1 .. m, i - 1 \in S
      PROVE  i \in S
  <2>1. i \in 1 .. n /\ i \in 1 .. l
    OBVIOUS
  <2>2. f[i] = f[i - 1] \o e[i] /\ h[i] = h[i - 1] \o g[i]
    BY <2>1 DEF Joins
  <2> QED
    <3>1. f[i - 1] = h[i - 1] /\ e[i] = g[i]
      BY <1>2
    <3>2. f[i] = h[i]
      BY <2>2, <3>1
    <3> QED
      BY <3>2
<1>3. m \in S
  <2> HIDE DEF S
  <2>1. 0 .. m \subseteq S
    BY <1>1, <1>2, SetInduction
  <2> QED
    BY <2>1
<1> QED
  BY <1>3
-----------------------------------------------------------------------------
(* The encoding of whole texts                                             *)

\* The bytes of each code unit, and of all of them.
Coded(t) == [i \in DOMAIN t |-> encoded(t[i])]

Encoding(t) == FlattenSeq(Coded(t))

\* An encoding is made unit by unit.
LEMMA EncodingJoins ==
    ASSUME NEW t \in Seq(Nat)
    PROVE  /\ Encoding(t) \in Seq(Nat)
           /\ \A i \in 1 .. Len(t) : t[i] \in Nat /\ Coded(t)[i] = encoded(t[i])
           /\ Coded(t) \in [1 .. Len(t) -> Seq(Nat)]
           /\ \E f : Joins(f, Coded(t), Len(t)) /\ Encoding(t) = f[Len(t)]
<1> DEFINE n == Len(t)
           e == Coded(t)
<1>1. n \in Nat /\ DOMAIN t = 1 .. n /\ \A i \in 1 .. n : t[i] \in Nat
  OBVIOUS
<1>2. \A i \in 1 .. n : e[i] = encoded(t[i])
  BY <1>1 DEF Coded
<1>3. \A i \in 1 .. n : encoded(t[i]) \in Seq(Nat)
  BY <1>1, EncodedBytes
<1>4. e \in [1 .. n -> Seq(Nat)]
  BY <1>1, <1>3 DEF Coded
<1> HIDE DEF e, n
<1>5. PICK f : Joins(f, e, n) /\ FlattenSeq(e) = f[n]
  BY <1>1, <1>4, FlattenJoins
<1>6. f[n] \in Seq(Nat)
  BY <1>1, <1>5 DEF Joins
<1>7. Encoding(t) = f[n]
  BY <1>5 DEF Encoding, e
<1> QED
  BY <1>1, <1>2, <1>4, <1>5, <1>6, <1>7 DEF e, n

\* The first different unit makes the first different byte.
LEMMA EncodingDiffers ==
    ASSUME NEW s \in Seq(Nat), NEW t \in Seq(Nat), NEW i \in Nat, DifferFirst(s, t, i), s[i] < t[i]
    PROVE  lexicographic(Encoding(s), Encoding(t)) = -1
           /\ lexicographic(Encoding(t), Encoding(s)) = 1
<1> DEFINE n == Len(s)
           l == Len(t)
           p == Encoding(s)
           q == Encoding(t)
<1>1. n \in Nat /\ l \in Nat /\ i \in 1 .. n /\ i \in 1 .. l /\ \A j \in 1 .. i - 1 : s[j] = t[j]
  BY DEF DifferFirst
<1>2. /\ p \in Seq(Nat) /\ q \in Seq(Nat)
      /\ \A j \in 1 .. n : s[j] \in Nat /\ Coded(s)[j] = encoded(s[j])
      /\ \A j \in 1 .. l : t[j] \in Nat /\ Coded(t)[j] = encoded(t[j])
      /\ Coded(s) \in [1 .. n -> Seq(Nat)] /\ Coded(t) \in [1 .. l -> Seq(Nat)]
  BY EncodingJoins
<1>3. PICK f : Joins(f, Coded(s), n) /\ p = f[n]
  BY EncodingJoins
<1>4. PICK h : Joins(h, Coded(t), l) /\ q = h[l]
  BY EncodingJoins
<1> HIDE DEF n, l, p, q
<1>5. f[i - 1] = h[i - 1]
  <2>1. i - 1 \in Nat /\ i - 1 <= n /\ i - 1 <= l
    BY <1>1
  <2>2. \A j \in 1 .. i - 1 : Coded(s)[j] = Coded(t)[j]
    <3> TAKE j \in 1 .. i - 1
    <3>1. j \in 1 .. n /\ j \in 1 .. l /\ s[j] = t[j]
      BY <1>1
    <3> QED
      BY <1>2, <3>1
  <2> QED
    BY <1>1, <1>3, <1>4, <2>1, <2>2, JoinsAlike
<1> DEFINE c == f[i - 1]
           a == encoded(s[i])
           b == encoded(t[i])
<1>6. /\ c \in Seq(Nat) /\ a \in Seq(Nat) /\ b \in Seq(Nat)
      /\ f[i] = c \o a /\ h[i] = c \o b
  <2>1. i - 1 \in 0 .. n
    BY <1>1
  <2>2. c \in Seq(Nat)
    BY <1>3, <2>1 DEF Joins
  <2>3. a \in Seq(Nat) /\ b \in Seq(Nat)
    BY <1>1, <1>2, EncodedBytes
  <2>4. f[i] = c \o Coded(s)[i] /\ h[i] = h[i - 1] \o Coded(t)[i]
    BY <1>1, <1>3, <1>4 DEF Joins
  <2> HIDE DEF c
  <2>5. f[i] = c \o a /\ h[i] = c \o b
    BY <1>1, <1>2, <1>5, <2>4 DEF c
  <2> QED
    BY <2>2, <2>3, <2>5
<1>7. PICK d \in Nat : DifferFirst(a, b, d) /\ a[d] < b[d]
  BY <1>1, <1>2, EncodedInOrder
<1>8. Leads(f[i], p)
  <2>1. i \in 0 .. n /\ Coded(s) \in [1 .. n -> Seq(Nat)]
    BY <1>1, <1>2
  <2> QED
    BY <1>1, <1>3, <2>1, JoinsLead
<1>9. Leads(h[i], q)
  <2>1. i \in 0 .. l /\ Coded(t) \in [1 .. l -> Seq(Nat)]
    BY <1>1, <1>2
  <2> QED
    BY <1>1, <1>4, <2>1, JoinsLead
<1> HIDE DEF a, b, c
<1> DEFINE o == Len(c)
<1>10. /\ a \in Seq(Nat) /\ b \in Seq(Nat) /\ c \in Seq(Nat)
       /\ Len(a) \in Nat /\ Len(b) \in Nat /\ o \in Nat
       /\ \A j \in 1 .. Len(a) : a[j] \in Nat
       /\ \A j \in 1 .. Len(b) : b[j] \in Nat
  BY <1>6, ElementOf
<1>11. /\ o \in Nat /\ d \in 1 .. Len(a) /\ d \in 1 .. Len(b) /\ Len(a) \in Nat /\ Len(b) \in Nat
       /\ \A j \in 1 .. d - 1 : a[j] = b[j]
  BY <1>7, <1>10 DEF DifferFirst
<1>12. /\ Len(c \o a) = o + Len(a) /\ Len(c \o b) = o + Len(b)
       /\ \A j \in 1 .. o : (c \o a)[j] = c[j] /\ (c \o b)[j] = c[j]
       /\ \A j \in 1 .. Len(a) : (c \o a)[o + j] = a[j]
       /\ \A j \in 1 .. Len(b) : (c \o b)[o + j] = b[j]
  <2>1. /\ Len(c \o a) = o + Len(a)
        /\ \A j \in 1 .. o : (c \o a)[j] = c[j]
        /\ \A j \in 1 .. Len(a) : (c \o a)[o + j] = a[j]
    BY <1>10, Concatenation
  <2>2. /\ Len(c \o b) = o + Len(b)
        /\ \A j \in 1 .. o : (c \o b)[j] = c[j]
        /\ \A j \in 1 .. Len(b) : (c \o b)[o + j] = b[j]
    BY <1>10, Concatenation
  <2> QED
    BY <2>1, <2>2
<1>13. /\ o + Len(a) <= Len(p) /\ o + Len(b) <= Len(q)
       /\ \A j \in 1 .. o + Len(a) : p[j] = (c \o a)[j]
       /\ \A j \in 1 .. o + Len(b) : q[j] = (c \o b)[j]
  BY <1>6, <1>8, <1>9, <1>12 DEF Leads
<1>14. Len(p) \in Nat /\ Len(q) \in Nat
  BY <1>2
<1> HIDE DEF o
<1>15. p[o + d] = a[d] /\ q[o + d] = b[d]
  <2>1. o + d \in 1 .. o + Len(a) /\ o + d \in 1 .. o + Len(b)
    BY <1>11
  <2> QED
    BY <1>11, <1>12, <1>13, <2>1
<1>16. ASSUME NEW j \in Nat, 0 < j, j < o + d
       PROVE  p[j] = q[j]
  <2>1. j \in 1 .. o + Len(a) /\ j \in 1 .. o + Len(b)
    BY <1>11, <1>16
  <2>2. p[j] = (c \o a)[j] /\ q[j] = (c \o b)[j]
    BY <1>13, <2>1
  <2>3. CASE j <= o
    <3>1. j \in 1 .. o
      BY <1>11, <1>16, <2>3
    <3> QED
      BY <1>12, <2>2, <3>1
  <2>4. CASE j > o
    <3> DEFINE r == j - o
    <3>1. r \in 1 .. Len(a) /\ r \in 1 .. Len(b) /\ r \in 1 .. d - 1 /\ j = o + r
      BY <1>11, <1>16, <2>4
    <3> HIDE DEF r
    <3> QED
      BY <1>11, <1>16, <1>12, <2>2, <3>1
  <2> QED
    BY <1>11, <1>16, <2>3, <2>4
<1>17. DifferFirst(p, q, o + d) /\ o + d \in Nat
  <2>1. a[d] \in Nat /\ b[d] \in Nat
    BY <1>11, <1>10
  <2>2. p[o + d] # q[o + d]
    BY <1>7, <1>15, <2>1
  <2>3. o + d \in 1 .. Len(p) /\ o + d \in 1 .. Len(q)
    BY <1>11, <1>13, <1>14
  <2>4. o + d \in Nat
    BY <1>11
  <2> DEFINE u == o + d
  <2>5. u \in Nat /\ u \in 1 .. Len(p) /\ u \in 1 .. Len(q) /\ p[u] # q[u]
    BY <2>2, <2>3, <2>4
  <2>6. \A j \in Nat : 0 < j /\ j < u => p[j] = q[j]
    BY <1>16
  <2> HIDE DEF u
  <2>7. DifferFirst(p, q, u)
    <3>1. \A j \in 1 .. u - 1 : j \in Nat /\ 0 < j /\ j < u
      BY <2>5
    <3> QED
      BY <2>5, <2>6, <3>1 DEF DifferFirst
  <2> QED
    BY <2>4, <2>7 DEF u
<1>18. lexicographic(p, q) = -1
  BY <1>2, <1>7, <1>15, <1>17, DifferenceDecides
<1>19. lexicographic(q, p) = 1
  <2>1. DifferFirst(q, p, o + d)
    BY <1>2, <1>17, SameWay
  <2>2. ~ (q[o + d] < p[o + d])
    <3>1. a[d] \in Nat /\ b[d] \in Nat
      BY <1>11, <1>10
    <3> QED
      BY <1>7, <1>15, <3>1
  <2> QED
    BY <1>2, <1>17, <2>1, <2>2, DifferenceDecides
<1> QED
  BY <1>18, <1>19 DEF p, q

\* A text that leads another has an encoding that does.
LEMMA EncodingLeads ==
    ASSUME NEW s \in Seq(Nat), NEW t \in Seq(Nat), Leads(s, t)
    PROVE  /\ Leads(Encoding(s), Encoding(t))
           /\ Len(Encoding(s)) < Len(Encoding(t)) <=> Len(s) < Len(t)
<1> DEFINE n == Len(s)
           l == Len(t)
           p == Encoding(s)
           q == Encoding(t)
<1>1. n \in Nat /\ l \in Nat /\ n <= l /\ \A j \in 1 .. n : t[j] = s[j]
  <2>1. n \in Nat /\ l \in Nat
    OBVIOUS
  <2> HIDE DEF p, q
  <2> QED
    BY <2>1 DEF Leads
<1>2. /\ p \in Seq(Nat) /\ q \in Seq(Nat)
      /\ \A j \in 1 .. n : s[j] \in Nat /\ Coded(s)[j] = encoded(s[j])
      /\ \A j \in 1 .. l : t[j] \in Nat /\ Coded(t)[j] = encoded(t[j])
      /\ Coded(s) \in [1 .. n -> Seq(Nat)] /\ Coded(t) \in [1 .. l -> Seq(Nat)]
  BY EncodingJoins
<1>3. PICK f : Joins(f, Coded(s), n) /\ p = f[n]
  BY EncodingJoins
<1>4. PICK h : Joins(h, Coded(t), l) /\ q = h[l]
  BY EncodingJoins
<1> HIDE DEF n, l, p, q
<1>5. f[n] = h[n]
  <2>1. \A j \in 1 .. n : Coded(s)[j] = Coded(t)[j]
    <3> TAKE j \in 1 .. n
    <3>1. j \in 1 .. l /\ s[j] = t[j]
      BY <1>1
    <3> QED
      BY <1>2, <3>1
  <2> QED
    BY <1>1, <1>3, <1>4, <2>1, JoinsAlike
<1>6. Leads(p, q)
  <2>1. n \in 0 .. l
    BY <1>1
  <2>2. Leads(h[n], q)
    BY <1>1, <1>2, <1>4, <2>1, JoinsLead
  <2> QED
    BY <1>3, <1>5, <2>2
<1>7. ASSUME n < l
      PROVE  Len(p) < Len(q)
  <2>1. n + 1 \in 0 .. l /\ n + 1 \in 1 .. l
    BY <1>1, <1>7
  <2>2. Leads(h[n + 1], q)
    BY <1>1, <1>2, <1>4, <2>1, JoinsLead
  <2>3. h[n + 1] = h[n] \o Coded(t)[n + 1]
    <3>1. \A j \in 1 .. l : \A i \in Nat : i = j - 1 => h[j] = h[i] \o Coded(t)[j]
      BY <1>4 DEF Joins
    <3> DEFINE m == n + 1
    <3>2. n = m - 1 /\ m \in 1 .. l
      BY <1>1, <2>1
    <3> HIDE DEF m
    <3>3. h[m] = h[n] \o Coded(t)[m]
      BY <1>1, <3>1, <3>2
    <3> QED
      BY <3>3 DEF m
  <2>4. h[n + 1] = p \o encoded(t[n + 1])
    BY <1>2, <1>3, <1>5, <2>1, <2>3
  <2>5. encoded(t[n + 1]) \in Seq(Nat) /\ Len(encoded(t[n + 1])) \in 1 .. 3
    BY <1>2, <2>1, EncodedBytes
  <2>6. Len(h[n + 1]) = Len(p) + Len(encoded(t[n + 1]))
    BY <1>2, <2>4, <2>5, Concatenation
  <2>7. Len(h[n + 1]) <= Len(q)
    BY <2>2 DEF Leads
  <2>8. Len(p) \in Nat /\ Len(q) \in Nat
    BY <1>2, ElementOf
  <2> DEFINE more == Len(encoded(t[n + 1]))
             len  == Len(h[n + 1])
  <2>9. more \in 1 .. 3 /\ len = Len(p) + more /\ len <= Len(q)
    BY <2>5, <2>6, <2>7
  <2> HIDE DEF more, len
  <2> QED
    BY <2>8, <2>9
<1>8. ASSUME ~ (n < l)
      PROVE  ~ (Len(p) < Len(q))
  <2>1. n = l
    BY <1>1, <1>8
  <2>2. p = q /\ Len(p) \in Nat
    BY <1>2, <1>3, <1>4, <1>5, <2>1
  <2> QED
    BY <2>2
<1> QED
  BY <1>6, <1>7, <1>8 DEF n, l, p, q

\* The order of the bytes is the order of the code units.
LEMMA EncodingKeepsOrder ==
    ASSUME NEW s \in Seq(Nat), NEW t \in Seq(Nat)
    PROVE  /\ Encoding(s) \in Seq(Nat) /\ Encoding(t) \in Seq(Nat)
           /\ lexicographic(Encoding(s), Encoding(t)) = lexicographic(s, t)
<1>1. Encoding(s) \in Seq(Nat) /\ Encoding(t) \in Seq(Nat)
  BY EncodingJoins
<1>2. ASSUME NEW i \in Nat, DifferFirst(s, t, i)
      PROVE  lexicographic(Encoding(s), Encoding(t)) = lexicographic(s, t)
  <2>1. s[i] \in Nat /\ t[i] \in Nat /\ s[i] # t[i]
    BY <1>2 DEF DifferFirst
  <2>2. lexicographic(s, t) = IF s[i] < t[i] THEN -1 ELSE 1
    BY <1>2, DifferenceDecides
  <2>3. CASE s[i] < t[i]
    BY <1>2, <2>2, <2>3, EncodingDiffers
  <2>4. CASE t[i] < s[i]
    <3>1. DifferFirst(t, s, i)
      BY <1>2, SameWay
    <3>2. lexicographic(Encoding(s), Encoding(t)) = 1
      BY <2>4, <3>1, EncodingDiffers
    <3> QED
      BY <2>1, <2>2, <2>4, <3>2
  <2> QED
    BY <2>1, <2>3, <2>4
<1>3. CASE Leads(s, t)
  <2>1. /\ Leads(Encoding(s), Encoding(t))
        /\ Len(Encoding(s)) < Len(Encoding(t)) <=> Len(s) < Len(t)
    BY <1>3, EncodingLeads
  <2> QED
    BY <1>1, <1>3, <2>1, LengthDecides
<1>4. CASE Leads(t, s)
  <2>1. /\ Leads(Encoding(t), Encoding(s))
        /\ Len(Encoding(t)) < Len(Encoding(s)) <=> Len(t) < Len(s)
    BY <1>4, EncodingLeads
  <2> QED
    BY <1>1, <1>4, <2>1, LengthDecides
<1> QED
  BY <1>1, <1>2, <1>3, <1>4, FirstDifference
-----------------------------------------------------------------------------
(* Text keys                                                               *)

\* Projections to texts are texts.
TextsOK == type \in Coding => x \in Seq(Letters) /\ y \in Seq(Letters)

\* Both projections stay texts of the type.
LEMMA TextsStayOK == Spec => []TextsOK
<1>1. Init => TextsOK
  <2> SUFFICES ASSUME Init, type \in Coding
               PROVE  x \in Seq(Letters) /\ y \in Seq(Letters)
    BY DEF TextsOK
  <2>1. x = << >> /\ y = << >>
    BY DEF Init, Number, Coding
  <2> QED
    BY <2>1
<1>2. TextsOK /\ [Next]_vars => TextsOK'
  <2> SUFFICES ASSUME TextsOK, [Next]_vars
               PROVE  TextsOK'
    OBVIOUS
  <2>1. type' = type
    BY DEF Next, compare_with, append_x, append_y, another_pair, vars
  <2>2. Letters' = Letters
    BY <2>1 DEF Letters
  <2>3. ASSUME type \in Coding
        PROVE  x' \in Seq(Letters) /\ y' \in Seq(Letters)
    <3>1. x \in Seq(Letters) /\ y \in Seq(Letters)
      BY <2>3 DEF TextsOK
    <3>2. CASE UNCHANGED vars
      BY <3>1, <3>2 DEF vars
    <3>3. CASE another_pair
      BY <3>3 DEF another_pair
    <3>4. ASSUME NEW c \in Letters, append_x(c)
          PROVE  x' \in Seq(Letters) /\ y' \in Seq(Letters)
      <4>1. x' = Append(x, c) /\ y' = y
        BY <3>4 DEF append_x
      <4> HIDE DEF Letters
      <4> QED
        BY <3>1, <4>1
    <3>5. ASSUME NEW c \in Letters, append_y(c)
          PROVE  x' \in Seq(Letters) /\ y' \in Seq(Letters)
      <4>1. y' = Append(y, c) /\ x' = x
        BY <3>5 DEF append_y
      <4> HIDE DEF Letters
      <4> QED
        BY <3>1, <4>1
    <3>6. type \notin Number
      BY <2>3 DEF Number, Coding
    <3> QED
      BY <3>2, <3>3, <3>4, <3>5, <3>6 DEF Next
  <2> QED
    BY <2>1, <2>2, <2>3 DEF TextsOK
<1> QED
  BY <1>1, <1>2, PTL DEF Spec

\* The bytes a key is cut from.
Spelled(how, text) ==
    IF how = "bytes" THEN folded(how, text) ELSE Encoding(folded(how, text))

\* The letters of each kind of text.
LettersOf(how) == IF how = "bytes" THEN Byte ELSE Char

\* Folding gives a text of the same length, and changes none whose case counts.
LEMMA FoldedText ==
    ASSUME NEW how \in Coding, NEW text \in Seq(LettersOf(how))
    PROVE  /\ folded(how, text) \in Seq(Nat) /\ Len(folded(how, text)) = Len(text)
           /\ how # "ignore_case" => folded(how, text) = text
           /\ \A i \in 1 .. Len(text) :
                 folded(how, text)[i] = IF how = "ignore_case" THEN Fold[text[i]] ELSE text[i]
<1> DEFINE n == Len(text)
           t == folded(how, text)
<1>1. n \in Nat /\ DOMAIN text = 1 .. n /\ \A i \in 1 .. n : text[i] \in LettersOf(how)
  OBVIOUS
<1>2. LettersOf(how) \subseteq Nat
  BY TextKeysAssumption DEF LettersOf, numbers_below
<1>3. how = "ignore_case" => \A i \in 1 .. n : Fold[text[i]] \in Nat
  <2> SUFFICES ASSUME how = "ignore_case", NEW i \in 1 .. n
               PROVE  Fold[text[i]] \in Nat
    OBVIOUS
  <2>1. text[i] \in Char
    BY <1>1 DEF LettersOf
  <2>2. Fold[text[i]] \in numbers_below(65536)
    BY <2>1, TextKeysAssumption
  <2> QED
    BY <2>2 DEF numbers_below
<1>4. t = [i \in 1 .. n |-> IF how = "ignore_case" THEN Fold[text[i]] ELSE text[i]]
  BY <1>1 DEF folded
<1>5. \A i \in 1 .. n : t[i] \in Nat
  BY <1>1, <1>2, <1>3, <1>4
<1>6. t \in Seq(Nat) /\ Len(t) = n
  BY <1>1, <1>4, <1>5
<1>7. how # "ignore_case" => t = text
  <2> SUFFICES ASSUME how # "ignore_case"
               PROVE  t = text
    OBVIOUS
  <2>1. t = [i \in 1 .. n |-> text[i]]
    BY <1>4
  <2>2. text = [i \in 1 .. n |-> text[i]]
    BY <1>1
  <2> QED
    BY <2>1, <2>2
<1> QED
  BY <1>4, <1>6, <1>7

\* A key is cut from the bytes of a folded text, which order texts as a whole.
LEMMA TextKeyOf ==
    ASSUME NEW how \in Coding, NEW a \in Seq(LettersOf(how)), NEW b \in Seq(LettersOf(how))
    PROVE  /\ Spelled(how, a) \in Seq(Nat) /\ Spelled(how, b) \in Seq(Nat)
           /\ text_key(how, a) = from_bytes(Spelled(how, a))
           /\ text_key(how, b) = from_bytes(Spelled(how, b))
           /\ lexicographic(Spelled(how, a), Spelled(how, b)) = full(how, a, b)
<1> DEFINE s == folded(how, a)
           t == folded(how, b)
<1>1. s \in Seq(Nat) /\ t \in Seq(Nat) /\ (how # "ignore_case" => s = a /\ t = b)
  BY FoldedText
<1>2. full(how, a, b) = lexicographic(s, t)
  BY <1>1 DEF full, compareIgnoreCase, folded
<1>3. ASSUME how # "bytes", NEW text \in Seq(LettersOf(how))
      PROVE  text_key(how, text) = from_bytes(Spelled(how, text))
  <2> DEFINE r == folded(how, text)
  <2>1. how = "chars" \/ how = "ignore_case"
    BY <1>3 DEF Coding
  <2>2. DOMAIN r = DOMAIN text
        /\ \A i \in DOMAIN text : r[i] = IF how = "ignore_case" THEN Fold[text[i]] ELSE text[i]
    BY DEF folded
  <2> HIDE DEF r
  <2>3. Coded(r) = [i \in DOMAIN text |->
                      encoded(IF how = "ignore_case" THEN Fold[text[i]] ELSE text[i])]
    BY <2>2 DEF Coded
  <2>4. text_key(how, text) = packChars(text, how = "ignore_case")
    BY <1>3 DEF text_key
  <2>5. packChars(text, how = "ignore_case") = from_bytes(FlattenSeq(Coded(r)))
    <3>1. CASE how = "ignore_case"
      BY <2>3, <3>1 DEF packChars
    <3>2. CASE how = "chars"
      BY <2>3, <3>2 DEF packChars
    <3> QED
      BY <2>1, <3>1, <3>2
  <2>6. Spelled(how, text) = FlattenSeq(Coded(r))
    BY <1>3 DEF Spelled, Encoding, r
  <2> QED
    BY <2>4, <2>5, <2>6
<1> HIDE DEF s, t
<1>4. CASE how = "bytes"
  <2>1. Spelled(how, a) = a /\ Spelled(how, b) = b /\ s = a /\ t = b
    BY <1>1, <1>4 DEF Spelled, s, t
  <2>2. text_key(how, a) = from_bytes(a) /\ text_key(how, b) = from_bytes(b)
    BY <1>4 DEF text_key
  <2> QED
    BY <1>1, <1>2, <2>1, <2>2
<1>5. CASE how # "bytes"
  <2>1. Spelled(how, a) = Encoding(s) /\ Spelled(how, b) = Encoding(t)
    BY <1>5 DEF Spelled, s, t
  <2>2. /\ Encoding(s) \in Seq(Nat) /\ Encoding(t) \in Seq(Nat)
        /\ lexicographic(Encoding(s), Encoding(t)) = lexicographic(s, t)
    BY <1>1, EncodingKeepsOrder
  <2>3. text_key(how, a) = from_bytes(Spelled(how, a)) /\ text_key(how, b) = from_bytes(Spelled(how, b))
    BY <1>3, <1>5
  <2> QED
    BY <1>2, <2>1, <2>2, <2>3
<1> QED
  BY <1>4, <1>5

\* keys.hpp and Keys.java: wherever the key cuts a text off, in the middle of a
\* code unit or not, the order by key and tie-breaker is that of the whole texts,
\* for any bytes, code units and folding.
THEOREM PrefixesStayFaithful == Spec => []PrefixKeysFaithful
<1>1. TextsOK => PrefixKeysFaithful
  <2> SUFFICES ASSUME TextsOK, type \in Coding
               PROVE  compare(type, x, y) = full(type, x, y)
    BY DEF PrefixKeysFaithful
  <2> DEFINE p == from_bytes(Spelled(type, x))
             q == from_bytes(Spelled(type, y))
  <2>1. x \in Seq(LettersOf(type)) /\ y \in Seq(LettersOf(type))
    BY DEF TextsOK, Letters, LettersOf
  <2>2. /\ Spelled(type, x) \in Seq(Nat) /\ Spelled(type, y) \in Seq(Nat)
        /\ text_key(type, x) = p /\ text_key(type, y) = q
        /\ lexicographic(Spelled(type, x), Spelled(type, y)) = full(type, x, y)
    BY <2>1, TextKeyOf
  <2>3. ~ is_exact(type)
    BY DEF is_exact, Number, Coding
  <2>4. p # q => lexicographic(p, q) = full(type, x, y)
    BY <2>2, CutKeepsOrder
  <2> HIDE DEF p, q
  <2> QED
    BY <2>2, <2>3, <2>4 DEF compare, key, key_compare
<1> QED
  BY <1>1, TextsStayOK, PTL

\* ASCII characters are their own bytes.
LEMMA AsciiEncoding ==
    ASSUME NEW t \in Seq(Nat), IsAscii(t)
    PROVE  Encoding(t) = t
<1> DEFINE n == Len(t)
<1>1. n \in Nat /\ \A i \in 1 .. n : t[i] \in Nat /\ t[i] < 128
  BY DEF IsAscii
<1>2. \A i \in 1 .. n : Coded(t)[i] = encoded(t[i])
  BY EncodingJoins
<1>3. PICK f : Joins(f, Coded(t), n) /\ Encoding(t) = f[n]
  BY EncodingJoins
<1>4. \A i \in 1 .. n : Coded(t)[i] = <<t[i]>> /\ <<t[i]>> \in Seq(Nat)
  <2> TAKE i \in 1 .. n
  <2>1. t[i] \in Nat /\ t[i] < 128 /\ Coded(t)[i] = encoded(t[i])
    BY <1>1, <1>2
  <2> DEFINE c == t[i]
  <2> HIDE DEF c
  <2>2. encoded(c) = <<c>> /\ <<c>> \in Seq(Nat)
    BY <2>1 DEF encoded, c
  <2> QED
    BY <2>1, <2>2 DEF c
<1> DEFINE S == {i \in 0 .. n : Len(f[i]) = i /\ \A j \in 1 .. i : f[i][j] = t[j]}
<1>5. 0 \in S
  <2>1. f[0] = << >>
    BY <1>3 DEF Joins
  <2> QED
    BY <1>1, <2>1
<1>6. ASSUME NEW i \in 1 .. n, i - 1 \in S
      PROVE  i \in S
  <2>1. i - 1 \in 0 .. n /\ Len(f[i - 1]) = i - 1 /\ \A j \in 1 .. i - 1 : f[i - 1][j] = t[j]
    BY <1>6
  <2>2. f[i - 1] \in Seq(Nat)
    BY <1>3, <2>1 DEF Joins
  <2>3. f[i] = f[i - 1] \o <<t[i]>>
    BY <1>3, <1>4 DEF Joins
  <2>4. /\ Len(f[i]) = Len(f[i - 1]) + Len(<<t[i]>>)
        /\ \A j \in 1 .. Len(f[i - 1]) : f[i][j] = f[i - 1][j]
        /\ \A j \in 1 .. Len(<<t[i]>>) : f[i][Len(f[i - 1]) + j] = <<t[i]>>[j]
    BY <1>4, <2>2, <2>3, Concatenation
  <2>5. Len(<<t[i]>>) = 1 /\ <<t[i]>>[1] = t[i] /\ 1 \in 1 .. Len(<<t[i]>>)
    OBVIOUS
  <2>6. Len(f[i]) = i
    BY <2>1, <2>4, <2>5
  <2>7. f[i][Len(f[i - 1]) + 1] = t[i]
    BY <2>4, <2>5
  <2>8. Len(f[i - 1]) + 1 = i
    BY <2>1
  <2>9. f[i][i] = t[i]
    BY <2>7, <2>8
  <2>10. \A j \in 1 .. i : f[i][j] = t[j]
    <3> TAKE j \in 1 .. i
    <3>1. CASE j = i
      BY <2>9, <3>1
    <3>2. CASE j # i
      <4>1. j \in 1 .. i - 1
        BY <3>2
      <4> QED
        BY <2>1, <2>4, <4>1
    <3> QED
      BY <3>1, <3>2
  <2> QED
    BY <2>6, <2>10
<1>7. n \in S
  <2> HIDE DEF S
  <2>1. 0 .. n \subseteq S
    BY <1>1, <1>5, <1>6, SetInduction
  <2> QED
    BY <1>1, <2>1
<1>8. Encoding(t) \in Seq(Nat) /\ Len(Encoding(t)) = n /\ \A j \in 1 .. n : Encoding(t)[j] = t[j]
  <2>1. Encoding(t) \in Seq(Nat)
    BY EncodingJoins
  <2> QED
    BY <1>3, <1>7, <2>1
<1> HIDE DEF S
<1> QED
  BY <1>1, <1>8

\* ASCII texts with one key begin alike.
LEMMA HeadsDiffer ==
    ASSUME NEW a \in Seq(Nat), NEW b \in Seq(Nat), IsAscii(a), IsAscii(b),
           from_bytes(a) = from_bytes(b)
    PROVE  KeyHead(a) = KeyHead(b)
<1> DEFINE n == Len(a)
           l == Len(b)
           p == from_bytes(a)
<1>1. n \in Nat /\ l \in Nat /\ KeyBytes \in Nat
      /\ (\A i \in 1 .. n : a[i] # 0) /\ \A i \in 1 .. l : b[i] # 0
  <2>1. n \in Nat /\ l \in Nat /\ KeyBytes \in Nat
    BY TextKeysAssumption
  <2>2. (\A i \in 1 .. n : 0 < a[i]) /\ \A i \in 1 .. l : 0 < b[i]
    BY DEF IsAscii
  <2> QED
    BY <2>1, <2>2
<1>2. /\ \A i \in 1 .. KeyBytes : p[i] = IF i <= n THEN a[i] ELSE 0
      /\ \A i \in 1 .. KeyBytes : p[i] = IF i <= l THEN b[i] ELSE 0
  BY KeyBytesOf
<1> HIDE DEF p
<1> DEFINE u == IF n < KeyBytes THEN n ELSE KeyBytes
           w == IF l < KeyBytes THEN l ELSE KeyBytes
<1> HIDE DEF n, l
<1>3. \A i \in 1 .. KeyBytes : i <= n <=> i <= l
  <2> TAKE i \in 1 .. KeyBytes
  <2>1. i <= n => a[i] # 0
    BY <1>1
  <2>2. i <= l => b[i] # 0
    BY <1>1
  <2> QED
    BY <1>2, <2>1, <2>2
<1>4. u = w /\ u \in Nat /\ u <= n /\ u <= l /\ u <= KeyBytes
  <2>1. ~ (u < w)
    <3> SUFFICES ASSUME u < w PROVE FALSE
      OBVIOUS
    <3>1. u + 1 \in 1 .. KeyBytes /\ ~ (u + 1 <= n) /\ u + 1 <= l
      BY <1>1
    <3> QED
      BY <1>3, <3>1
  <2>2. ~ (w < u)
    <3> SUFFICES ASSUME w < u PROVE FALSE
      OBVIOUS
    <3>1. w + 1 \in 1 .. KeyBytes /\ ~ (w + 1 <= l) /\ w + 1 <= n
      BY <1>1
    <3> QED
      BY <1>3, <3>1
  <2> QED
    BY <1>1, <2>1, <2>2
<1>5. KeyHead(a) = SubSeq(a, 1, u) /\ KeyHead(b) = SubSeq(b, 1, w)
  BY DEF KeyHead, n, l
<1> HIDE DEF u, w
<1>6. \A i \in 1 .. u : a[i] = b[i]
  <2> TAKE i \in 1 .. u
  <2>1. i \in 1 .. KeyBytes /\ i <= n /\ i <= l
    BY <1>1, <1>4
  <2> QED
    BY <1>2, <2>1
<1>7. SubSeq(a, 1, u) = [i \in 1 .. u |-> a[i]]
  BY <1>4 DEF n
<1>8. SubSeq(b, 1, u) = [i \in 1 .. u |-> b[i]]
  BY <1>4 DEF l
<1> QED
  BY <1>4, <1>5, <1>6, <1>7, <1>8

\* "The key covers the first eight ASCII characters": ASCII texts that differ there
\* have different keys in every encoding, so the tie-breaker is never asked.
THEOREM AsciiStaysDecided == Spec => []AsciiPrefixDecides
<1>1. TextsOK => AsciiPrefixDecides
  <2> DEFINE a == folded(type, x)
             b == folded(type, y)
  <2> SUFFICES ASSUME TextsOK, type \in Coding, IsAscii(a), IsAscii(b), KeyHead(a) # KeyHead(b)
               PROVE  key(type, x) # key(type, y)
    BY DEF AsciiPrefixDecides
  <2>1. x \in Seq(LettersOf(type)) /\ y \in Seq(LettersOf(type))
    BY DEF TextsOK, Letters, LettersOf
  <2>2. a \in Seq(Nat) /\ b \in Seq(Nat)
    BY <2>1, FoldedText
  <2>3. text_key(type, x) = from_bytes(Spelled(type, x)) /\ text_key(type, y) = from_bytes(Spelled(type, y))
    BY <2>1, TextKeyOf
  <2>4. Spelled(type, x) = a /\ Spelled(type, y) = b
    <3>1. Encoding(a) = a /\ Encoding(b) = b
      BY <2>2, AsciiEncoding
    <3> QED
      BY <3>1 DEF Spelled
  <2> HIDE DEF a, b
  <2>5. from_bytes(a) # from_bytes(b)
    BY <2>2, HeadsDiffer
  <2> QED
    BY <2>3, <2>4, <2>5 DEF key
<1> QED
  BY <1>1, TextsStayOK, PTL
=============================================================================
